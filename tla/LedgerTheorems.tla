--------------------------- MODULE LedgerTheorems ----------------------------
(***************************************************************************)
(* The ledger's theorems, for every set of users, symbols, prices and      *)
(* quantities and every bound: the inductive invariant of reservations and *)
(* balances, and what follows from it - the scheduler is never refused,    *)
(* the books balance, a settled order is never touched again, an account   *)
(* is what its history makes it, the cap on free users holds, and what is  *)
(* invested is what the holdings cost.                                     *)
(***************************************************************************)
EXTENDS Ledger, FiniteSetTheorems, SequenceTheorems, TLAPS

-----------------------------------------------------------------------------
(* What the operations on one account do to the fields of its two rows.    *)
(* The proofs below use these facts and never look inside the operators.   *)

\* Arithmetic the SMT backend is given as facts: products stay in Nat, and Int.
LEMMA ProductNat == \A a, b \in Nat : a * b \in Nat
OBVIOUS

\* The product of two integers is an integer.
LEMMA ProductInt == \A a, b \in Int : a * b \in Int
OBVIOUS

\* An average over at least one share is a natural number.
LEMMA QuotientNat == \A a \in Nat, b \in Nat \ {0} : a \div b \in Nat
OBVIOUS

\* A lower price costs no more.
LEMMA ProductMonotonic == \A a, b, c \in Nat : a <= b => a * c <= b * c
OBVIOUS

\* Reserving moves cash from available to reserved and nothing else.
LEMMA ReserveFundsFacts ==
  ASSUME NEW pf \in Portfolio, NEW amount \in Nat
  PROVE  LET r == ReserveFunds(pf, amount)
         IN /\ r \in Portfolio
            /\ r.available_balance = pf.available_balance - amount
            /\ r.reserved_balance = pf.reserved_balance + amount
            /\ r.invested_amount = pf.invested_amount
            /\ r.realized_pnl = pf.realized_pnl
<1> DEFINE a == pf.available_balance - amount
           b == pf.reserved_balance + amount
<1>1. a \in Int /\ b \in Int
  BY DEF Portfolio, Money
<1>2. ReserveFunds(pf, amount)
        = [pf EXCEPT !.available_balance = a, !.reserved_balance = b]
  BY DEF ReserveFunds
<1> HIDE DEF a, b
<1>3. LET r == ReserveFunds(pf, amount)
      IN /\ r \in Portfolio
         /\ r.available_balance = a /\ r.reserved_balance = b
         /\ r.invested_amount = pf.invested_amount
         /\ r.realized_pnl = pf.realized_pnl
  BY <1>1, <1>2 DEF Portfolio, Money
<1> QED
  BY <1>3 DEF a, b

\* Reserving for a SELL locks its shares; for a BUY it changes no holding.
LEMMA ReserveSharesFacts ==
  ASSUME NEW h \in Holding, NEW t \in TradeTypes, NEW q \in Nat
  PROVE  LET r == ReserveShares(h, t, q)
         IN /\ r \in Holding
            /\ r.quantity = h.quantity
            /\ r.reserved_quantity
                 = h.reserved_quantity + (IF t = "SELL" THEN q ELSE 0)
            /\ r.avg_price = h.avg_price
BY DEF ReserveShares, Holding

\* Releasing moves back what the order says it reserved.
LEMMA ReleaseFundsFacts ==
  ASSUME NEW pf \in Portfolio, NEW o, o.reserved_amount \in Nat,
         o.trade_type # "BUY" => o.reserved_amount = 0
  PROVE  LET r == ReleaseFunds(pf, o)
         IN /\ r \in Portfolio
            /\ r.available_balance = pf.available_balance + o.reserved_amount
            /\ r.reserved_balance = pf.reserved_balance - o.reserved_amount
            /\ r.invested_amount = pf.invested_amount
            /\ r.realized_pnl = pf.realized_pnl
<1> DEFINE a == pf.available_balance + o.reserved_amount
           b == pf.reserved_balance - o.reserved_amount
<1>1. a \in Int /\ b \in Int /\ pf.available_balance \in Int /\ pf.reserved_balance \in Int
  BY DEF Portfolio, Money
<1>2. CASE o.trade_type = "BUY"
  <2>1. ReleaseFunds(pf, o)
          = [pf EXCEPT !.reserved_balance = b, !.available_balance = a]
    BY <1>2 DEF ReleaseFunds
  <2> HIDE DEF a, b
  <2>2. LET r == ReleaseFunds(pf, o)
        IN /\ r \in Portfolio
           /\ r.available_balance = a /\ r.reserved_balance = b
           /\ r.invested_amount = pf.invested_amount
           /\ r.realized_pnl = pf.realized_pnl
    BY <1>1, <2>1 DEF Portfolio, Money
  <2> QED
    BY <2>2 DEF a, b
<1>3. CASE o.trade_type # "BUY"
  <2>1. ReleaseFunds(pf, o) = pf /\ o.reserved_amount = 0
    BY <1>3 DEF ReleaseFunds
  <2> QED
    BY <1>1, <2>1
<1> QED
  BY <1>2, <1>3

\* Releasing a SELL unlocks its shares.
LEMMA ReleaseSharesFacts ==
  ASSUME NEW h \in Holding, NEW o, o.quantity \in Nat
  PROVE  LET r == ReleaseShares(h, o)
         IN /\ r \in Holding
            /\ r.quantity = h.quantity
            /\ r.reserved_quantity
                 = h.reserved_quantity - (IF o.trade_type = "SELL" THEN o.quantity ELSE 0)
            /\ r.avg_price = h.avg_price
BY DEF ReleaseShares, Holding

\* What a fill moves between cash, cost and profit; in particular it keeps
\* available + invested - realized, whatever the average price is.
LEMMA FillPortfolioFacts ==
  ASSUME NEW pf \in Portfolio, NEW h \in Holding, NEW t \in TradeTypes,
         NEW q \in Nat, NEW p \in Nat
  PROVE  LET r == FillPortfolio(pf, h, t, q, p)
         IN /\ r \in Portfolio
            /\ r.reserved_balance = pf.reserved_balance
            /\ r.available_balance
                 = pf.available_balance + (IF t = "BUY" THEN -(p * q) ELSE p * q)
            /\ r.available_balance + r.invested_amount - r.realized_pnl
                 = pf.available_balance + pf.invested_amount - pf.realized_pnl
<1> DEFINE c == p * q
           k == q * h.avg_price
           g == (p - h.avg_price) * q
<1>1. c \in Int /\ k \in Int /\ g = c - k
  BY DEF Holding
<1>2. /\ pf.available_balance \in Int /\ pf.reserved_balance \in Int
      /\ pf.invested_amount \in Int /\ pf.realized_pnl \in Int
  BY DEF Portfolio, Money
<1>3. FillPortfolio(pf, h, t, q, p) =
        IF t = "BUY"
        THEN [pf EXCEPT !.available_balance = @ - c, !.invested_amount = @ + c]
        ELSE [pf EXCEPT !.available_balance = @ + c,
                        !.realized_pnl = @ + g, !.invested_amount = @ - k]
  BY DEF FillPortfolio
<1> HIDE DEF c, k, g
<1> DEFINE r == FillPortfolio(pf, h, t, q, p)
<1> SUFFICES /\ r \in Portfolio
             /\ r.reserved_balance = pf.reserved_balance
             /\ r.available_balance
                  = pf.available_balance + (IF t = "BUY" THEN -c ELSE c)
             /\ r.available_balance + r.invested_amount - r.realized_pnl
                  = pf.available_balance + pf.invested_amount - pf.realized_pnl
  BY DEF c
<1>4. CASE t = "BUY"
  <2> DEFINE a == pf.available_balance - c
             i == pf.invested_amount + c
  <2>1. a \in Int /\ i \in Int
    BY <1>1, <1>2
  <2>2. r = [pf EXCEPT !.available_balance = a, !.invested_amount = i]
    BY <1>3, <1>4
  <2> HIDE DEF a, i, r
  <2>3. /\ r \in Portfolio
        /\ r.available_balance = a /\ r.invested_amount = i
        /\ r.reserved_balance = pf.reserved_balance
        /\ r.realized_pnl = pf.realized_pnl
    BY <2>1, <2>2 DEF Portfolio, Money
  <2> QED
    BY <1>1, <1>2, <1>4, <2>3 DEF a, i
<1>5. CASE t # "BUY"
  <2> DEFINE a == pf.available_balance + c
             z == pf.realized_pnl + g
             i == pf.invested_amount - k
  <2>1. a \in Int /\ i \in Int /\ z \in Int
    BY <1>1, <1>2
  <2>2. r = [pf EXCEPT !.available_balance = a,
                       !.realized_pnl = z, !.invested_amount = i]
    BY <1>3, <1>5
  <2> HIDE DEF a, i, z, r
  <2>3. /\ r \in Portfolio
        /\ r.available_balance = a /\ r.invested_amount = i /\ r.realized_pnl = z
        /\ r.reserved_balance = pf.reserved_balance
    BY <2>1, <2>2 DEF Portfolio, Money
  <2> QED
    BY <1>1, <1>2, <1>5, <2>3 DEF a, i, z
<1> QED
  BY <1>4, <1>5

\* A fill changes how many shares are held, never how many are locked.
LEMMA FillHoldingFacts ==
  ASSUME NEW h \in Holding, NEW t \in TradeTypes, NEW q \in Nat \ {0},
         NEW p \in Nat, h.quantity \in Nat
  PROVE  LET r == FillHolding(h, t, q, p)
         IN /\ r \in Holding
            /\ r.reserved_quantity = h.reserved_quantity
            /\ r.quantity = h.quantity + (IF t = "BUY" THEN q ELSE -q)
<1>1. h.quantity * h.avg_price + p * q \in Nat
  BY ProductNat DEF Holding
<1>2. AverageAfterBuy(h, q, p) \in Nat
  BY <1>1, QuotientNat DEF AverageAfterBuy
<1> DEFINE v == IF t = "BUY" THEN AverageAfterBuy(h, q, p)
                ELSE IF h.quantity = q THEN 0 ELSE h.avg_price
           m == h.quantity + (IF t = "BUY" THEN q ELSE -q)
<1>3. v \in Nat /\ m \in Int
  BY <1>2 DEF Holding
<1>4. FillHolding(h, t, q, p) = [h EXCEPT !.quantity = m, !.avg_price = v]
  BY DEF FillHolding, TradeTypes, Holding
<1> HIDE DEF v, m
<1>5. LET r == FillHolding(h, t, q, p)
      IN /\ r \in Holding
         /\ r.reserved_quantity = h.reserved_quantity
         /\ r.quantity = m
  BY <1>3, <1>4 DEF Holding
<1> QED
  BY <1>5 DEF m

-----------------------------------------------------------------------------
(* What Total returns, and how it changes with one value of the function.  *)

\* The units of one element are finite and as many as its value.
LEMMA UnitsOfOne ==
  ASSUME NEW k, NEW n \in Nat
  PROVE  IsFiniteSet({k} \X (1..n)) /\ Cardinality({k} \X (1..n)) = n
<1>1. IsFiniteSet({k}) /\ Cardinality({k}) = 1
  BY FS_Singleton
<1>2. IsFiniteSet(1..n) /\ Cardinality(1..n) = n
  BY FS_Interval
<1>3. /\ IsFiniteSet({k} \X (1..n))
      /\ Cardinality({k} \X (1..n)) = Cardinality({k}) * Cardinality(1..n)
  BY <1>1, <1>2, FS_Product, Zenon
<1>4. Cardinality({k}) * Cardinality(1..n) = n
  BY <1>1, <1>2
<1> QED
  BY <1>3, <1>4

\* A function with a finite domain has a finite set of units, so its total is
\* a natural number.
LEMMA TotalType ==
  ASSUME NEW D, IsFiniteSet(D), NEW f \in [D -> Nat]
  PROVE  IsFiniteSet(Units(f)) /\ Total(f) \in Nat
<1> DEFINE T == {{i} \X (1..f[i]) : i \in D}
           g == [i \in D |-> {i} \X (1..f[i])]
<1>1. g \in Surjection(D, T)
  BY DEF Surjection
<1>2. IsFiniteSet(T)
  BY <1>1, FS_Surjection
<1>3. ASSUME NEW S \in T PROVE IsFiniteSet(S)
  <2>1. PICK i \in D : S = {i} \X (1..f[i])
    OBVIOUS
  <2>2. f[i] \in Nat
    OBVIOUS
  <2> QED
    BY <2>1, <2>2, UnitsOfOne
<1>4. IsFiniteSet(UNION T)
  <2> HIDE DEF T
  <2> QED BY <1>2, <1>3, FS_UNION
<1>5. Units(f) = UNION T
  BY DEF Units
<1> QED
  BY <1>4, <1>5, FS_CardinalityType DEF Total

\* The total of a function that is zero everywhere.
LEMMA TotalZero ==
  ASSUME NEW f, \A i \in DOMAIN f : f[i] = 0
  PROVE  Total(f) = 0
<1>1. \A i \in DOMAIN f : {i} \X (1..f[i]) = {}
  OBVIOUS
<1>2. Units(f) = {}
  BY <1>1 DEF Units
<1> QED
  BY <1>2, FS_EmptySet DEF Total

\* A function with one more element in its domain has that value more.
LEMMA TotalExtend ==
  ASSUME NEW D, IsFiniteSet(D), NEW k, k \notin D,
         NEW E, E = D \cup {k},
         NEW f \in [D -> Nat], NEW g \in [E -> Nat],
         \A i \in D : g[i] = f[i]
  PROVE  Total(g) = Total(f) + g[k]
<1> DEFINE K == {k} \X (1..g[k])
<1>1. Units(g) = Units(f) \cup K
  BY DEF Units
<1>2. Units(f) \cap K = {}
  BY DEF Units
<1>3. g[k] \in Nat
  OBVIOUS
<1>4. IsFiniteSet(K) /\ Cardinality(K) = g[k]
  BY <1>3, UnitsOfOne
<1>5. IsFiniteSet(Units(f)) /\ Cardinality(Units(f)) \in Nat
  BY TotalType DEF Total
<1>6. Cardinality(Units(g)) = Cardinality(Units(f)) + Cardinality(K)
                              - Cardinality(Units(f) \cap K)
  <2> HIDE DEF K
  <2> QED BY <1>1, <1>4, <1>5, FS_Union
<1>7. Cardinality(Units(f) \cap K) = 0
  BY <1>2, FS_EmptySet
<1> QED
  BY <1>3, <1>4, <1>5, <1>6, <1>7 DEF Total

\* Changing one value changes the total by the difference.
LEMMA TotalUpdate ==
  ASSUME NEW D, IsFiniteSet(D), NEW k \in D,
         NEW f \in [D -> Nat], NEW g \in [D -> Nat],
         \A i \in D \ {k} : g[i] = f[i]
  PROVE  Total(g) = Total(f) - f[k] + g[k]
<1> DEFINE E == D \ {k}
           r == [i \in E |-> f[i]]
<1>1. IsFiniteSet(E) /\ k \notin E /\ D = E \cup {k}
  BY FS_RemoveElement
<1>2. r \in [E -> Nat]
  OBVIOUS
<1>4. \A i \in E : f[i] = r[i] /\ g[i] = r[i]
  OBVIOUS
<1> HIDE DEF E, r
<1>5. Total(f) = Total(r) + f[k]
  BY <1>1, <1>2, <1>4, TotalExtend
<1>6. Total(g) = Total(r) + g[k]
  BY <1>1, <1>2, <1>4, TotalExtend
<1>7. Total(r) \in Nat
  BY <1>1, <1>2, TotalType
<1> QED
  BY <1>5, <1>6, <1>7

\* No single value exceeds the total.
LEMMA TotalBounds ==
  ASSUME NEW D, IsFiniteSet(D), NEW k \in D, NEW f \in [D -> Nat]
  PROVE  f[k] <= Total(f)
<1> DEFINE g == [f EXCEPT ![k] = 0]
<1>1. g \in [D -> Nat] /\ g[k] = 0 /\ \A i \in D \ {k} : g[i] = f[i]
  OBVIOUS
<1> HIDE DEF g
<1>2. Total(g) = Total(f) - f[k] + g[k]
  BY <1>1, TotalUpdate
<1>3. Total(g) \in Nat /\ Total(f) \in Nat
  BY <1>1, TotalType
<1> QED
  BY <1>1, <1>2, <1>3

-----------------------------------------------------------------------------
(* The inductive invariant. *)

\* What an order's own fields always say of each other.
WellFormed(o) ==
  /\ o.order_type = "LIMIT" =>
       /\ o.limit_price \in Prices
       /\ o.reserved_amount = ReservedAmount(o.trade_type, o.quantity, o.limit_price)
  /\ o.order_type = "MARKET" => o.status # "PENDING" /\ o.reserved_amount = 0

OrdersWellFormed == \A i \in Ids : WellFormed(orders[i])

\* The inductive invariant.  Solvent alone is not inductive: a release adds to
\* the free cash and subtracts from the locked one what an order says it
\* locked, which is safe only because the locked totals are the sum of those.
LedgerInv ==
  /\ TypeOK
  /\ OrdersWellFormed
  /\ ReservedCashBacked
  /\ ReservedSharesBacked
  /\ Solvent

-----------------------------------------------------------------------------
(* The orders table and what it locks. *)

\* Quantities and prices are positive.
LEMMA ConstantFacts ==
  /\ \A q \in Quantities : q \in Nat /\ q # 0
  /\ \A p \in Prices : p \in Nat /\ p # 0
BY QuantitiesAssumption, PricesAssumption

\* Order ids are the positions of a finite sequence of orders.
LEMMA IdsFacts ==
  ASSUME TypeOK
  PROVE  /\ Ids = 1..Len(orders)
         /\ IsFiniteSet(Ids)
         /\ Len(orders) \in Nat
         /\ \A i \in Ids : orders[i] \in Order
<1>1. orders \in Seq(Order)
  BY DEF TypeOK
<1>2. Len(orders) \in Nat /\ DOMAIN orders = 1..Len(orders)
  BY <1>1, LenProperties
<1>3. IsFiniteSet(1..Len(orders))
  BY <1>2, FS_Interval
<1>4. \A i \in 1..Len(orders) : orders[i] \in Order
  BY <1>1, ElementOfSeq
<1> QED
  BY <1>2, <1>3, <1>4 DEF Ids

\* An order locks a natural number of each.
LEMMA LockedType ==
  ASSUME NEW o \in Order
  PROVE  LockedCash(o) \in Nat /\ LockedShares(o) \in Nat
BY ConstantFacts DEF Order, LockedCash, LockedShares

\* What orders lock is a function Total can sum.
LEMMA LockedFunctions ==
  ASSUME TypeOK, NEW u, NEW s
  PROVE  CashLocked(u) \in [Ids -> Nat] /\ SharesLocked(u, s) \in [Ids -> Nat]
BY IdsFacts, LockedType DEF CashLocked, SharesLocked

\* How the two totals grow with one more order.
LEMMA CashLockedGrows ==
  ASSUME IsFiniteSet(Ids), NEW k, k \notin Ids, Ids' = Ids \cup {k},
         \A i \in Ids : orders'[i] = orders[i],
         \A i \in Ids' : LockedCash(orders'[i]) \in Nat,
         NEW u
  PROVE  Total(CashLocked(u))' = Total(CashLocked(u))
           + (IF orders'[k].user_id = u THEN LockedCash(orders'[k]) ELSE 0)
<1> DEFINE f == CashLocked(u)
           g == [i \in Ids' |-> IF orders'[i].user_id = u
                                THEN LockedCash(orders'[i]) ELSE 0]
<1>1. Total(CashLocked(u))' = Total(g)
  BY DEF CashLocked
<1>2. f \in [Ids -> Nat]
  BY DEF CashLocked
<1>3. g \in [Ids' -> Nat]
  OBVIOUS
<1>4. \A i \in Ids : g[i] = f[i]
  BY DEF CashLocked
<1>5. g[k] = IF orders'[k].user_id = u THEN LockedCash(orders'[k]) ELSE 0
  OBVIOUS
<1> HIDE DEF f, g
<1>6. Total(g) = Total(f) + g[k]
  BY <1>2, <1>3, <1>4, TotalExtend
<1> QED
  BY <1>1, <1>5, <1>6 DEF f

\* The same of the shares of one symbol.
LEMMA SharesLockedGrows ==
  ASSUME IsFiniteSet(Ids), NEW k, k \notin Ids, Ids' = Ids \cup {k},
         \A i \in Ids : orders'[i] = orders[i],
         \A i \in Ids' : LockedShares(orders'[i]) \in Nat,
         NEW u, NEW s
  PROVE  Total(SharesLocked(u, s))' = Total(SharesLocked(u, s))
           + (IF orders'[k].user_id = u /\ orders'[k].symbol = s THEN LockedShares(orders'[k]) ELSE 0)
<1> DEFINE f == SharesLocked(u, s)
           g == [i \in Ids' |-> IF orders'[i].user_id = u /\ orders'[i].symbol = s
                                THEN LockedShares(orders'[i]) ELSE 0]
<1>1. Total(SharesLocked(u, s))' = Total(g)
  BY DEF SharesLocked
<1>2. f \in [Ids -> Nat]
  BY DEF SharesLocked
<1>3. g \in [Ids' -> Nat]
  OBVIOUS
<1>4. \A i \in Ids : g[i] = f[i]
  BY DEF SharesLocked
<1>5. g[k] = IF orders'[k].user_id = u /\ orders'[k].symbol = s THEN LockedShares(orders'[k]) ELSE 0
  OBVIOUS
<1> HIDE DEF f, g
<1>6. Total(g) = Total(f) + g[k]
  BY <1>2, <1>3, <1>4, TotalExtend
<1> QED
  BY <1>1, <1>5, <1>6 DEF f

\* A new order adds what it locks to the totals of its own user and symbol.
LEMMA AppendLocks ==
  ASSUME TypeOK, NEW o \in Order, orders' = Append(orders, o)
  PROVE  /\ orders' \in Seq(Order)
         /\ Len(orders') = Len(orders) + 1
         /\ Ids' = Ids \cup {Len(orders) + 1}
         /\ \A i \in Ids : orders'[i] = orders[i]
         /\ orders'[Len(orders) + 1] = o
         /\ \A u : Total(CashLocked(u))' = Total(CashLocked(u))
                     + (IF o.user_id = u THEN LockedCash(o) ELSE 0)
         /\ \A u, s : Total(SharesLocked(u, s))' = Total(SharesLocked(u, s))
                     + (IF o.user_id = u /\ o.symbol = s THEN LockedShares(o) ELSE 0)
<1> DEFINE k == Len(orders) + 1
<1>1. /\ Ids = 1..Len(orders) /\ IsFiniteSet(Ids) /\ Len(orders) \in Nat
      /\ \A i \in Ids : orders[i] \in Order
  BY IdsFacts
<1>2. /\ orders' \in Seq(Order) /\ Len(orders') = k
      /\ \A i \in 1..Len(orders) : orders'[i] = orders[i]
      /\ orders'[k] = o
  BY AppendProperties DEF TypeOK
<1>3. Ids' = Ids \cup {k} /\ k \notin Ids
  <2>1. Ids' = 1..k
    BY <1>2, LenProperties DEF Ids
  <2> QED
    BY <1>1, <2>1
<1>4. \A i \in Ids' : orders'[i] \in Order
  BY <1>1, <1>2, <1>3
<1>5. \A i \in Ids' : LockedCash(orders'[i]) \in Nat /\ LockedShares(orders'[i]) \in Nat
  BY <1>4, LockedType
<1>6. \A i \in Ids : orders'[i] = orders[i]
  BY <1>1, <1>2
<1> HIDE DEF k
<1>7. \A u : Total(CashLocked(u))' = Total(CashLocked(u))
               + (IF orders'[k].user_id = u THEN LockedCash(orders'[k]) ELSE 0)
  BY <1>1, <1>3, <1>5, <1>6, CashLockedGrows
<1>8. \A u, s : Total(SharesLocked(u, s))' = Total(SharesLocked(u, s))
               + (IF orders'[k].user_id = u /\ orders'[k].symbol = s
                  THEN LockedShares(orders'[k]) ELSE 0)
  BY <1>1, <1>3, <1>5, <1>6, SharesLockedGrows
<1>9. orders'[k] = o
  BY <1>2
<1> QED
  BY <1>2, <1>3, <1>6, <1>7, <1>8, <1>9 DEF k

\* How the two totals change with one order.
LEMMA CashLockedChanges ==
  ASSUME IsFiniteSet(Ids), Ids' = Ids, NEW k \in Ids,
         \A i \in Ids \ {k} : orders'[i] = orders[i],
         \A i \in Ids : LockedCash(orders[i]) \in Nat /\ LockedCash(orders[i])' \in Nat,
         NEW u
  PROVE  Total(CashLocked(u))' = Total(CashLocked(u))
           - (IF orders[k].user_id = u THEN LockedCash(orders[k]) ELSE 0)
           + (IF orders'[k].user_id = u
              THEN LockedCash(orders'[k]) ELSE 0)
<1> DEFINE f == CashLocked(u)
           g == [i \in Ids |-> IF orders'[i].user_id = u
                               THEN LockedCash(orders'[i]) ELSE 0]
<1>1. Total(CashLocked(u))' = Total(g)
  BY DEF CashLocked
<1>2. f \in [Ids -> Nat]
  BY DEF CashLocked
<1>3. g \in [Ids -> Nat]
  BY DEF LockedCash
<1>4. \A i \in Ids \ {k} : g[i] = f[i]
  BY DEF CashLocked
<1>5. f[k] = IF orders[k].user_id = u THEN LockedCash(orders[k]) ELSE 0
  BY DEF CashLocked
<1>6. g[k] = IF orders'[k].user_id = u
             THEN LockedCash(orders'[k]) ELSE 0
  OBVIOUS
<1> HIDE DEF f, g
<1>7. Total(g) = Total(f) - f[k] + g[k]
  BY <1>2, <1>3, <1>4, TotalUpdate
<1> QED
  BY <1>1, <1>5, <1>6, <1>7 DEF f

\* The same of the shares of one symbol.
LEMMA SharesLockedChanges ==
  ASSUME IsFiniteSet(Ids), Ids' = Ids, NEW k \in Ids,
         \A i \in Ids \ {k} : orders'[i] = orders[i],
         \A i \in Ids : LockedShares(orders[i]) \in Nat /\ LockedShares(orders[i])' \in Nat,
         NEW u, NEW s
  PROVE  Total(SharesLocked(u, s))' = Total(SharesLocked(u, s))
           - (IF orders[k].user_id = u /\ orders[k].symbol = s THEN LockedShares(orders[k]) ELSE 0)
           + (IF orders'[k].user_id = u /\ orders'[k].symbol = s
              THEN LockedShares(orders'[k]) ELSE 0)
<1> DEFINE f == SharesLocked(u, s)
           g == [i \in Ids |-> IF orders'[i].user_id = u /\ orders'[i].symbol = s
                               THEN LockedShares(orders'[i]) ELSE 0]
<1>1. Total(SharesLocked(u, s))' = Total(g)
  BY DEF SharesLocked
<1>2. f \in [Ids -> Nat]
  BY DEF SharesLocked
<1>3. g \in [Ids -> Nat]
  BY DEF LockedShares
<1>4. \A i \in Ids \ {k} : g[i] = f[i]
  BY DEF SharesLocked
<1>5. f[k] = IF orders[k].user_id = u /\ orders[k].symbol = s THEN LockedShares(orders[k]) ELSE 0
  BY DEF SharesLocked
<1>6. g[k] = IF orders'[k].user_id = u /\ orders'[k].symbol = s
             THEN LockedShares(orders'[k]) ELSE 0
  OBVIOUS
<1> HIDE DEF f, g
<1>7. Total(g) = Total(f) - f[k] + g[k]
  BY <1>2, <1>3, <1>4, TotalUpdate
<1> QED
  BY <1>1, <1>5, <1>6, <1>7 DEF f

\* The orders table after one row changed.
LEMMA ReplaceOrder ==
  ASSUME TypeOK, NEW k \in Ids, NEW o \in Order, orders' = [orders EXCEPT ![k] = o]
  PROVE  /\ orders' \in Seq(Order)
         /\ Len(orders') = Len(orders)
         /\ Ids' = Ids
         /\ orders'[k] = o
         /\ \A i \in Ids \ {k} : orders'[i] = orders[i]
<1>1. /\ Ids = 1..Len(orders) /\ Len(orders) \in Nat
  BY IdsFacts
<1>2. /\ orders' \in Seq(Order) /\ Len(orders') = Len(orders)
      /\ \A i \in Ids : orders'[i] = IF i = k THEN o ELSE orders[i]
  BY <1>1, ExceptSeq DEF TypeOK
<1>3. Ids' = Ids
  BY <1>1, <1>2, LenProperties DEF Ids
<1> QED
  BY <1>2, <1>3

\* An order that leaves PENDING takes what it locked out of the totals.
LEMMA SettleLocks ==
  ASSUME TypeOK, NEW k \in Ids, Ids' = Ids,
         orders'[k] \in Order, orders'[k].status # "PENDING",
         orders'[k].user_id = orders[k].user_id,
         orders'[k].symbol = orders[k].symbol,
         \A i \in Ids \ {k} : orders'[i] = orders[i]
  PROVE  /\ \A u : Total(CashLocked(u))' = Total(CashLocked(u))
                     - (IF orders[k].user_id = u THEN LockedCash(orders[k]) ELSE 0)
         /\ \A u, s : Total(SharesLocked(u, s))' = Total(SharesLocked(u, s))
                     - (IF orders[k].user_id = u /\ orders[k].symbol = s
                        THEN LockedShares(orders[k]) ELSE 0)
<1>1. /\ Ids = 1..Len(orders) /\ IsFiniteSet(Ids) /\ Len(orders) \in Nat
      /\ \A i \in Ids : orders[i] \in Order
  BY IdsFacts
<1>4. \A i \in Ids : orders'[i] \in Order
  BY <1>1
<1>5. \A i \in Ids : /\ LockedCash(orders[i]) \in Nat /\ LockedCash(orders[i])' \in Nat
                     /\ LockedShares(orders[i]) \in Nat /\ LockedShares(orders[i])' \in Nat
  <2>1. \A x : LockedCash(orders[x])' = LockedCash(orders'[x])
             /\ LockedShares(orders[x])' = LockedShares(orders'[x])
    BY DEF LockedCash, LockedShares
  <2> QED
    BY <1>1, <1>4, <2>1, LockedType
<1>6. LockedCash(orders'[k]) = 0 /\ LockedShares(orders'[k]) = 0
  BY DEF LockedCash, LockedShares
<1>8. ASSUME NEW u
      PROVE  Total(CashLocked(u))' = Total(CashLocked(u))
               - (IF orders[k].user_id = u THEN LockedCash(orders[k]) ELSE 0)
  <2>1. Total(CashLocked(u))' = Total(CashLocked(u))
           - (IF orders[k].user_id = u THEN LockedCash(orders[k]) ELSE 0)
           + (IF orders'[k].user_id = u THEN LockedCash(orders'[k]) ELSE 0)
    BY <1>1, <1>5, CashLockedChanges
  <2>2. Total(CashLocked(u)) \in Nat /\ LockedCash(orders[k]) \in Nat
    BY <1>1, <1>5, LockedFunctions, TotalType
  <2> QED
    BY <1>6, <2>1, <2>2
<1>9. ASSUME NEW u, NEW s
      PROVE  Total(SharesLocked(u, s))' = Total(SharesLocked(u, s))
               - (IF orders[k].user_id = u /\ orders[k].symbol = s THEN LockedShares(orders[k]) ELSE 0)
  <2>1. Total(SharesLocked(u, s))' = Total(SharesLocked(u, s))
           - (IF orders[k].user_id = u /\ orders[k].symbol = s
              THEN LockedShares(orders[k]) ELSE 0)
           + (IF orders'[k].user_id = u /\ orders'[k].symbol = s
              THEN LockedShares(orders'[k]) ELSE 0)
    BY <1>1, <1>5, SharesLockedChanges
  <2>2. Total(SharesLocked(u, s)) \in Nat /\ LockedShares(orders[k]) \in Nat
    BY <1>1, <1>5, LockedFunctions, TotalType
  <2> QED
    BY <1>6, <2>1, <2>2
<1> QED
  BY <1>8, <1>9

-----------------------------------------------------------------------------
(* One step on one account. *)

\* Rows whose locked amounts move as the order table's do, and that are left
\* solvent, keep the whole invariant about accounts.
LEMMA AccountStep ==
  ASSUME LedgerInv, NEW u \in Users, NEW s \in Symbols,
         NEW pf \in Portfolio, NEW h \in Holding, NEW dc \in Int, NEW ds \in Int,
         SetAccount(u, s, pf, h),
         pf.available_balance >= 0,
         pf.reserved_balance = portfolio[u].reserved_balance + dc,
         h.reserved_quantity <= h.quantity,
         h.reserved_quantity = holding[u][s].reserved_quantity + ds,
         \A v : Total(CashLocked(v))' = Total(CashLocked(v)) + (IF u = v THEN dc ELSE 0),
         \A v, r : Total(SharesLocked(v, r))' = Total(SharesLocked(v, r))
                     + (IF u = v /\ s = r THEN ds ELSE 0)
  PROVE  /\ portfolio' \in [Users -> Portfolio]
         /\ holding' \in [Users -> [Symbols -> Holding]]
         /\ ReservedCashBacked'
         /\ ReservedSharesBacked'
         /\ Solvent'
<1>1. /\ portfolio \in [Users -> Portfolio]
      /\ holding \in [Users -> [Symbols -> Holding]]
  BY DEF LedgerInv, TypeOK
<1>2. /\ portfolio' \in [Users -> Portfolio]
      /\ \A v \in Users : portfolio'[v] = IF v = u THEN pf ELSE portfolio[v]
  BY <1>1 DEF SetAccount
<1>3. /\ holding' \in [Users -> [Symbols -> Holding]]
      /\ \A v \in Users, r \in Symbols :
           holding'[v][r] = IF v = u /\ r = s THEN h ELSE holding[v][r]
  BY <1>1 DEF SetAccount
<1>4. \A v \in Users, r \in Symbols :
        /\ Total(CashLocked(v)) \in Nat
        /\ Total(SharesLocked(v, r)) \in Nat
  BY IdsFacts, LockedFunctions, TotalType DEF LedgerInv
<1>5. ReservedCashBacked'
  <2> SUFFICES ASSUME NEW v \in Users
               PROVE  portfolio'[v].reserved_balance = Total(CashLocked(v))'
    BY DEF ReservedCashBacked
  <2>1. portfolio[v].reserved_balance = Total(CashLocked(v))
    BY DEF LedgerInv, ReservedCashBacked
  <2> QED
    BY <1>2, <1>4, <2>1
<1>6. ReservedSharesBacked'
  <2> SUFFICES ASSUME NEW v \in Users, NEW r \in Symbols
               PROVE  holding'[v][r].reserved_quantity = Total(SharesLocked(v, r))'
    BY DEF ReservedSharesBacked
  <2>1. holding[v][r].reserved_quantity = Total(SharesLocked(v, r))
    BY DEF LedgerInv, ReservedSharesBacked
  <2> QED
    BY <1>3, <1>4, <2>1
<1>7. Solvent'
  BY <1>2, <1>3 DEF LedgerInv, Solvent
<1> QED
  BY <1>2, <1>3, <1>5, <1>6, <1>7

\* What the invariant says of the account an order draws on.
LEMMA AccountFacts ==
  ASSUME LedgerInv, NEW u \in Users, NEW s \in Symbols
  PROVE  /\ portfolio[u] \in Portfolio
         /\ holding[u][s] \in Holding
         /\ portfolio[u].available_balance \in Nat
         /\ portfolio[u].reserved_balance \in Nat
         /\ holding[u][s].reserved_quantity \in Nat
         /\ holding[u][s].quantity \in Nat
         /\ holding[u][s].reserved_quantity <= holding[u][s].quantity
<1>1. portfolio[u] \in Portfolio /\ holding[u][s] \in Holding
  BY DEF LedgerInv, TypeOK
<1>2. Total(CashLocked(u)) \in Nat /\ Total(SharesLocked(u, s)) \in Nat
  BY IdsFacts, LockedFunctions, TotalType DEF LedgerInv
<1>3. /\ portfolio[u].reserved_balance = Total(CashLocked(u))
      /\ holding[u][s].reserved_quantity = Total(SharesLocked(u, s))
  BY DEF LedgerInv, ReservedCashBacked, ReservedSharesBacked
<1>4. /\ portfolio[u].available_balance \in Int
      /\ holding[u][s].quantity \in Int
  BY <1>1 DEF Portfolio, Holding, Money
<1> QED
  BY <1>1, <1>2, <1>3, <1>4 DEF LedgerInv, Solvent

\* A PENDING order is a LIMIT order, and its account holds at least what it
\* locked.
LEMMA PendingFacts ==
  ASSUME LedgerInv, NEW i \in Ids, orders[i].status = "PENDING"
  PROVE  LET o == orders[i]
             u == o.user_id
         IN /\ o \in Order
            /\ u \in Users /\ o.symbol \in Symbols /\ o.trade_type \in TradeTypes
            /\ o.quantity \in Quantities /\ o.reserved_amount \in Nat
            /\ o.order_type = "LIMIT" /\ o.limit_price \in Prices
            /\ o.reserved_amount
                 = IF o.trade_type = "BUY" THEN o.limit_price * o.quantity ELSE 0
            /\ LockedCash(o) = o.reserved_amount
            /\ LockedShares(o) = IF o.trade_type = "SELL" THEN o.quantity ELSE 0
            /\ LockedCash(o) <= portfolio[u].reserved_balance
            /\ LockedShares(o) <= holding[u][o.symbol].reserved_quantity
<1> DEFINE o == orders[i]
           u == o.user_id
           c == CashLocked(u)
           d == SharesLocked(u, o.symbol)
<1>1. TypeOK /\ o \in Order /\ WellFormed(o)
  BY IdsFacts DEF LedgerInv, OrdersWellFormed
<1>2. /\ u \in Users /\ o.symbol \in Symbols /\ o.trade_type \in TradeTypes
      /\ o.quantity \in Quantities /\ o.reserved_amount \in Nat
      /\ o.order_type \in OrderTypes
  BY <1>1 DEF Order
<1>3. /\ o.order_type = "LIMIT" /\ o.limit_price \in Prices
      /\ o.reserved_amount
           = IF o.trade_type = "BUY" THEN o.limit_price * o.quantity ELSE 0
  BY <1>1, <1>2 DEF WellFormed, OrderTypes, ReservedAmount
<1>4. /\ LockedCash(o) = o.reserved_amount
      /\ LockedShares(o) = IF o.trade_type = "SELL" THEN o.quantity ELSE 0
  BY DEF LockedCash, LockedShares
<1>5. /\ c \in [Ids -> Nat] /\ c[i] = LockedCash(o)
      /\ d \in [Ids -> Nat] /\ d[i] = LockedShares(o)
  BY <1>1, LockedFunctions DEF CashLocked, SharesLocked
<1>6. IsFiniteSet(Ids)
  BY <1>1, IdsFacts
<1>7. c[i] <= Total(c) /\ d[i] <= Total(d)
  <2> HIDE DEF c, d
  <2> QED
    BY <1>5, <1>6, TotalBounds
<1>8. /\ portfolio[u].reserved_balance = Total(c)
      /\ holding[u][o.symbol].reserved_quantity = Total(d)
  BY <1>2 DEF LedgerInv, ReservedCashBacked, ReservedSharesBacked
<1> QED
  BY <1>1, <1>2, <1>3, <1>4, <1>5, <1>7, <1>8

-----------------------------------------------------------------------------
(* One lemma for each kind of step. *)

\* The part of the invariant that speaks of the three tables.
TablesOK ==
  /\ portfolio \in [Users -> Portfolio]
  /\ holding \in [Users -> [Symbols -> Holding]]
  /\ orders \in Seq(Order)
  /\ Len(orders) <= MaxOrders
  /\ OrdersWellFormed
  /\ ReservedCashBacked
  /\ ReservedSharesBacked
  /\ Solvent

\* A fill the code does not refuse leaves a solvent account and locks nothing.
LEMMA FillKeepsSolvent ==
  ASSUME NEW pf \in Portfolio, NEW h \in Holding, NEW t \in TradeTypes,
         NEW q \in Quantities, NEW p \in Prices,
         pf.available_balance >= 0, h.quantity \in Nat,
         h.reserved_quantity <= h.quantity, CanFill(pf, h, t, q, p)
  PROVE  LET r == FillPortfolio(pf, h, t, q, p)
             k == FillHolding(h, t, q, p)
         IN /\ r \in Portfolio /\ k \in Holding
            /\ r.available_balance >= 0
            /\ r.reserved_balance = pf.reserved_balance
            /\ k.reserved_quantity = h.reserved_quantity
            /\ k.reserved_quantity <= k.quantity
<1> DEFINE r == FillPortfolio(pf, h, t, q, p)
           k == FillHolding(h, t, q, p)
           c == p * q
<1>1. q \in Nat \ {0} /\ p \in Nat /\ c \in Nat
  BY ConstantFacts, ProductNat
<1>2. /\ r \in Portfolio
      /\ r.reserved_balance = pf.reserved_balance
      /\ r.available_balance = pf.available_balance + (IF t = "BUY" THEN -c ELSE c)
  BY <1>1, FillPortfolioFacts
<1>3. /\ k \in Holding
      /\ k.reserved_quantity = h.reserved_quantity
      /\ k.quantity = h.quantity + (IF t = "BUY" THEN q ELSE -q)
  BY <1>1, FillHoldingFacts
<1>4. /\ pf.available_balance \in Int
      /\ h.reserved_quantity \in Int
      /\ t = "BUY" => pf.available_balance >= c
      /\ t # "BUY" => h.quantity - h.reserved_quantity >= q
  BY DEF CanFill, AvailableQuantity, Portfolio, Holding, Money
<1> HIDE DEF r, k, c
<1>5. r.available_balance >= 0
  BY <1>1, <1>2, <1>4
<1>6. k.reserved_quantity <= k.quantity
  BY <1>1, <1>3, <1>4
<1> QED
  BY <1>2, <1>3, <1>5, <1>6 DEF r, k

\* A row changed only in its status, and perhaps its executed_price.
LEMMA StatusChange ==
  ASSUME NEW o \in Order, WellFormed(o), NEW st \in Statuses \ {"PENDING"}
  PROVE  LET n == [o EXCEPT !.status = st]
         IN /\ n \in Order /\ WellFormed(n)
            /\ n.user_id = o.user_id /\ n.symbol = o.symbol /\ n.status = st
BY DEF Order, WellFormed

\* The row a fill writes: executed, at the fill's price.
LEMMA ExecutedChange ==
  ASSUME NEW o \in Order, WellFormed(o), NEW p \in Prices
  PROVE  LET n == [o EXCEPT !.status = "EXECUTED", !.executed_price = p]
         IN /\ n \in Order /\ WellFormed(n)
            /\ n.user_id = o.user_id /\ n.symbol = o.symbol /\ n.status = "EXECUTED"
            /\ n.trade_type = o.trade_type /\ n.quantity = o.quantity
            /\ n.executed_price = p
BY DEF Order, WellFormed, Statuses

\* Cancel, reject and expire: the reservation returns to the account.
LEMMA ReleaseStep ==
  ASSUME LedgerInv, NEW i \in Ids, orders[i].status = "PENDING",
         NEW st \in Statuses \ {"PENDING"}, ReleaseAs(i, st)
  PROVE  TablesOK'
<1> DEFINE o == orders[i]
           u == o.user_id
           s == o.symbol
           pf == ReleaseFunds(portfolio[u], o)
           h == ReleaseShares(holding[u][s], o)
           n == [o EXCEPT !.status = st]
<1>1. /\ o \in Order /\ u \in Users /\ s \in Symbols
      /\ o.quantity \in Quantities /\ o.reserved_amount \in Nat
      /\ o.trade_type # "BUY" => o.reserved_amount = 0
      /\ o.order_type = "LIMIT"
      /\ LockedCash(o) = o.reserved_amount
      /\ LockedShares(o) = IF o.trade_type = "SELL" THEN o.quantity ELSE 0
  BY PendingFacts
<1>2. /\ portfolio[u] \in Portfolio /\ holding[u][s] \in Holding
      /\ portfolio[u].available_balance \in Nat
      /\ holding[u][s].reserved_quantity \in Nat
      /\ holding[u][s].quantity \in Nat
      /\ holding[u][s].reserved_quantity <= holding[u][s].quantity
  BY <1>1, AccountFacts
<1>3. /\ pf \in Portfolio
      /\ pf.available_balance = portfolio[u].available_balance + o.reserved_amount
      /\ pf.reserved_balance = portfolio[u].reserved_balance - o.reserved_amount
  BY <1>1, <1>2, ReleaseFundsFacts
<1>4. /\ h \in Holding
      /\ h.quantity = holding[u][s].quantity
      /\ h.reserved_quantity = holding[u][s].reserved_quantity - LockedShares(o)
  <2>1. o.quantity \in Nat
    BY <1>1, ConstantFacts
  <2>2. /\ h \in Holding
        /\ h.quantity = holding[u][s].quantity
        /\ h.reserved_quantity = holding[u][s].reserved_quantity
                                  - (IF o.trade_type = "SELL" THEN o.quantity ELSE 0)
    BY <1>2, <2>1, ReleaseSharesFacts
  <2> QED
    BY <1>1, <2>2
<1>5. SetAccount(u, s, pf, h) /\ orders' = [orders EXCEPT ![i] = n]
  BY <1>1 DEF ReleaseAs
<1>6. WellFormed(o)
  BY DEF LedgerInv, OrdersWellFormed
<1>7. /\ n \in Order /\ WellFormed(n) /\ n.status # "PENDING"
      /\ n.user_id = u /\ n.symbol = s
  BY <1>1, <1>6, StatusChange
<1>8. TypeOK
  BY DEF LedgerInv
<1> HIDE DEF pf, h, n
<1>9. /\ orders' \in Seq(Order)
      /\ Len(orders') = Len(orders)
      /\ Ids' = Ids
      /\ orders'[i] = n
      /\ \A j \in Ids \ {i} : orders'[j] = orders[j]
  BY <1>5, <1>7, <1>8, ReplaceOrder
<1>10. /\ \A v : Total(CashLocked(v))' = Total(CashLocked(v))
                     - (IF orders[i].user_id = v THEN LockedCash(orders[i]) ELSE 0)
       /\ \A v, r : Total(SharesLocked(v, r))' = Total(SharesLocked(v, r))
                     - (IF orders[i].user_id = v /\ orders[i].symbol = r
                        THEN LockedShares(orders[i]) ELSE 0)
  BY <1>7, <1>8, <1>9, SettleLocks
<1> HIDE DEF o, u, s
<1>11. LockedCash(o) \in Nat /\ LockedShares(o) \in Nat
  BY <1>1, LockedType
<1>12. /\ \A v : Total(CashLocked(v)) \in Nat
       /\ \A v, r : Total(SharesLocked(v, r)) \in Nat
  BY <1>8, IdsFacts, LockedFunctions, TotalType
<1>13. /\ \A v : Total(CashLocked(v))' = Total(CashLocked(v))
                     + (IF u = v THEN -LockedCash(o) ELSE 0)
       /\ \A v, r : Total(SharesLocked(v, r))' = Total(SharesLocked(v, r))
                     + (IF u = v /\ s = r THEN -LockedShares(o) ELSE 0)
  BY <1>11, <1>12, <1>10 DEF o, u, s
<1>14. /\ -LockedCash(o) \in Int /\ -LockedShares(o) \in Int
       /\ pf.available_balance >= 0
       /\ h.reserved_quantity <= h.quantity
       /\ pf.reserved_balance = portfolio[u].reserved_balance + (-LockedCash(o))
       /\ h.reserved_quantity = holding[u][s].reserved_quantity + (-LockedShares(o))
  BY <1>1, <1>2, <1>3, <1>4, <1>11 DEF Portfolio, Holding, Money
<1>15. /\ portfolio' \in [Users -> Portfolio]
       /\ holding' \in [Users -> [Symbols -> Holding]]
       /\ ReservedCashBacked' /\ ReservedSharesBacked' /\ Solvent'
  BY <1>1, <1>3, <1>4, <1>5, <1>13, <1>14, AccountStep
<1>16. OrdersWellFormed'
  BY <1>7, <1>9 DEF LedgerInv, OrdersWellFormed
<1> QED
  BY <1>8, <1>9, <1>15, <1>16 DEF TablesOK, TypeOK

\* A new order beside an account whose locked amounts grow by what it locks.
LEMMA PlaceStep ==
  ASSUME LedgerInv, NEW o \in Order, WellFormed(o),
         Len(orders) < MaxOrders, orders' = Append(orders, o),
         NEW pf \in Portfolio, NEW h \in Holding,
         SetAccount(o.user_id, o.symbol, pf, h),
         pf.available_balance >= 0,
         pf.reserved_balance = portfolio[o.user_id].reserved_balance + LockedCash(o),
         h.reserved_quantity <= h.quantity,
         h.reserved_quantity
           = holding[o.user_id][o.symbol].reserved_quantity + LockedShares(o)
  PROVE  TablesOK'
<1>1. TypeOK
  BY DEF LedgerInv
<1>2. /\ orders' \in Seq(Order)
      /\ Len(orders') = Len(orders) + 1
      /\ Ids' = Ids \cup {Len(orders) + 1}
      /\ \A i \in Ids : orders'[i] = orders[i]
      /\ orders'[Len(orders) + 1] = o
      /\ \A u : Total(CashLocked(u))' = Total(CashLocked(u))
                  + (IF o.user_id = u THEN LockedCash(o) ELSE 0)
      /\ \A u, s : Total(SharesLocked(u, s))' = Total(SharesLocked(u, s))
                  + (IF o.user_id = u /\ o.symbol = s THEN LockedShares(o) ELSE 0)
  BY <1>1, AppendLocks
<1>3. LockedCash(o) \in Int /\ LockedShares(o) \in Int
  BY LockedType
<1>4. o.user_id \in Users /\ o.symbol \in Symbols
  BY DEF Order
<1>5. /\ portfolio' \in [Users -> Portfolio]
      /\ holding' \in [Users -> [Symbols -> Holding]]
      /\ ReservedCashBacked' /\ ReservedSharesBacked' /\ Solvent'
  BY <1>2, <1>3, <1>4, AccountStep
<1>6. OrdersWellFormed'
  BY <1>2 DEF LedgerInv, OrdersWellFormed
<1>7. Len(orders') <= MaxOrders
  BY <1>1, <1>2, IdsFacts, BoundsAssumption
<1> QED
  BY <1>2, <1>5, <1>6, <1>7 DEF TablesOK

\* The two kinds of order a request creates.
LEMMA NewOrderFacts ==
  ASSUME TypeOK, NEW u \in Users, NEW s \in Symbols, NEW t \in TradeTypes,
         NEW q \in Quantities, NEW l \in Prices, NEW p \in Prices
  PROVE  LET m == MarketOrder(u, s, t, q, p)
             o == LimitOrder(u, s, t, q, l)
         IN /\ m \in Order /\ WellFormed(m) /\ m.user_id = u /\ m.symbol = s
            /\ LockedCash(m) = 0 /\ LockedShares(m) = 0
            /\ o \in Order /\ WellFormed(o) /\ o.user_id = u /\ o.symbol = s
            /\ o.trade_type = t /\ o.quantity = q /\ o.limit_price = l
            /\ o.reserved_amount \in Nat
            /\ o.reserved_amount = IF t = "BUY" THEN l * q ELSE 0
            /\ LockedCash(o) = o.reserved_amount
            /\ LockedShares(o) = IF t = "SELL" THEN q ELSE 0
<1> DEFINE m == MarketOrder(u, s, t, q, p)
           o == LimitOrder(u, s, t, q, l)
           a == ReservedAmount(t, q, l)
<1>1. a \in Nat /\ a = IF t = "BUY" THEN l * q ELSE 0
  BY ConstantFacts, ProductNat DEF ReservedAmount
<1>2. day \in Nat /\ 0 \in Nat
  BY DEF TypeOK
<1>3. m \in Order
  BY <1>2 DEF MarketOrder, Order, OrderTypes, Statuses
<1>4. o \in Order
  <2> HIDE DEF a
  <2>1. o = [user_id |-> u, symbol |-> s, quantity |-> q, trade_type |-> t,
             order_type |-> "LIMIT", limit_price |-> l, reserved_amount |-> a,
             status |-> "PENDING", executed_price |-> 0, created_day |-> day]
    BY DEF LimitOrder, a
  <2> QED
    BY <1>1, <1>2, <2>1 DEF Order, OrderTypes, Statuses
<1>5. /\ WellFormed(m) /\ m.user_id = u /\ m.symbol = s
      /\ LockedCash(m) = 0 /\ LockedShares(m) = 0
  BY DEF MarketOrder, WellFormed, LockedCash, LockedShares
<1>6. /\ o.user_id = u /\ o.symbol = s /\ o.trade_type = t /\ o.quantity = q
      /\ o.limit_price = l /\ o.reserved_amount = a /\ o.order_type = "LIMIT"
      /\ o.status = "PENDING"
  BY DEF LimitOrder
<1>7. /\ WellFormed(o)
      /\ LockedCash(o) = o.reserved_amount
      /\ LockedShares(o) = IF t = "SELL" THEN q ELSE 0
  <2> HIDE DEF o
  <2> QED
    BY <1>6 DEF WellFormed, LockedCash, LockedShares
<1> QED
  BY <1>1, <1>3, <1>4, <1>5, <1>6, <1>7

\* A MARKET order locks nothing and leaves its account solvent.
LEMMA PlaceMarketStep ==
  ASSUME LedgerInv, NEW u \in Users, NEW s \in Symbols, NEW t \in TradeTypes,
         NEW q \in Quantities, NEW p \in Prices, PlaceMarket(u, s, t, q, p)
  PROVE  TablesOK'
<1> DEFINE o == MarketOrder(u, s, t, q, p)
           pf == FillPortfolio(portfolio[u], holding[u][s], t, q, p)
           h == FillHolding(holding[u][s], t, q, p)
<1>1. /\ portfolio[u] \in Portfolio /\ holding[u][s] \in Holding
      /\ portfolio[u].available_balance >= 0
      /\ portfolio[u].reserved_balance \in Nat
      /\ holding[u][s].reserved_quantity \in Nat
      /\ holding[u][s].quantity \in Nat
      /\ holding[u][s].reserved_quantity <= holding[u][s].quantity
  BY AccountFacts
<1>2. /\ CanFill(portfolio[u], holding[u][s], t, q, p)
      /\ SetAccount(u, s, pf, h)
      /\ orders' = Append(orders, o) /\ Len(orders) < MaxOrders
  BY DEF PlaceMarket, ApplyFill
<1>3. /\ pf \in Portfolio /\ h \in Holding
      /\ pf.available_balance >= 0
      /\ pf.reserved_balance = portfolio[u].reserved_balance
      /\ h.reserved_quantity = holding[u][s].reserved_quantity
      /\ h.reserved_quantity <= h.quantity
  BY <1>1, <1>2, FillKeepsSolvent
<1>4. /\ o \in Order /\ WellFormed(o) /\ o.user_id = u /\ o.symbol = s
      /\ LockedCash(o) = 0 /\ LockedShares(o) = 0
  BY NewOrderFacts DEF LedgerInv
<1> HIDE DEF o, pf, h
<1>5. /\ SetAccount(o.user_id, o.symbol, pf, h)
      /\ pf.reserved_balance = portfolio[o.user_id].reserved_balance + LockedCash(o)
      /\ h.reserved_quantity
           = holding[o.user_id][o.symbol].reserved_quantity + LockedShares(o)
  BY <1>1, <1>2, <1>3, <1>4
<1> QED
  BY <1>2, <1>3, <1>4, <1>5, PlaceStep

\* Releasing a reservation that was just made gives the rows back as they were.
LEMMA ReserveRelease ==
  ASSUME NEW pf \in Portfolio, NEW h \in Holding, NEW o, o.quantity \in Nat,
         o.reserved_amount \in Nat, o.trade_type \in TradeTypes,
         o.trade_type # "BUY" => o.reserved_amount = 0
  PROVE  LET r == ReleaseFunds(ReserveFunds(pf, o.reserved_amount), o)
             k == ReleaseShares(ReserveShares(h, o.trade_type, o.quantity), o)
         IN /\ r \in Portfolio /\ k \in Holding
            /\ r.available_balance = pf.available_balance
            /\ r.reserved_balance = pf.reserved_balance
            /\ r.invested_amount = pf.invested_amount
            /\ r.realized_pnl = pf.realized_pnl
            /\ k.quantity = h.quantity
            /\ k.reserved_quantity = h.reserved_quantity
<1> DEFINE x == ReserveFunds(pf, o.reserved_amount)
           y == ReserveShares(h, o.trade_type, o.quantity)
           r == ReleaseFunds(x, o)
           k == ReleaseShares(y, o)
<1>1. /\ x \in Portfolio
      /\ x.available_balance = pf.available_balance - o.reserved_amount
      /\ x.reserved_balance = pf.reserved_balance + o.reserved_amount
      /\ x.invested_amount = pf.invested_amount
      /\ x.realized_pnl = pf.realized_pnl
  BY ReserveFundsFacts
<1>2. /\ y \in Holding
      /\ y.quantity = h.quantity
      /\ y.reserved_quantity = h.reserved_quantity
                               + (IF o.trade_type = "SELL" THEN o.quantity ELSE 0)
  BY ReserveSharesFacts
<1> HIDE DEF x, y
<1>3. /\ r \in Portfolio
      /\ r.available_balance = x.available_balance + o.reserved_amount
      /\ r.reserved_balance = x.reserved_balance - o.reserved_amount
      /\ r.invested_amount = x.invested_amount
      /\ r.realized_pnl = x.realized_pnl
  BY <1>1, ReleaseFundsFacts
<1>4. /\ k \in Holding
      /\ k.quantity = y.quantity
      /\ k.reserved_quantity = y.reserved_quantity
                               - (IF o.trade_type = "SELL" THEN o.quantity ELSE 0)
  BY <1>2, ReleaseSharesFacts
<1>5. /\ pf.available_balance \in Int /\ pf.reserved_balance \in Int
      /\ h.reserved_quantity \in Int
  BY DEF Portfolio, Holding, Money
<1> HIDE DEF r, k
<1>6. /\ r.available_balance = pf.available_balance
      /\ r.reserved_balance = pf.reserved_balance
      /\ k.reserved_quantity = h.reserved_quantity
  BY <1>1, <1>2, <1>3, <1>4, <1>5
<1> QED
  BY <1>1, <1>2, <1>3, <1>4, <1>6 DEF r, k, x, y

\* A LIMIT order locks what it reserves, or is filled at once and locks nothing.
LEMMA PlaceLimitStep ==
  ASSUME LedgerInv, NEW u \in Users, NEW s \in Symbols, NEW t \in TradeTypes,
         NEW q \in Quantities, NEW l \in Prices, NEW p \in Prices,
         PlaceLimit(u, s, t, q, l, p)
  PROVE  TablesOK'
<1> DEFINE o == LimitOrder(u, s, t, q, l)
           a == portfolio[u]
           b == holding[u][s]
           pf == ReserveFunds(a, o.reserved_amount)
           h == ReserveShares(b, t, q)
<1>1. /\ a \in Portfolio /\ b \in Holding
      /\ a.available_balance \in Nat /\ a.reserved_balance \in Nat
      /\ b.reserved_quantity \in Nat /\ b.quantity \in Nat
      /\ b.reserved_quantity <= b.quantity
  BY AccountFacts
<1>2. /\ o \in Order /\ WellFormed(o) /\ o.user_id = u /\ o.symbol = s
      /\ o.trade_type = t /\ o.quantity = q
      /\ o.reserved_amount \in Nat
      /\ o.reserved_amount = IF t = "BUY" THEN l * q ELSE 0
      /\ LockedCash(o) = o.reserved_amount
      /\ LockedShares(o) = IF t = "SELL" THEN q ELSE 0
  BY NewOrderFacts DEF LedgerInv
<1>3. q \in Nat
  BY ConstantFacts
<1>4. Len(orders) < MaxOrders /\ CanReserve(a, b, t, q, l)
  BY DEF PlaceLimit
<1>5. CASE ~IsLimitFillable(t, l, p)
  <2>1. SetAccount(u, s, pf, h) /\ orders' = Append(orders, o)
    BY <1>5 DEF PlaceLimit
  <2>2. /\ pf \in Portfolio
        /\ pf.available_balance = a.available_balance - o.reserved_amount
        /\ pf.reserved_balance = a.reserved_balance + o.reserved_amount
    BY <1>1, <1>2, ReserveFundsFacts
  <2>3. /\ h \in Holding /\ h.quantity = b.quantity
        /\ h.reserved_quantity = b.reserved_quantity + (IF t = "SELL" THEN q ELSE 0)
    BY <1>1, <1>3, ReserveSharesFacts
  <2>4. /\ o.reserved_amount <= a.available_balance
        /\ b.reserved_quantity + (IF t = "SELL" THEN q ELSE 0) <= b.quantity
    <3>1. CASE t = "BUY"
      BY <1>1, <1>2, <1>4, <3>1 DEF CanReserve
    <3>2. CASE t = "SELL"
      BY <1>1, <1>2, <1>3, <1>4, <3>2 DEF CanReserve, AvailableQuantity
    <3> QED
      BY <3>1, <3>2 DEF TradeTypes
  <2> HIDE DEF o, pf, h, a, b
  <2>5. /\ SetAccount(o.user_id, o.symbol, pf, h)
        /\ pf.available_balance >= 0
        /\ pf.reserved_balance = portfolio[o.user_id].reserved_balance + LockedCash(o)
        /\ h.reserved_quantity <= h.quantity
        /\ h.reserved_quantity
             = holding[o.user_id][o.symbol].reserved_quantity + LockedShares(o)
    <3>1. SetAccount(o.user_id, o.symbol, pf, h)
      BY <1>2, <2>1
    <3>2. pf.available_balance >= 0 /\ h.reserved_quantity <= h.quantity
      BY <1>1, <1>2, <2>2, <2>3, <2>4
    <3>3. pf.reserved_balance = a.reserved_balance + LockedCash(o)
      BY <1>2, <2>2
    <3>4. h.reserved_quantity = b.reserved_quantity + LockedShares(o)
      BY <1>2, <2>3
    <3> QED
      BY <1>2, <3>1, <3>2, <3>3, <3>4 DEF a, b
  <2> QED
    BY <1>2, <1>4, <2>1, <2>2, <2>3, <2>5, PlaceStep
<1>6. CASE IsLimitFillable(t, l, p)
  <2> DEFINE r == ReleaseFunds(pf, o)
             k == ReleaseShares(h, o)
             n == [o EXCEPT !.status = "EXECUTED", !.executed_price = p]
             fp == FillPortfolio(r, k, t, q, p)
             fh == FillHolding(k, t, q, p)
  <2>1. /\ CanFill(r, k, t, q, p)
        /\ SetAccount(u, s, fp, fh)
        /\ orders' = Append(orders, n)
    BY <1>6 DEF PlaceLimit, ApplyFill
  <2>2. /\ r \in Portfolio /\ k \in Holding
        /\ r.available_balance = a.available_balance
        /\ r.reserved_balance = a.reserved_balance
        /\ k.quantity = b.quantity
        /\ k.reserved_quantity = b.reserved_quantity
    <3>1. /\ o.trade_type # "BUY" => o.reserved_amount = 0
          /\ o.trade_type \in TradeTypes
          /\ h = ReserveShares(b, o.trade_type, o.quantity)
      BY <1>2
    <3>2. o.quantity \in Nat /\ o.reserved_amount \in Nat
      BY <1>2, <1>3
    <3> HIDE DEF o
    <3> QED
      BY <1>1, <3>1, <3>2, ReserveRelease
  <2>3. /\ n \in Order /\ WellFormed(n) /\ n.user_id = u /\ n.symbol = s
        /\ n.status = "EXECUTED"
    <3> HIDE DEF o
    <3> QED
      BY <1>2, ExecutedChange
  <2> HIDE DEF o, pf, h, a, b, r, k, n
  <2>4. /\ fp \in Portfolio /\ fh \in Holding
        /\ fp.available_balance >= 0
        /\ fp.reserved_balance = a.reserved_balance
        /\ fh.reserved_quantity = b.reserved_quantity
        /\ fh.reserved_quantity <= fh.quantity
    <3>1. /\ r.available_balance >= 0 /\ k.quantity \in Nat
          /\ k.reserved_quantity <= k.quantity
      BY <1>1, <2>2
    <3> QED
      BY <2>1, <2>2, <3>1, FillKeepsSolvent
  <2> HIDE DEF fp, fh
  <2>5. LockedCash(n) = 0 /\ LockedShares(n) = 0
    BY <2>3 DEF LockedCash, LockedShares
  <2>6. /\ SetAccount(n.user_id, n.symbol, fp, fh)
        /\ fp.reserved_balance = portfolio[n.user_id].reserved_balance + LockedCash(n)
        /\ fh.reserved_quantity
             = holding[n.user_id][n.symbol].reserved_quantity + LockedShares(n)
    BY <1>1, <2>1, <2>3, <2>4, <2>5 DEF a, b
  <2> QED
    BY <1>4, <2>1, <2>3, <2>4, <2>6, PlaceStep
<1> QED
  BY <1>5, <1>6

\* A scheduler fill unlocks what the order locked before it spends it.
LEMMA ExecuteStep ==
  ASSUME LedgerInv, NEW i \in Ids, NEW p \in Prices, ExecutePending(i, p)
  PROVE  TablesOK'
<1> DEFINE o == orders[i]
           u == o.user_id
           s == o.symbol
           a == portfolio[u]
           b == holding[u][s]
           r == ReleaseFunds(a, o)
           k == ReleaseShares(b, o)
           n == [o EXCEPT !.status = "EXECUTED", !.executed_price = p]
           fp == FillPortfolio(r, k, o.trade_type, o.quantity, p)
           fh == FillHolding(k, o.trade_type, o.quantity, p)
<1>1. /\ o.status = "PENDING"
      /\ CanFill(r, k, o.trade_type, o.quantity, p)
      /\ SetAccount(u, s, fp, fh)
      /\ orders' = [orders EXCEPT ![i] = n]
  BY DEF ExecutePending, ApplyFill
<1>2. /\ o \in Order /\ u \in Users /\ s \in Symbols /\ o.trade_type \in TradeTypes
      /\ o.quantity \in Quantities /\ o.reserved_amount \in Nat
      /\ o.trade_type # "BUY" => o.reserved_amount = 0
      /\ LockedCash(o) = o.reserved_amount
      /\ LockedShares(o) = IF o.trade_type = "SELL" THEN o.quantity ELSE 0
  BY <1>1, PendingFacts
<1>3. /\ a \in Portfolio /\ b \in Holding
      /\ a.available_balance \in Nat /\ a.reserved_balance \in Nat
      /\ b.reserved_quantity \in Nat /\ b.quantity \in Nat
      /\ b.reserved_quantity <= b.quantity
  BY <1>2, AccountFacts
<1>4. o.quantity \in Nat
  BY <1>2, ConstantFacts
<1>5. /\ r \in Portfolio
      /\ r.available_balance = a.available_balance + o.reserved_amount
      /\ r.reserved_balance = a.reserved_balance - o.reserved_amount
  BY <1>2, <1>3, ReleaseFundsFacts
<1>6. /\ k \in Holding /\ k.quantity = b.quantity
      /\ k.reserved_quantity
           = b.reserved_quantity - (IF o.trade_type = "SELL" THEN o.quantity ELSE 0)
  BY <1>3, <1>4, ReleaseSharesFacts
<1>7. LockedShares(o) \in Nat
  BY <1>2, LockedType
<1>8. WellFormed(o) /\ TypeOK
  BY DEF LedgerInv, OrdersWellFormed
<1>9. /\ n \in Order /\ WellFormed(n) /\ n.user_id = u /\ n.symbol = s
      /\ n.status = "EXECUTED"
  <2> HIDE DEF o
  <2> QED
    BY <1>2, <1>8, ExecutedChange DEF u, s
<1>10. /\ orders' \in Seq(Order)
       /\ Len(orders') = Len(orders)
       /\ Ids' = Ids
       /\ orders'[i] = n
       /\ \A j \in Ids \ {i} : orders'[j] = orders[j]
  BY <1>1, <1>8, <1>9, ReplaceOrder
<1>11. /\ \A v : Total(CashLocked(v))' = Total(CashLocked(v))
                     - (IF orders[i].user_id = v THEN LockedCash(orders[i]) ELSE 0)
       /\ \A v, w : Total(SharesLocked(v, w))' = Total(SharesLocked(v, w))
                     - (IF orders[i].user_id = v /\ orders[i].symbol = w
                        THEN LockedShares(orders[i]) ELSE 0)
  BY <1>8, <1>9, <1>10, SettleLocks
<1>12. /\ \A v : Total(CashLocked(v)) \in Nat
       /\ \A v, w : Total(SharesLocked(v, w)) \in Nat
  BY <1>8, IdsFacts, LockedFunctions, TotalType
<1> HIDE DEF o, u, s, a, b, r, k, n
<1>13. /\ fp \in Portfolio /\ fh \in Holding
       /\ fp.available_balance >= 0
       /\ fp.reserved_balance = r.reserved_balance
       /\ fh.reserved_quantity = k.reserved_quantity
       /\ fh.reserved_quantity <= fh.quantity
  <2>1. /\ r.available_balance >= 0 /\ k.quantity \in Nat
        /\ k.reserved_quantity <= k.quantity
    BY <1>2, <1>3, <1>4, <1>5, <1>6
  <2> QED
    BY <1>1, <1>2, <1>5, <1>6, <2>1, FillKeepsSolvent
<1> HIDE DEF fp, fh
<1>14. /\ \A v : Total(CashLocked(v))' = Total(CashLocked(v))
                     + (IF u = v THEN -LockedCash(o) ELSE 0)
       /\ \A v, w : Total(SharesLocked(v, w))' = Total(SharesLocked(v, w))
                     + (IF u = v /\ s = w THEN -LockedShares(o) ELSE 0)
  BY <1>2, <1>7, <1>11, <1>12 DEF o, u, s
<1>15. /\ -LockedCash(o) \in Int /\ -LockedShares(o) \in Int
       /\ fp.reserved_balance = a.reserved_balance + (-LockedCash(o))
       /\ fh.reserved_quantity = b.reserved_quantity + (-LockedShares(o))
  BY <1>2, <1>3, <1>4, <1>5, <1>6, <1>7, <1>13
<1>16. /\ portfolio' \in [Users -> Portfolio]
       /\ holding' \in [Users -> [Symbols -> Holding]]
       /\ ReservedCashBacked' /\ ReservedSharesBacked' /\ Solvent'
  BY <1>1, <1>2, <1>13, <1>14, <1>15, AccountStep DEF a, b
<1>17. OrdersWellFormed'
  BY <1>9, <1>10 DEF LedgerInv, OrdersWellFormed
<1> QED
  BY <1>8, <1>10, <1>16, <1>17 DEF TablesOK, TypeOK

\* A user without PENDING orders has nothing locked, so a fresh portfolio and
\* empty holdings agree with the orders table.
LEMMA ResetStep ==
  ASSUME LedgerInv, NEW u \in Users, ResetPortfolio(u)
  PROVE  TablesOK' /\ resetAt' \in [Users -> Nat]
<1>1. /\ TypeOK /\ IsFiniteSet(Ids) /\ Len(orders) \in Nat
      /\ portfolio \in [Users -> Portfolio]
      /\ holding \in [Users -> [Symbols -> Holding]]
      /\ resetAt \in [Users -> Nat]
  BY IdsFacts DEF LedgerInv, TypeOK
<1>2. /\ FreshPortfolio(InitialBalance) \in Portfolio
      /\ EmptyHolding \in Holding
  BY BalanceAssumption DEF FreshPortfolio, EmptyHolding, Portfolio, Holding, Money
<1>3. /\ portfolio' \in [Users -> Portfolio]
      /\ \A v \in Users : portfolio'[v] = IF v = u THEN FreshPortfolio(InitialBalance)
                                         ELSE portfolio[v]
  BY <1>1, <1>2 DEF ResetPortfolio
<1>4. /\ holding' \in [Users -> [Symbols -> Holding]]
      /\ \A v \in Users, s \in Symbols :
           holding'[v][s] = IF v = u THEN EmptyHolding ELSE holding[v][s]
  BY <1>1, <1>2 DEF ResetPortfolio
<1>5. orders' = orders /\ resetAt' \in [Users -> Nat]
  BY <1>1 DEF ResetPortfolio
<1>6. \A i \in Ids : orders[i].user_id = u => orders[i].status # "PENDING"
  BY DEF ResetPortfolio, PendingOf
<1>7. Total(CashLocked(u)) = 0
  <2>1. \A i \in DOMAIN CashLocked(u) : CashLocked(u)[i] = 0
    BY <1>6 DEF CashLocked, LockedCash
  <2> QED
    BY <2>1, TotalZero
<1>8. ASSUME NEW s \in Symbols PROVE Total(SharesLocked(u, s)) = 0
  <2>1. \A i \in DOMAIN SharesLocked(u, s) : SharesLocked(u, s)[i] = 0
    BY <1>6 DEF SharesLocked, LockedShares
  <2> QED
    BY <2>1, TotalZero
<1>9. /\ FreshPortfolio(InitialBalance).reserved_balance = 0
      /\ FreshPortfolio(InitialBalance).available_balance >= 0
      /\ EmptyHolding.reserved_quantity = 0
      /\ EmptyHolding.quantity = 0
  BY BalanceAssumption DEF FreshPortfolio, EmptyHolding
<1>10. ASSUME NEW v, NEW s
       PROVE  /\ Total(CashLocked(v))' = Total(CashLocked(v))
              /\ Total(SharesLocked(v, s))' = Total(SharesLocked(v, s))
  BY <1>5 DEF CashLocked, SharesLocked, LockedCash, LockedShares, Ids
<1>11. ReservedCashBacked'
  BY <1>3, <1>7, <1>9, <1>10 DEF LedgerInv, ReservedCashBacked
<1>12. ReservedSharesBacked'
  BY <1>4, <1>8, <1>9, <1>10 DEF LedgerInv, ReservedSharesBacked
<1>13. Solvent'
  <2> HIDE DEF FreshPortfolio, EmptyHolding
  <2>1. ASSUME NEW v \in Users
        PROVE  portfolio'[v].available_balance >= 0
    BY <1>3, <1>9 DEF LedgerInv, Solvent
  <2>2. ASSUME NEW v \in Users, NEW s \in Symbols
        PROVE  holding'[v][s].reserved_quantity <= holding'[v][s].quantity
    <3>1. 0 <= 0
      OBVIOUS
    <3> QED
      BY <1>4, <1>9, <3>1 DEF LedgerInv, Solvent
  <2> QED
    BY <2>1, <2>2 DEF Solvent
<1>14. OrdersWellFormed'
  BY <1>5 DEF LedgerInv, OrdersWellFormed, WellFormed, Ids
<1> QED
  BY <1>1, <1>3, <1>4, <1>5, <1>11, <1>12, <1>13, <1>14 DEF TablesOK, TypeOK

-----------------------------------------------------------------------------
(* The invariant. *)

\* No orders, nothing locked.
LEMMA InitInv == Init => LedgerInv
<1> SUFFICES ASSUME Init PROVE LedgerInv
  OBVIOUS
<1>1. Ids = {}
  BY DEF Init, Ids
<1>2. ASSUME NEW u, NEW s
      PROVE  Total(CashLocked(u)) = 0 /\ Total(SharesLocked(u, s)) = 0
  <2>1. DOMAIN CashLocked(u) = {} /\ DOMAIN SharesLocked(u, s) = {}
    BY <1>1 DEF CashLocked, SharesLocked
  <2> QED
    BY <2>1, TotalZero
<1>3. /\ FreshPortfolio(InitialBalance) \in Portfolio
      /\ EmptyHolding \in Holding
      /\ FreshPortfolio(InitialBalance).reserved_balance = 0
      /\ FreshPortfolio(InitialBalance).available_balance >= 0
      /\ EmptyHolding.reserved_quantity = 0
      /\ EmptyHolding.quantity = 0
  BY BalanceAssumption DEF FreshPortfolio, EmptyHolding, Portfolio, Holding, Money
<1>4. TypeOK
  <2>1. orders \in Seq(Order) /\ Len(orders) <= MaxOrders
    BY BoundsAssumption, EmptySeq DEF Init
  <2> QED
    BY <1>3, <2>1 DEF Init, TypeOK
<1>5. ReservedCashBacked /\ ReservedSharesBacked
  BY <1>2, <1>3 DEF Init, ReservedCashBacked, ReservedSharesBacked
<1>6. Solvent
  BY <1>3 DEF Init, Solvent
<1>7. OrdersWellFormed
  BY <1>1 DEF OrdersWellFormed
<1> QED
  BY <1>4, <1>5, <1>6, <1>7 DEF LedgerInv

\* Steps that leave the tables alone.
LEMMA TablesUnchanged ==
  ASSUME LedgerInv, UNCHANGED <<portfolio, holding, orders>>
  PROVE  TablesOK'
<1>1. \A v, s : /\ Total(CashLocked(v))' = Total(CashLocked(v))
                /\ Total(SharesLocked(v, s))' = Total(SharesLocked(v, s))
  BY DEF CashLocked, SharesLocked, LockedCash, LockedShares, Ids
<1>2. ReservedCashBacked' /\ ReservedSharesBacked'
  BY <1>1 DEF LedgerInv, ReservedCashBacked, ReservedSharesBacked
<1>3. Solvent' /\ OrdersWellFormed'
  BY DEF LedgerInv, Solvent, OrdersWellFormed, WellFormed, Ids
<1> QED
  BY <1>2, <1>3 DEF TablesOK, LedgerInv, TypeOK

\* Every step keeps the invariant: one case per action of Next.
LEMMA LedgerStep == LedgerInv /\ [Next]_vars => LedgerInv'
<1> SUFFICES ASSUME LedgerInv, [Next]_vars PROVE LedgerInv'
  OBVIOUS
<1> USE DEF TypeOK, LedgerInv, TablesOK
<1>1. ASSUME NEW u \in Users, NEW s \in Symbols, NEW t \in TradeTypes,
             NEW q \in Quantities, NEW p \in Prices, PlaceMarket(u, s, t, q, p)
      PROVE  LedgerInv'
  <2>1. TablesOK'
    BY <1>1, PlaceMarketStep
  <2> QED
    BY <1>1, <2>1 DEF PlaceMarket
<1>2. ASSUME NEW u \in Users, NEW s \in Symbols, NEW t \in TradeTypes,
             NEW q \in Quantities, NEW l \in Prices, NEW p \in Prices,
             PlaceLimit(u, s, t, q, l, p)
      PROVE  LedgerInv'
  <2>1. TablesOK'
    BY <1>2, PlaceLimitStep
  <2> QED
    BY <1>2, <2>1 DEF PlaceLimit
<1>3. ASSUME NEW i \in Ids, CancelOrder(i) PROVE LedgerInv'
  <2>1. TablesOK'
    BY <1>3, ReleaseStep DEF CancelOrder, Statuses
  <2> QED
    BY <1>3, <2>1 DEF CancelOrder
<1>4. ASSUME NEW i \in Ids, ExpireOrder(i) PROVE LedgerInv'
  <2>1. TablesOK'
    BY <1>4, ReleaseStep DEF ExpireOrder, Statuses
  <2> QED
    BY <1>4, <2>1 DEF ExpireOrder
<1>5. ASSUME NEW i \in Ids, NEW p \in Prices, RejectOrder(i, p) PROVE LedgerInv'
  <2>1. TablesOK'
    BY <1>5, ReleaseStep DEF RejectOrder, Statuses
  <2> QED
    BY <1>5, <2>1 DEF RejectOrder
<1>6. ASSUME NEW i \in Ids, NEW p \in Prices, ExecutePending(i, p) PROVE LedgerInv'
  <2>1. TablesOK'
    BY <1>6, ExecuteStep
  <2> QED
    BY <1>6, <2>1 DEF ExecutePending
<1>7. ASSUME NEW u \in Users, ResetPortfolio(u) PROVE LedgerInv'
  <2>1. TablesOK' /\ resetAt' \in [Users -> Nat]
    BY <1>7, ResetStep
  <2> QED
    BY <1>7, <2>1 DEF ResetPortfolio
<1>8. ASSUME NEW u \in Users, Upgrade(u) PROVE LedgerInv'
  <2>1. TablesOK'
    BY <1>8, TablesUnchanged DEF Upgrade
  <2> QED
    BY <1>8, <2>1 DEF Upgrade
<1>9. CASE CloseMarket
  <2>1. TablesOK'
    BY <1>9, TablesUnchanged DEF CloseMarket
  <2> QED
    BY <1>9, <2>1 DEF CloseMarket
<1>10. CASE OpenNextDay
  <2>1. TablesOK'
    BY <1>10, TablesUnchanged DEF OpenNextDay
  <2> QED
    BY <1>10, <2>1 DEF OpenNextDay
<1>11. CASE UNCHANGED vars
  <2>1. TablesOK'
    BY <1>11, TablesUnchanged DEF vars
  <2> QED
    BY <1>11, <2>1 DEF vars
<1> QED
  BY <1>1, <1>2, <1>3, <1>4, <1>5, <1>6, <1>7, <1>8, <1>9, <1>10, <1>11 DEF Next

\* Every reachable state satisfies the inductive invariant.
THEOREM LedgerInvariant == Spec => []LedgerInv
BY InitInv, LedgerStep, PTL DEF Spec

\* The tables always hold values of their columns' types.
THEOREM TypeCorrect == Spec => []TypeOK
<1>1. LedgerInv => TypeOK
  BY DEF LedgerInv
<1> QED
  BY <1>1, LedgerInvariant, PTL

\* Reserved cash is exactly what PENDING BUY orders lock: place, cancel, reject,
\* expire, execute and reset reserve and release the same amounts.
THEOREM ReservationsBacked == Spec => []ReservedCashBacked
<1>1. LedgerInv => ReservedCashBacked
  BY DEF LedgerInv
<1> QED
  BY <1>1, LedgerInvariant, PTL

\* Reserved shares are exactly what PENDING SELL orders lock.
THEOREM SharesBacked == Spec => []ReservedSharesBacked
<1>1. LedgerInv => ReservedSharesBacked
  BY DEF LedgerInv
<1> QED
  BY <1>1, LedgerInvariant, PTL

\* No account is ever overdrawn or oversold by the three placement paths and
\* the scheduler, for any number of users, symbols and orders.
THEOREM AccountsSolvent == Spec => []Solvent
<1>1. LedgerInv => Solvent
  BY DEF LedgerInv
<1> QED
  BY <1>1, LedgerInvariant, PTL

-----------------------------------------------------------------------------
(* The scheduler is never refused. *)

\* Cash locked at the limit pays for a fill at or below it, and shares locked
\* by a SELL are held.
LEMMA PendingCanFill ==
  ASSUME LedgerInv, NEW i \in Ids, NEW p \in Prices,
         orders[i].status = "PENDING",
         IsLimitFillable(orders[i].trade_type, orders[i].limit_price, p)
  PROVE  CanFill(ReleaseFunds(portfolio[orders[i].user_id], orders[i]),
                 ReleaseShares(holding[orders[i].user_id][orders[i].symbol], orders[i]),
                 orders[i].trade_type, orders[i].quantity, p)
<1> DEFINE o == orders[i]
           a == portfolio[o.user_id]
           b == holding[o.user_id][o.symbol]
           r == ReleaseFunds(a, o)
           k == ReleaseShares(b, o)
<1>1. /\ o.user_id \in Users /\ o.symbol \in Symbols /\ o.trade_type \in TradeTypes
      /\ o.quantity \in Quantities /\ o.reserved_amount \in Nat
      /\ o.limit_price \in Prices
      /\ o.reserved_amount = IF o.trade_type = "BUY" THEN o.limit_price * o.quantity ELSE 0
  BY PendingFacts
<1>2. o.quantity \in Nat /\ o.limit_price \in Nat /\ p \in Nat
  BY <1>1, ConstantFacts
<1>3. /\ a \in Portfolio /\ b \in Holding
      /\ a.available_balance \in Nat
      /\ b.quantity \in Nat /\ b.reserved_quantity \in Nat
      /\ b.reserved_quantity <= b.quantity
  BY <1>1, AccountFacts
<1>4. r.available_balance = a.available_balance + o.reserved_amount
  BY <1>1, <1>3, ReleaseFundsFacts
<1>5. /\ k.quantity = b.quantity
      /\ k.reserved_quantity
           = b.reserved_quantity - (IF o.trade_type = "SELL" THEN o.quantity ELSE 0)
  BY <1>2, <1>3, ReleaseSharesFacts
<1>6. CASE o.trade_type = "BUY"
  <2>1. p <= o.limit_price
    BY <1>6 DEF IsLimitFillable
  <2>2. p * o.quantity <= o.limit_price * o.quantity
    BY <1>2, <2>1, ProductMonotonic
  <2>3. p * o.quantity \in Nat /\ o.limit_price * o.quantity \in Nat
    BY <1>2, ProductNat
  <2> HIDE DEF o, a, b, r, k
  <2>4. r.available_balance >= p * o.quantity
    BY <1>1, <1>3, <1>4, <1>6, <2>2, <2>3
  <2> QED
    BY <1>6, <2>4 DEF CanFill, r, k, a, b, o
<1>7. CASE o.trade_type # "BUY"
  <2>1. o.trade_type = "SELL"
    BY <1>1, <1>7 DEF TradeTypes
  <2> HIDE DEF o, a, b, r, k
  <2>2. k.quantity - k.reserved_quantity >= o.quantity
    BY <1>2, <1>3, <1>5, <2>1
  <2> QED
    BY <1>7, <2>2 DEF CanFill, AvailableQuantity, r, k, a, b, o
<1> QED
  BY <1>6, <1>7

\* The fill in execute_pending_orders_job never raises Insufficient balance or
\* Not enough shares: the rejection branch for it is dead in serial runs.
THEOREM FillsNeverRefused == Spec => []FillNeverRefused
<1>1. LedgerInv => FillNeverRefused
  BY PendingCanFill DEF FillNeverRefused
<1> QED
  BY <1>1, LedgerInvariant, PTL

-----------------------------------------------------------------------------
(* A settled order stays as it is. *)

\* Every operation appends an order, changes one that is PENDING, or leaves
\* the table alone.
LEMMA OrdersStep ==
  ASSUME LedgerInv, Next
  PROVE  \/ \E o \in Order : orders' = Append(orders, o)
         \/ \E k \in Ids, o \in Order : /\ orders[k].status = "PENDING"
                                        /\ orders' = [orders EXCEPT ![k] = o]
         \/ orders' = orders
<1>1. TypeOK
  BY DEF LedgerInv
<1>2. ASSUME NEW u \in Users, NEW s \in Symbols, NEW t \in TradeTypes,
             NEW q \in Quantities, NEW p \in Prices, PlaceMarket(u, s, t, q, p)
      PROVE  \E o \in Order : orders' = Append(orders, o)
  <2>1. MarketOrder(u, s, t, q, p) \in Order
    BY <1>1, NewOrderFacts
  <2> QED
    BY <1>2, <2>1 DEF PlaceMarket
<1>3. ASSUME NEW u \in Users, NEW s \in Symbols, NEW t \in TradeTypes,
             NEW q \in Quantities, NEW l \in Prices, NEW p \in Prices,
             PlaceLimit(u, s, t, q, l, p)
      PROVE  \E o \in Order : orders' = Append(orders, o)
  <2> DEFINE o == LimitOrder(u, s, t, q, l)
             n == [o EXCEPT !.status = "EXECUTED", !.executed_price = p]
  <2>1. o \in Order /\ WellFormed(o)
    BY <1>1, NewOrderFacts
  <2>2. n \in Order
    <3> HIDE DEF o
    <3> QED BY <2>1, ExecutedChange
  <2>3. orders' = Append(orders, n) \/ orders' = Append(orders, o)
    BY <1>3 DEF PlaceLimit
  <2> HIDE DEF o, n
  <2> QED
    BY <2>1, <2>2, <2>3
<1>4. ASSUME NEW i \in Ids, NEW st \in Statuses \ {"PENDING"},
             orders[i].status = "PENDING", ReleaseAs(i, st)
      PROVE  \E k \in Ids, o \in Order : /\ orders[k].status = "PENDING"
                                         /\ orders' = [orders EXCEPT ![k] = o]
  <2> DEFINE n == [orders[i] EXCEPT !.status = st]
  <2>1. orders[i] \in Order /\ WellFormed(orders[i])
    BY <1>1, IdsFacts DEF LedgerInv, OrdersWellFormed
  <2>2. n \in Order
    BY <2>1, StatusChange
  <2>3. orders' = [orders EXCEPT ![i] = n]
    BY <1>4 DEF ReleaseAs
  <2> HIDE DEF n
  <2> QED
    BY <1>4, <2>2, <2>3
<1>5. ASSUME NEW i \in Ids, NEW p \in Prices, ExecutePending(i, p)
      PROVE  \E k \in Ids, o \in Order : /\ orders[k].status = "PENDING"
                                         /\ orders' = [orders EXCEPT ![k] = o]
  <2> DEFINE n == [orders[i] EXCEPT !.status = "EXECUTED", !.executed_price = p]
  <2>1. orders[i] \in Order /\ WellFormed(orders[i])
    BY <1>1, IdsFacts DEF LedgerInv, OrdersWellFormed
  <2>2. n \in Order
    BY <2>1, ExecutedChange
  <2>3. orders[i].status = "PENDING" /\ orders' = [orders EXCEPT ![i] = n]
    BY <1>5 DEF ExecutePending
  <2> HIDE DEF n
  <2> QED
    BY <2>2, <2>3
<1>6. ASSUME NEW i \in Ids,
             CancelOrder(i) \/ ExpireOrder(i) \/ \E p \in Prices : RejectOrder(i, p)
      PROVE  \E k \in Ids, o \in Order : /\ orders[k].status = "PENDING"
                                         /\ orders' = [orders EXCEPT ![k] = o]
  <2>1. /\ orders[i].status = "PENDING"
        /\ \E st \in Statuses \ {"PENDING"} : ReleaseAs(i, st)
    <3>1. {"CANCELLED", "EXPIRED", "REJECTED"} \subseteq Statuses \ {"PENDING"}
      BY DEF Statuses
    <3> QED
      BY <1>6, <3>1 DEF CancelOrder, ExpireOrder, RejectOrder
  <2> QED
    BY <1>4, <2>1
<1>7. ASSUME \/ \E u \in Users : ResetPortfolio(u) \/ Upgrade(u)
             \/ CloseMarket \/ OpenNextDay
      PROVE  orders' = orders
  BY <1>7 DEF ResetPortfolio, Upgrade, CloseMarket, OpenNextDay
<1> QED
  BY <1>2, <1>3, <1>5, <1>6, <1>7 DEF Next

\* An order that is EXECUTED, CANCELLED, EXPIRED or REJECTED keeps every field
\* forever: no handler and no job acts on it again.
THEOREM SettledOrdersFinal == Spec => TerminalStatusFinal
<1>1. ASSUME LedgerInv, [Next]_vars, NEW i \in Ids, orders[i].status # "PENDING"
      PROVE  orders'[i] = orders[i]
  <2>1. TypeOK
    BY <1>1 DEF LedgerInv
  <2>2. CASE \E o \in Order : orders' = Append(orders, o)
    BY <1>1, <2>1, <2>2, AppendLocks
  <2>3. CASE \E k \in Ids, o \in Order : /\ orders[k].status = "PENDING"
                                         /\ orders' = [orders EXCEPT ![k] = o]
    <3>1. PICK k \in Ids, o \in Order : /\ orders[k].status = "PENDING"
                                        /\ orders' = [orders EXCEPT ![k] = o]
      BY <2>3
    <3>2. \A j \in Ids \ {k} : orders'[j] = orders[j]
      BY <2>1, <3>1, ReplaceOrder
    <3> QED
      BY <1>1, <3>1, <3>2
  <2>4. CASE orders' = orders
    BY <2>4
  <2>5. Next \/ orders' = orders
    BY <1>1 DEF vars
  <2> QED
    BY <1>1, <2>2, <2>3, <2>4, <2>5, OrdersStep
<1>2. LedgerInv /\ [Next]_vars =>
        [\A i \in Ids : orders[i].status # "PENDING" => orders'[i] = orders[i]]_vars
  BY <1>1
<1> QED
  BY <1>2, LedgerInvariant, PTL DEF Spec, TerminalStatusFinal

-----------------------------------------------------------------------------
(* The books balance. *)

\* Cash free and locked and the cost of what is held, less realized profit.
Worth(pf) == pf.available_balance + pf.reserved_balance
               + pf.invested_amount - pf.realized_pnl

\* The identity in terms of Worth.
LEMMA WorthIdentity ==
  ASSUME NEW pf \in Portfolio
  PROVE  Worth(pf) = InitialBalance
           <=> pf.available_balance + pf.reserved_balance + pf.invested_amount
                 = InitialBalance + pf.realized_pnl
<1> DEFINE a == pf.available_balance
           b == pf.reserved_balance
           c == pf.invested_amount
           d == pf.realized_pnl
<1>1. a \in Int /\ b \in Int /\ c \in Int /\ d \in Int /\ InitialBalance \in Int
  BY BalanceAssumption DEF Portfolio, Money
<1>2. Worth(pf) = a + b + c - d
  BY DEF Worth
<1> HIDE DEF a, b, c, d
<1>3. a + b + c - d = InitialBalance <=> a + b + c = InitialBalance + d
  BY <1>1
<1> QED
  BY <1>2, <1>3 DEF a, b, c, d

\* A row of the same worth keeps the identity.
LEMMA SameWorth ==
  ASSUME LedgerInv, AccountingIdentity, NEW u \in Users, NEW s,
         NEW pf \in Portfolio, NEW h, SetAccount(u, s, pf, h),
         Worth(pf) = Worth(portfolio[u])
  PROVE  AccountingIdentity'
<1>1. portfolio \in [Users -> Portfolio]
  BY DEF LedgerInv, TypeOK
<1>2. \A v \in Users : portfolio'[v] = IF v = u THEN pf ELSE portfolio[v]
  BY <1>1 DEF SetAccount
<1>3. \A v \in Users : Worth(portfolio[v]) = InitialBalance
  BY <1>1, WorthIdentity DEF AccountingIdentity
<1>4. \A v \in Users : portfolio'[v] \in Portfolio /\ Worth(portfolio'[v]) = InitialBalance
  BY <1>1, <1>2, <1>3
<1> QED
  BY <1>4, WorthIdentity DEF AccountingIdentity

\* Reserving moves cash inside the row.
LEMMA ReserveWorth ==
  ASSUME NEW pf \in Portfolio, NEW amount \in Nat
  PROVE  Worth(ReserveFunds(pf, amount)) = Worth(pf)
<1> DEFINE r == ReserveFunds(pf, amount)
<1>1. /\ r.available_balance = pf.available_balance - amount
      /\ r.reserved_balance = pf.reserved_balance + amount
      /\ r.invested_amount = pf.invested_amount
      /\ r.realized_pnl = pf.realized_pnl
  BY ReserveFundsFacts
<1>2. /\ pf.available_balance \in Int /\ pf.reserved_balance \in Int
      /\ pf.invested_amount \in Int /\ pf.realized_pnl \in Int
  BY DEF Portfolio, Money
<1> HIDE DEF r
<1>3. Worth(r) = Worth(pf)
  BY <1>1, <1>2 DEF Worth
<1> QED
  BY <1>3 DEF r

\* Releasing what an order locked moves cash inside the row.
LEMMA ReleaseWorth ==
  ASSUME NEW pf \in Portfolio, NEW o, o.reserved_amount \in Nat,
         o.trade_type # "BUY" => o.reserved_amount = 0
  PROVE  ReleaseFunds(pf, o) \in Portfolio /\ Worth(ReleaseFunds(pf, o)) = Worth(pf)
<1> DEFINE r == ReleaseFunds(pf, o)
<1>1. /\ r \in Portfolio
      /\ r.available_balance = pf.available_balance + o.reserved_amount
      /\ r.reserved_balance = pf.reserved_balance - o.reserved_amount
      /\ r.invested_amount = pf.invested_amount
      /\ r.realized_pnl = pf.realized_pnl
  BY ReleaseFundsFacts
<1>2. /\ pf.available_balance \in Int /\ pf.reserved_balance \in Int
      /\ pf.invested_amount \in Int /\ pf.realized_pnl \in Int
  BY DEF Portfolio, Money
<1> HIDE DEF r
<1>3. Worth(r) = Worth(pf)
  BY <1>1, <1>2 DEF Worth
<1> QED
  BY <1>1, <1>3 DEF r

\* A fill trades cash for cost, and profit for cash, whatever the average is.
LEMMA FillWorth ==
  ASSUME NEW pf \in Portfolio, NEW h \in Holding, NEW t \in TradeTypes,
         NEW q \in Nat, NEW p \in Nat
  PROVE  /\ FillPortfolio(pf, h, t, q, p) \in Portfolio
         /\ Worth(FillPortfolio(pf, h, t, q, p)) = Worth(pf)
<1> DEFINE r == FillPortfolio(pf, h, t, q, p)
<1>1. /\ r \in Portfolio
      /\ r.reserved_balance = pf.reserved_balance
      /\ r.available_balance + r.invested_amount - r.realized_pnl
           = pf.available_balance + pf.invested_amount - pf.realized_pnl
  BY FillPortfolioFacts
<1>2. /\ pf.available_balance \in Int /\ pf.reserved_balance \in Int
      /\ pf.invested_amount \in Int /\ pf.realized_pnl \in Int
  BY DEF Portfolio, Money
<1>3. /\ r.available_balance \in Int /\ r.reserved_balance \in Int
      /\ r.invested_amount \in Int /\ r.realized_pnl \in Int
  BY <1>1 DEF Portfolio, Money
<1> HIDE DEF r
<1>4. Worth(r) = Worth(pf)
  BY <1>1, <1>2, <1>3 DEF Worth
<1> QED
  BY <1>1, <1>4 DEF r

\* Cancel, reject and expire keep the identity.
LEMMA ReleaseIdentity ==
  ASSUME LedgerInv, AccountingIdentity, NEW i \in Ids,
         orders[i].status = "PENDING", NEW st, ReleaseAs(i, st)
  PROVE  AccountingIdentity'
<1> DEFINE o == orders[i]
           u == o.user_id
           s == o.symbol
<1>1. /\ u \in Users /\ s \in Symbols /\ o.order_type = "LIMIT"
      /\ o.reserved_amount \in Nat
      /\ o.trade_type # "BUY" => o.reserved_amount = 0
  BY PendingFacts
<1>2. portfolio[u] \in Portfolio
  BY <1>1, AccountFacts
<1>3. /\ ReleaseFunds(portfolio[u], o) \in Portfolio
      /\ Worth(ReleaseFunds(portfolio[u], o)) = Worth(portfolio[u])
  BY <1>1, <1>2, ReleaseWorth
<1>4. SetAccount(u, s, ReleaseFunds(portfolio[u], o), ReleaseShares(holding[u][s], o))
  BY <1>1 DEF ReleaseAs
<1> QED
  BY <1>1, <1>3, <1>4, SameWorth

\* A scheduler fill keeps the identity.
LEMMA ExecuteIdentity ==
  ASSUME LedgerInv, AccountingIdentity, NEW i \in Ids, NEW p \in Prices,
         ExecutePending(i, p)
  PROVE  AccountingIdentity'
<1> DEFINE o == orders[i]
           u == o.user_id
           s == o.symbol
           r == ReleaseFunds(portfolio[u], o)
           k == ReleaseShares(holding[u][s], o)
<1>1. /\ o.status = "PENDING"
      /\ SetAccount(u, s, FillPortfolio(r, k, o.trade_type, o.quantity, p),
                          FillHolding(k, o.trade_type, o.quantity, p))
  BY DEF ExecutePending, ApplyFill
<1>2. /\ u \in Users /\ s \in Symbols /\ o.trade_type \in TradeTypes
      /\ o.quantity \in Quantities /\ o.reserved_amount \in Nat
      /\ o.trade_type # "BUY" => o.reserved_amount = 0
  BY <1>1, PendingFacts
<1>3. /\ portfolio[u] \in Portfolio /\ holding[u][s] \in Holding
      /\ o.quantity \in Nat /\ p \in Nat
  BY <1>2, AccountFacts, ConstantFacts
<1>4. r \in Portfolio /\ Worth(r) = Worth(portfolio[u])
  BY <1>2, <1>3, ReleaseWorth
<1>5. k \in Holding
  BY <1>3, ReleaseSharesFacts
<1> HIDE DEF o, r, k
<1>6. /\ FillPortfolio(r, k, o.trade_type, o.quantity, p) \in Portfolio
      /\ Worth(FillPortfolio(r, k, o.trade_type, o.quantity, p)) = Worth(portfolio[u])
  BY <1>2, <1>3, <1>4, <1>5, FillWorth
<1> QED
  BY <1>1, <1>2, <1>6, SameWorth

\* A MARKET order keeps the identity.
LEMMA PlaceMarketIdentity ==
  ASSUME LedgerInv, AccountingIdentity, NEW u \in Users, NEW s \in Symbols,
         NEW t \in TradeTypes, NEW q \in Quantities, NEW p \in Prices,
         PlaceMarket(u, s, t, q, p)
  PROVE  AccountingIdentity'
<1> DEFINE pf == FillPortfolio(portfolio[u], holding[u][s], t, q, p)
           h == FillHolding(holding[u][s], t, q, p)
<1>1. portfolio[u] \in Portfolio /\ holding[u][s] \in Holding /\ q \in Nat /\ p \in Nat
  BY AccountFacts, ConstantFacts
<1>2. pf \in Portfolio /\ Worth(pf) = Worth(portfolio[u])
  BY <1>1, FillWorth
<1>3. SetAccount(u, s, pf, h)
  BY DEF PlaceMarket, ApplyFill
<1> HIDE DEF pf, h
<1> QED
  BY <1>2, <1>3, SameWorth

\* A LIMIT order keeps the identity, reserved or filled at once.
LEMMA PlaceLimitIdentity ==
  ASSUME LedgerInv, AccountingIdentity, NEW u \in Users, NEW s \in Symbols,
         NEW t \in TradeTypes, NEW q \in Quantities, NEW l \in Prices,
         NEW p \in Prices, PlaceLimit(u, s, t, q, l, p)
  PROVE  AccountingIdentity'
<1> DEFINE o == LimitOrder(u, s, t, q, l)
           pf == ReserveFunds(portfolio[u], o.reserved_amount)
           h == ReserveShares(holding[u][s], t, q)
           r == ReleaseFunds(pf, o)
           k == ReleaseShares(h, o)
           fp == FillPortfolio(r, k, t, q, p)
           fh == FillHolding(k, t, q, p)
<1>1. portfolio[u] \in Portfolio /\ holding[u][s] \in Holding /\ q \in Nat /\ p \in Nat
  BY AccountFacts, ConstantFacts
<1>2. /\ o.reserved_amount \in Nat /\ o.trade_type = t /\ o.quantity = q
      /\ o.reserved_amount = IF t = "BUY" THEN l * q ELSE 0
  BY NewOrderFacts DEF LedgerInv
<1>3. SetAccount(u, s, pf, h) \/ SetAccount(u, s, fp, fh)
  BY DEF PlaceLimit, ApplyFill
<1> HIDE DEF o
<1>4. pf \in Portfolio /\ Worth(pf) = Worth(portfolio[u])
  BY <1>1, <1>2, ReserveFundsFacts, ReserveWorth
<1>5. h \in Holding
  BY <1>1, ReserveSharesFacts
<1> HIDE DEF pf, h
<1>6. r \in Portfolio /\ Worth(r) = Worth(portfolio[u])
  <2>1. o.trade_type # "BUY" => o.reserved_amount = 0
    BY <1>2
  <2> QED
    BY <1>2, <1>4, <2>1, ReleaseWorth
<1>7. k \in Holding
  BY <1>1, <1>2, <1>5, ReleaseSharesFacts
<1> HIDE DEF r, k
<1>8. fp \in Portfolio /\ Worth(fp) = Worth(portfolio[u])
  BY <1>1, <1>6, <1>7, FillWorth
<1> HIDE DEF fp, fh
<1> QED
  BY <1>3, <1>4, <1>8, SameWorth

\* A reset gives a row that is worth the initial balance.
LEMMA ResetIdentity ==
  ASSUME LedgerInv, AccountingIdentity, NEW u \in Users, ResetPortfolio(u)
  PROVE  AccountingIdentity'
<1> DEFINE f == FreshPortfolio(InitialBalance)
<1>1. /\ f.available_balance = InitialBalance /\ f.reserved_balance = 0
      /\ f.invested_amount = 0 /\ f.realized_pnl = 0
  BY DEF FreshPortfolio
<1>2. f.available_balance + f.reserved_balance + f.invested_amount
        = InitialBalance + f.realized_pnl
  BY <1>1, BalanceAssumption
<1> HIDE DEF f
<1>3. \A v \in Users : portfolio'[v] = IF v = u THEN f ELSE portfolio[v]
  BY DEF ResetPortfolio, LedgerInv, TypeOK, f
<1> QED
  BY <1>2, <1>3 DEF AccountingIdentity

\* Money is neither made nor lost: cash free and locked, plus the cost of the
\* holdings, is the initial balance plus realized profit in every state, even
\* where avg_price was rounded.
THEOREM BooksBalance == Spec => []AccountingIdentity
<1>1. Init => AccountingIdentity
  <2>1. ASSUME Init, NEW u \in Users
        PROVE  portfolio[u] = FreshPortfolio(InitialBalance)
    BY <2>1 DEF Init
  <2>2. LET f == FreshPortfolio(InitialBalance)
        IN f.available_balance + f.reserved_balance + f.invested_amount
             = InitialBalance + f.realized_pnl
    BY BalanceAssumption DEF FreshPortfolio
  <2> QED
    BY <2>1, <2>2 DEF AccountingIdentity
<1>2. LedgerInv /\ AccountingIdentity /\ [Next]_vars => AccountingIdentity'
  <2> SUFFICES ASSUME LedgerInv, AccountingIdentity, [Next]_vars
               PROVE  AccountingIdentity'
    OBVIOUS
  <2>1. ASSUME NEW i \in Ids, \/ CancelOrder(i) \/ ExpireOrder(i)
                              \/ \E p \in Prices : RejectOrder(i, p)
        PROVE  AccountingIdentity'
    BY <2>1, ReleaseIdentity DEF CancelOrder, ExpireOrder, RejectOrder
  <2>2. ASSUME UNCHANGED portfolio PROVE AccountingIdentity'
    BY <2>2 DEF AccountingIdentity
  <2>3. CASE (\E u \in Users : Upgrade(u)) \/ CloseMarket \/ OpenNextDay \/ UNCHANGED vars
    BY <2>2, <2>3 DEF Upgrade, CloseMarket, OpenNextDay, vars
  <2> QED
    BY <2>1, <2>3, PlaceMarketIdentity, PlaceLimitIdentity, ExecuteIdentity,
       ResetIdentity DEF Next
<1> QED
  BY <1>1, <1>2, LedgerInvariant, PTL DEF Spec

-----------------------------------------------------------------------------
(* An account is what its history makes it.  The sums are stated over a    *)
(* table given as an argument, so that one lemma speaks of two states.     *)

Table(a) == IsFiniteSet(DOMAIN a) /\ \A i \in DOMAIN a : a[i] \in Order

Done(o, u, t) == o.user_id = u /\ o.trade_type = t /\ o.status = "EXECUTED"

CashOf(a, since, u, t) ==
  [i \in DOMAIN a |-> IF i > since /\ Done(a[i], u, t)
                      THEN a[i].executed_price * a[i].quantity ELSE 0]

SharesOf(a, since, u, s, t) ==
  [i \in DOMAIN a |-> IF i > since /\ Done(a[i], u, t) /\ a[i].symbol = s
                      THEN a[i].quantity ELSE 0]

CashNet(a, since, u) == Total(CashOf(a, since, u, "SELL")) - Total(CashOf(a, since, u, "BUY"))

SharesNet(a, since, u, s) ==
  Total(SharesOf(a, since, u, s, "BUY")) - Total(SharesOf(a, since, u, s, "SELL"))

\* What one order moves.
CashMoved(o, u) ==
  IF Done(o, u, "SELL") THEN o.executed_price * o.quantity
  ELSE IF Done(o, u, "BUY") THEN -(o.executed_price * o.quantity) ELSE 0

SharesMoved(o, u, s) ==
  IF o.symbol # s THEN 0
  ELSE IF Done(o, u, "BUY") THEN o.quantity
  ELSE IF Done(o, u, "SELL") THEN -o.quantity ELSE 0

Cash(pf) == pf.available_balance + pf.reserved_balance

\* The history in those terms; and a reset leaves no order pending, so what is
\* executed later came after it.
HistoryInv ==
  /\ \A u \in Users :
       /\ Cash(portfolio[u]) = InitialBalance + CashNet(orders, resetAt[u], u)
       /\ \A s \in Symbols :
            holding[u][s].quantity = SharesNet(orders, resetAt[u], u, s)
       /\ resetAt[u] <= Len(orders)
  /\ \A i \in Ids : orders[i].status = "PENDING" => i > resetAt[orders[i].user_id]

\* A sequence of orders is a table.
LEMMA SequenceIsTable ==
  ASSUME NEW a \in Seq(Order)
  PROVE  Table(a) /\ DOMAIN a = 1..Len(a) /\ Len(a) \in Nat
<1>1. DOMAIN a = 1..Len(a) /\ Len(a) \in Nat
  BY LenProperties
<1>2. \A i \in 1..Len(a) : a[i] \in Order
  BY ElementOfSeq
<1>3. IsFiniteSet(1..Len(a))
  BY <1>1, FS_Interval
<1> QED
  BY <1>1, <1>2, <1>3 DEF Table

\* g has one entry more than f, or a value in place of a zero.
OneEntry(D, E, k, f, g) ==
  /\ IsFiniteSet(D) /\ E = D \cup {k}
  /\ f \in [D -> Nat] /\ g \in [E -> Nat]
  /\ \A i \in D \ {k} : g[i] = f[i]
  /\ k \in D => f[k] = 0

\* Such an entry adds its value to the total.
LEMMA EntryAdds ==
  ASSUME NEW D, NEW E, NEW k, NEW f, NEW g, OneEntry(D, E, k, f, g)
  PROVE  Total(g) = Total(f) + g[k]
<1> USE DEF OneEntry
<1>1. Total(f) \in Nat
  BY TotalType
<1>2. g[k] \in Nat
  OBVIOUS
<1>3. CASE k \in D
  <2>1. E = D
    BY <1>3
  <2>2. g \in [D -> Nat]
    BY <2>1
  <2>3. Total(g) = Total(f) - f[k] + g[k]
    BY <1>3, <2>2, TotalUpdate
  <2> QED
    BY <1>1, <1>2, <1>3, <2>3
<1>4. CASE k \notin D
  <2>1. \A i \in D : g[i] = f[i]
    BY <1>4
  <2>2. Total(g) = Total(f) + g[k]
    BY <1>4, <2>1, TotalExtend
  <2> QED
    BY <1>1, <2>2
<1> QED
  BY <1>3, <1>4

\* The sums are over functions to the naturals.
LEMMA HistoryTypes ==
  ASSUME NEW a, Table(a), NEW since, NEW u, NEW s, NEW t
  PROVE  /\ CashOf(a, since, u, t) \in [DOMAIN a -> Nat]
         /\ SharesOf(a, since, u, s, t) \in [DOMAIN a -> Nat]
         /\ Total(CashOf(a, since, u, t)) \in Nat
         /\ Total(SharesOf(a, since, u, s, t)) \in Nat
<1>1. ASSUME NEW i \in DOMAIN a
      PROVE  a[i].executed_price * a[i].quantity \in Nat /\ a[i].quantity \in Nat
  <2>1. a[i].executed_price \in Nat /\ a[i].quantity \in Nat
    BY ConstantFacts DEF Table, Order
  <2> QED
    BY <2>1, ProductNat
<1>2. /\ CashOf(a, since, u, t) \in [DOMAIN a -> Nat]
      /\ SharesOf(a, since, u, s, t) \in [DOMAIN a -> Nat]
  BY <1>1 DEF CashOf, SharesOf
<1> QED
  BY <1>2, TotalType DEF Table

\* An order that is placed or leaves PENDING enters the sums if it is executed.
LEMMA HistoryEntry ==
  ASSUME NEW a, NEW b, Table(a), Table(b),
         NEW k, DOMAIN b = DOMAIN a \cup {k}, k \in DOMAIN a => a[k].status = "PENDING",
         \A j \in DOMAIN a \ {k} : b[j] = a[j],
         NEW since, NEW u, b[k].user_id = u => k > since, NEW s, NEW t
  PROVE  /\ Total(CashOf(b, since, u, t)) = Total(CashOf(a, since, u, t))
              + (IF Done(b[k], u, t) THEN b[k].executed_price * b[k].quantity ELSE 0)
         /\ Total(SharesOf(b, since, u, s, t)) = Total(SharesOf(a, since, u, s, t))
              + (IF Done(b[k], u, t) /\ b[k].symbol = s THEN b[k].quantity ELSE 0)
<1> DEFINE f == CashOf(a, since, u, t)
           g == CashOf(b, since, u, t)
           d == SharesOf(a, since, u, s, t)
           e == SharesOf(b, since, u, s, t)
<1>1. /\ f \in [DOMAIN a -> Nat] /\ g \in [DOMAIN b -> Nat]
      /\ d \in [DOMAIN a -> Nat] /\ e \in [DOMAIN b -> Nat]
  BY HistoryTypes
<1>2. /\ \A j \in DOMAIN a \ {k} : g[j] = f[j]
      /\ k \in DOMAIN a => f[k] = 0
  BY DEF CashOf, Done
<1>3. /\ \A j \in DOMAIN a \ {k} : e[j] = d[j]
      /\ k \in DOMAIN a => d[k] = 0
  BY DEF SharesOf, Done
<1>4. /\ g[k] = IF Done(b[k], u, t) THEN b[k].executed_price * b[k].quantity ELSE 0
      /\ e[k] = IF Done(b[k], u, t) /\ b[k].symbol = s THEN b[k].quantity ELSE 0
  BY DEF CashOf, SharesOf, Done
<1>5. IsFiniteSet(DOMAIN a)
  BY DEF Table
<1> HIDE DEF f, g, d, e
<1>6. OneEntry(DOMAIN a, DOMAIN b, k, f, g) /\ OneEntry(DOMAIN a, DOMAIN b, k, d, e)
  BY <1>1, <1>2, <1>3, <1>5 DEF OneEntry
<1>7. Total(g) = Total(f) + g[k] /\ Total(e) = Total(d) + e[k]
  BY <1>6, EntryAdds
<1> QED
  BY <1>4, <1>7 DEF f, g, d, e

\* The same of what remains of buys and sells.
LEMMA NetEntry ==
  ASSUME NEW a, NEW b, Table(a), Table(b),
         NEW k, DOMAIN b = DOMAIN a \cup {k}, k \in DOMAIN a => a[k].status = "PENDING",
         \A j \in DOMAIN a \ {k} : b[j] = a[j],
         NEW since, NEW u, b[k].user_id = u => k > since, NEW s
  PROVE  /\ CashNet(b, since, u) = CashNet(a, since, u) + CashMoved(b[k], u)
         /\ SharesNet(b, since, u, s) = SharesNet(a, since, u, s) + SharesMoved(b[k], u, s)
         /\ CashNet(a, since, u) \in Int /\ SharesNet(a, since, u, s) \in Int
         /\ CashMoved(b[k], u) \in Int /\ SharesMoved(b[k], u, s) \in Int
<1> DEFINE c == b[k].executed_price * b[k].quantity
           q == b[k].quantity
           buys == Done(b[k], u, "BUY")
           sells == Done(b[k], u, "SELL")
           here == b[k].symbol = s
           cb == Total(CashOf(a, since, u, "BUY"))
           cs == Total(CashOf(a, since, u, "SELL"))
           sb == Total(SharesOf(a, since, u, s, "BUY"))
           ss == Total(SharesOf(a, since, u, s, "SELL"))
<1>1. c \in Nat /\ q \in Nat
  <2>1. b[k].executed_price \in Nat /\ b[k].quantity \in Nat
    BY ConstantFacts DEF Table, Order
  <2> QED
    BY <2>1, ProductNat
<1>2. cb \in Nat /\ cs \in Nat /\ sb \in Nat /\ ss \in Nat
  BY HistoryTypes
<1>3. /\ Total(CashOf(b, since, u, "BUY")) = cb + (IF buys THEN c ELSE 0)
      /\ Total(SharesOf(b, since, u, s, "BUY")) = sb + (IF buys /\ here THEN q ELSE 0)
  BY HistoryEntry
<1>4. /\ Total(CashOf(b, since, u, "SELL")) = cs + (IF sells THEN c ELSE 0)
      /\ Total(SharesOf(b, since, u, s, "SELL")) = ss + (IF sells /\ here THEN q ELSE 0)
  BY HistoryEntry
<1>5. ~(buys /\ sells)
  BY DEF Done
<1>6. /\ CashMoved(b[k], u) = IF sells THEN c ELSE IF buys THEN -c ELSE 0
      /\ SharesMoved(b[k], u, s) = IF ~here THEN 0 ELSE IF buys THEN q
                                  ELSE IF sells THEN -q ELSE 0
  BY DEF CashMoved, SharesMoved
<1>7. /\ CashNet(a, since, u) = cs - cb /\ SharesNet(a, since, u, s) = sb - ss
      /\ CashNet(b, since, u)
           = (cs + (IF sells THEN c ELSE 0)) - (cb + (IF buys THEN c ELSE 0))
      /\ SharesNet(b, since, u, s)
           = (sb + (IF buys /\ here THEN q ELSE 0)) - (ss + (IF sells /\ here THEN q ELSE 0))
  BY <1>3, <1>4 DEF CashNet, SharesNet
<1> HIDE DEF c, q, buys, sells, here, cb, cs, sb, ss
<1> QED
  BY <1>1, <1>2, <1>5, <1>6, <1>7

\* A step of one order, whose account moves by what the order moves.
LEMMA HistoryStep ==
  ASSUME TypeOK, HistoryInv, UNCHANGED resetAt, orders' \in Seq(Order),
         NEW k, Ids' = Ids \cup {k}, Len(orders') >= Len(orders),
         k \in Ids => orders[k].status = "PENDING",
         \A j \in Ids \ {k} : orders'[j] = orders[j],
         NEW o, o = orders'[k], k > resetAt[o.user_id],
         NEW u \in Users, NEW s \in Symbols, u = o.user_id, s = o.symbol,
         NEW pf, NEW h, SetAccount(u, s, pf, h),
         Cash(pf) = Cash(portfolio[u]) + CashMoved(o, u),
         h.quantity = holding[u][s].quantity + SharesMoved(o, u, s)
  PROVE  HistoryInv'
<1>1. /\ \A v \in Users : portfolio'[v] = IF v = u THEN pf ELSE portfolio[v]
      /\ \A v \in Users, r \in Symbols :
           holding'[v][r] = IF v = u /\ r = s THEN h ELSE holding[v][r]
  BY DEF SetAccount, TypeOK
<1>2. /\ Table(orders) /\ Table(orders') /\ Len(orders) \in Nat /\ Len(orders') \in Nat
  BY SequenceIsTable DEF TypeOK
<1>3. DOMAIN orders = Ids /\ DOMAIN orders' = Ids'
  BY DEF Ids
<1>4. ASSUME NEW v \in Users, NEW r
      PROVE  /\ CashNet(orders', resetAt[v], v)
                  = CashNet(orders, resetAt[v], v) + CashMoved(o, v)
             /\ SharesNet(orders', resetAt[v], v, r)
                  = SharesNet(orders, resetAt[v], v, r) + SharesMoved(o, v, r)
             /\ CashNet(orders, resetAt[v], v) \in Int
             /\ SharesNet(orders, resetAt[v], v, r) \in Int
             /\ CashMoved(o, v) \in Int /\ SharesMoved(o, v, r) \in Int
  <2>1. PICK a, b, since : a = orders /\ b = orders' /\ since = resetAt[v]
    OBVIOUS
  <2>2. /\ Table(a) /\ Table(b) /\ DOMAIN b = DOMAIN a \cup {k} /\ b[k] = o
        /\ k \in DOMAIN a => a[k].status = "PENDING"
        /\ \A j \in DOMAIN a \ {k} : b[j] = a[j]
        /\ b[k].user_id = v => k > since
    BY <1>2, <1>3, <2>1
  <2>3. /\ CashNet(b, since, v) = CashNet(a, since, v) + CashMoved(b[k], v)
        /\ SharesNet(b, since, v, r) = SharesNet(a, since, v, r) + SharesMoved(b[k], v, r)
        /\ CashNet(a, since, v) \in Int /\ SharesNet(a, since, v, r) \in Int
        /\ CashMoved(b[k], v) \in Int /\ SharesMoved(b[k], v, r) \in Int
    BY <2>2, NetEntry
  <2> QED
    BY <2>1, <2>2, <2>3
<1>5. \A v \in Users, r \in Symbols :
        /\ v # u => CashMoved(o, v) = 0 /\ SharesMoved(o, v, r) = 0
        /\ r # s => SharesMoved(o, v, r) = 0
  BY DEF CashMoved, SharesMoved, Done
<1>6. ASSUME NEW v \in Users
      PROVE  Cash(portfolio'[v]) = InitialBalance + CashNet(orders', resetAt'[v], v)
  <2>1. Cash(portfolio[v]) = InitialBalance + CashNet(orders, resetAt[v], v)
    BY DEF HistoryInv
  <2>2. /\ CashNet(orders', resetAt[v], v) = CashNet(orders, resetAt[v], v) + CashMoved(o, v)
        /\ CashNet(orders, resetAt[v], v) \in Int /\ CashMoved(o, v) \in Int
    BY <1>4
  <2>3. Cash(portfolio'[v]) = Cash(portfolio[v]) + CashMoved(o, v)
    <3>1. CASE v = u
      BY <1>1, <3>1
    <3>2. CASE v # u
      <4>1. SharesMoved(o, v, s) \in Int /\ CashMoved(o, v) = 0 /\ portfolio'[v] = portfolio[v]
        BY <1>1, <1>4, <1>5, <3>2
      <4> QED
        BY <2>1, <2>2, <4>1, BalanceAssumption
    <3> QED
      BY <3>1, <3>2
  <2> QED
    BY <2>1, <2>2, <2>3, BalanceAssumption
<1>7. ASSUME NEW v \in Users, NEW r \in Symbols
      PROVE  holding'[v][r].quantity = SharesNet(orders', resetAt'[v], v, r)
  <2>1. holding[v][r].quantity = SharesNet(orders, resetAt[v], v, r)
    BY DEF HistoryInv
  <2>2. /\ SharesNet(orders', resetAt[v], v, r)
             = SharesNet(orders, resetAt[v], v, r) + SharesMoved(o, v, r)
        /\ SharesNet(orders, resetAt[v], v, r) \in Int /\ SharesMoved(o, v, r) \in Int
    BY <1>4
  <2>3. CASE v = u /\ r = s
    BY <1>1, <2>1, <2>2, <2>3
  <2>4. CASE ~(v = u /\ r = s)
    <3>1. SharesMoved(o, v, r) = 0 /\ holding'[v][r] = holding[v][r]
      BY <1>1, <1>5, <2>4
    <3> QED
      BY <2>1, <2>2, <3>1
  <2> QED
    BY <2>3, <2>4
<1>8. \A v \in Users : resetAt'[v] <= Len(orders')
  <2>1. \A v \in Users : resetAt[v] \in Nat /\ resetAt[v] <= Len(orders)
    BY DEF TypeOK, HistoryInv
  <2> QED
    BY <1>2, <2>1
<1>9. \A i \in Ids' : orders'[i].status = "PENDING" => i > resetAt'[orders'[i].user_id]
  BY DEF HistoryInv
<1> QED
  BY <1>6, <1>7, <1>8, <1>9 DEF HistoryInv

\* What an order moves on its own account.
LEMMA MovedFacts ==
  ASSUME NEW o, o.trade_type \in TradeTypes
  PROVE  /\ o.status # "EXECUTED" => /\ CashMoved(o, o.user_id) = 0
                                     /\ SharesMoved(o, o.user_id, o.symbol) = 0
         /\ o.status = "EXECUTED" =>
              /\ CashMoved(o, o.user_id) = IF o.trade_type = "BUY"
                                           THEN -(o.executed_price * o.quantity)
                                           ELSE o.executed_price * o.quantity
              /\ SharesMoved(o, o.user_id, o.symbol)
                   = IF o.trade_type = "BUY" THEN o.quantity ELSE -o.quantity
BY DEF CashMoved, SharesMoved, Done, TradeTypes

\* Reserving and releasing keep the cash of an account.
LEMMA ReserveCash ==
  ASSUME NEW pf \in Portfolio, NEW amount \in Nat
  PROVE  Cash(ReserveFunds(pf, amount)) = Cash(pf) /\ ReserveFunds(pf, amount) \in Portfolio
<1> DEFINE r == ReserveFunds(pf, amount)
<1>1. /\ r \in Portfolio
      /\ r.available_balance = pf.available_balance - amount
      /\ r.reserved_balance = pf.reserved_balance + amount
  BY ReserveFundsFacts
<1>2. pf.available_balance \in Int /\ pf.reserved_balance \in Int
  BY DEF Portfolio, Money
<1> HIDE DEF r
<1>3. Cash(r) = Cash(pf)
  BY <1>1, <1>2 DEF Cash
<1> QED
  BY <1>1, <1>3 DEF r

\* The same of a release.
LEMMA ReleaseCash ==
  ASSUME NEW pf \in Portfolio, NEW o, o.reserved_amount \in Nat,
         o.trade_type # "BUY" => o.reserved_amount = 0
  PROVE  Cash(ReleaseFunds(pf, o)) = Cash(pf) /\ ReleaseFunds(pf, o) \in Portfolio
<1> DEFINE r == ReleaseFunds(pf, o)
<1>1. /\ r \in Portfolio
      /\ r.available_balance = pf.available_balance + o.reserved_amount
      /\ r.reserved_balance = pf.reserved_balance - o.reserved_amount
  BY ReleaseFundsFacts
<1>2. pf.available_balance \in Int /\ pf.reserved_balance \in Int
  BY DEF Portfolio, Money
<1> HIDE DEF r
<1>3. Cash(r) = Cash(pf)
  BY <1>1, <1>2 DEF Cash
<1> QED
  BY <1>1, <1>3 DEF r

\* A fill moves the cash by its value, and the holding by its quantity.
LEMMA FillMoves ==
  ASSUME NEW pf \in Portfolio, NEW h \in Holding, NEW t \in TradeTypes,
         NEW q \in Quantities, NEW p \in Prices, h.quantity \in Nat
  PROVE  /\ Cash(FillPortfolio(pf, h, t, q, p))
              = Cash(pf) + (IF t = "BUY" THEN -(p * q) ELSE p * q)
         /\ FillHolding(h, t, q, p).quantity = h.quantity + (IF t = "BUY" THEN q ELSE -q)
<1>1. p \in Nat /\ q \in Nat \ {0} /\ p * q \in Nat
  BY ConstantFacts, ProductNat
<1> DEFINE r == FillPortfolio(pf, h, t, q, p)
           c == p * q
<1>2. /\ r.reserved_balance = pf.reserved_balance
      /\ r.available_balance = pf.available_balance + (IF t = "BUY" THEN -c ELSE c)
  BY <1>1, FillPortfolioFacts
<1>3. pf.available_balance \in Int /\ pf.reserved_balance \in Int /\ c \in Int
  BY <1>1 DEF Portfolio, Money
<1> HIDE DEF r, c
<1>4. Cash(r) = Cash(pf) + (IF t = "BUY" THEN -c ELSE c)
  BY <1>2, <1>3 DEF Cash
<1>5. FillHolding(h, t, q, p).quantity = h.quantity + (IF t = "BUY" THEN q ELSE -q)
  BY <1>1, FillHoldingFacts
<1> QED
  BY <1>4, <1>5 DEF r, c

\* Cancel, reject and expire leave cash and shares as they are.
LEMMA ReleaseHistory ==
  ASSUME LedgerInv, HistoryInv, NEW i \in Ids, orders[i].status = "PENDING",
         NEW st \in Statuses \ {"PENDING", "EXECUTED"}, ReleaseAs(i, st), UNCHANGED resetAt
  PROVE  HistoryInv'
<1> DEFINE o == orders[i]
           u == o.user_id
           s == o.symbol
           n == [o EXCEPT !.status = st]
           pf == ReleaseFunds(portfolio[u], o)
           h == ReleaseShares(holding[u][s], o)
<1>1. /\ o \in Order /\ WellFormed(o) /\ u \in Users /\ s \in Symbols
      /\ o.order_type = "LIMIT" /\ o.trade_type \in TradeTypes
      /\ o.quantity \in Nat /\ o.reserved_amount \in Nat
      /\ o.trade_type # "BUY" => o.reserved_amount = 0
  BY PendingFacts, ConstantFacts DEF LedgerInv, OrdersWellFormed
<1>2. /\ n \in Order /\ n.user_id = u /\ n.symbol = s /\ n.status = st
      /\ n.trade_type = o.trade_type
  BY <1>1 DEF Order
<1>3. orders' = [orders EXCEPT ![i] = n] /\ SetAccount(u, s, pf, h)
  BY <1>1 DEF ReleaseAs
<1>4. /\ portfolio[u] \in Portfolio /\ holding[u][s] \in Holding
      /\ portfolio[u].available_balance \in Int /\ portfolio[u].reserved_balance \in Int
      /\ holding[u][s].quantity \in Int
  BY <1>1, AccountFacts
<1>5. Cash(pf) = Cash(portfolio[u]) /\ h.quantity = holding[u][s].quantity
  BY <1>1, <1>4, ReleaseCash, ReleaseSharesFacts
<1>6. TypeOK /\ i > resetAt[u]
  BY DEF LedgerInv, HistoryInv
<1> HIDE DEF n, pf, h
<1>7. /\ orders' \in Seq(Order) /\ Ids' = Ids \cup {i} /\ orders'[i] = n
      /\ Len(orders') >= Len(orders)
      /\ \A j \in Ids \ {i} : orders'[j] = orders[j]
  <2>1. /\ orders' \in Seq(Order) /\ Len(orders') = Len(orders) /\ Ids' = Ids
        /\ orders'[i] = n /\ \A j \in Ids \ {i} : orders'[j] = orders[j]
    BY <1>2, <1>3, <1>6, ReplaceOrder
  <2>2. Len(orders) \in Nat
    BY <1>6, IdsFacts
  <2> QED
    BY <2>1, <2>2
<1>8. CashMoved(n, u) = 0 /\ SharesMoved(n, u, s) = 0
  BY <1>1, <1>2, MovedFacts
<1>9. /\ Cash(pf) = Cash(portfolio[u]) + CashMoved(n, u)
      /\ h.quantity = holding[u][s].quantity + SharesMoved(n, u, s)
  <2>1. Cash(portfolio[u]) \in Int
    BY <1>4 DEF Cash
  <2> QED
    BY <1>4, <1>5, <1>8, <2>1
<1>10. PICK m, v, r, pg, k : m = n /\ v = u /\ r = s /\ pg = pf /\ k = h
  OBVIOUS
<1>11. /\ m = orders'[i] /\ v = m.user_id /\ r = m.symbol /\ i > resetAt[m.user_id]
       /\ v \in Users /\ r \in Symbols /\ SetAccount(v, r, pg, k)
       /\ Cash(pg) = Cash(portfolio[v]) + CashMoved(m, v)
       /\ k.quantity = holding[v][r].quantity + SharesMoved(m, v, r)
  BY <1>1, <1>2, <1>3, <1>6, <1>7, <1>9, <1>10
<1> QED
  BY <1>6, <1>7, <1>11, HistoryStep

\* The scheduler's fill.
LEMMA ExecuteHistory ==
  ASSUME LedgerInv, HistoryInv, NEW i \in Ids, NEW p \in Prices, ExecutePending(i, p)
  PROVE  HistoryInv'
<1> DEFINE o == orders[i]
           u == o.user_id
           s == o.symbol
           n == [o EXCEPT !.status = "EXECUTED", !.executed_price = p]
           r == ReleaseFunds(portfolio[u], o)
           k == ReleaseShares(holding[u][s], o)
           pf == FillPortfolio(r, k, o.trade_type, o.quantity, p)
           h == FillHolding(k, o.trade_type, o.quantity, p)
<1>1. /\ o.status = "PENDING" /\ UNCHANGED resetAt
      /\ orders' = [orders EXCEPT ![i] = n] /\ SetAccount(u, s, pf, h)
  BY DEF ExecutePending, ApplyFill
<1>2. /\ o \in Order /\ WellFormed(o) /\ u \in Users /\ s \in Symbols
      /\ o.trade_type \in TradeTypes /\ o.quantity \in Quantities
      /\ o.quantity \in Nat /\ o.reserved_amount \in Nat
      /\ o.trade_type # "BUY" => o.reserved_amount = 0
  BY <1>1, PendingFacts, ConstantFacts DEF LedgerInv, OrdersWellFormed
<1>3. /\ n \in Order /\ n.user_id = u /\ n.symbol = s /\ n.status = "EXECUTED"
      /\ n.trade_type = o.trade_type /\ n.quantity = o.quantity /\ n.executed_price = p
  BY <1>2, ExecutedChange
<1>4. /\ portfolio[u] \in Portfolio /\ holding[u][s] \in Holding
      /\ holding[u][s].quantity \in Nat
  BY <1>2, AccountFacts
<1>5. /\ r \in Portfolio /\ Cash(r) = Cash(portfolio[u])
      /\ k \in Holding /\ k.quantity = holding[u][s].quantity
  BY <1>2, <1>4, ReleaseCash, ReleaseSharesFacts
<1> HIDE DEF n, r, k
<1>6. /\ Cash(pf) = Cash(r) + (IF o.trade_type = "BUY" THEN -(p * o.quantity) ELSE p * o.quantity)
      /\ h.quantity = k.quantity + (IF o.trade_type = "BUY" THEN o.quantity ELSE -o.quantity)
  BY <1>2, <1>4, <1>5, FillMoves
<1> HIDE DEF pf, h
<1>7. TypeOK /\ i > resetAt[u]
  BY <1>1 DEF LedgerInv, HistoryInv
<1>8. /\ orders' \in Seq(Order) /\ Ids' = Ids \cup {i} /\ orders'[i] = n
      /\ Len(orders') >= Len(orders)
      /\ \A j \in Ids \ {i} : orders'[j] = orders[j]
  <2>1. /\ orders' \in Seq(Order) /\ Len(orders') = Len(orders) /\ Ids' = Ids
        /\ orders'[i] = n /\ \A j \in Ids \ {i} : orders'[j] = orders[j]
    BY <1>1, <1>3, <1>7, ReplaceOrder
  <2>2. Len(orders) \in Nat
    BY <1>7, IdsFacts
  <2> QED
    BY <2>1, <2>2
<1>9. /\ CashMoved(n, u) = IF o.trade_type = "BUY" THEN -(p * o.quantity) ELSE p * o.quantity
      /\ SharesMoved(n, u, s) = IF o.trade_type = "BUY" THEN o.quantity ELSE -o.quantity
  BY <1>2, <1>3, MovedFacts
<1>10. PICK m, v, w, pg, l : m = n /\ v = u /\ w = s /\ pg = pf /\ l = h
  OBVIOUS
<1>11. /\ m = orders'[i] /\ v = m.user_id /\ w = m.symbol /\ i > resetAt[m.user_id]
       /\ v \in Users /\ w \in Symbols /\ SetAccount(v, w, pg, l)
       /\ Cash(pg) = Cash(portfolio[v]) + CashMoved(m, v)
       /\ l.quantity = holding[v][w].quantity + SharesMoved(m, v, w)
  BY <1>1, <1>2, <1>3, <1>5, <1>6, <1>7, <1>8, <1>9, <1>10
<1> QED
  BY <1>1, <1>7, <1>8, <1>11, HistoryStep

\* A new order, whose account moves by what it moves.
LEMMA PlaceHistory ==
  ASSUME LedgerInv, HistoryInv, UNCHANGED resetAt,
         NEW u \in Users, NEW s \in Symbols,
         NEW o \in Order, o.user_id = u, o.symbol = s, orders' = Append(orders, o),
         NEW pf, NEW h, SetAccount(u, s, pf, h),
         Cash(pf) = Cash(portfolio[u]) + CashMoved(o, u),
         h.quantity = holding[u][s].quantity + SharesMoved(o, u, s)
  PROVE  HistoryInv'
<1>1. TypeOK
  BY DEF LedgerInv
<1>2. PICK k : k = Len(orders) + 1
  OBVIOUS
<1>3. /\ Ids = 1 .. Len(orders) /\ Len(orders) \in Nat
      /\ Ids' = Ids \cup {k} /\ orders'[k] = o /\ orders' \in Seq(Order)
      /\ Len(orders') = Len(orders) + 1 /\ \A j \in Ids : orders'[j] = orders[j]
  BY <1>1, <1>2, AppendLocks, IdsFacts
<1>4. k \notin Ids /\ k > resetAt[u] /\ Len(orders') >= Len(orders)
  <2>1. resetAt[u] \in Nat /\ resetAt[u] <= Len(orders)
    BY <1>1 DEF TypeOK, HistoryInv
  <2> QED
    BY <1>2, <1>3, <2>1
<1>5. /\ o = orders'[k] /\ u = o.user_id /\ s = o.symbol /\ k > resetAt[o.user_id]
      /\ k \in Ids => orders[k].status = "PENDING"
      /\ \A j \in Ids \ {k} : orders'[j] = orders[j]
  BY <1>3, <1>4
<1> QED
  BY <1>1, <1>3, <1>4, <1>5, HistoryStep

\* A MARKET order.
LEMMA PlaceMarketHistory ==
  ASSUME LedgerInv, HistoryInv, NEW u \in Users, NEW s \in Symbols,
         NEW t \in TradeTypes, NEW q \in Quantities, NEW p \in Prices,
         PlaceMarket(u, s, t, q, p)
  PROVE  HistoryInv'
<1> DEFINE o  == MarketOrder(u, s, t, q, p)
           pf == FillPortfolio(portfolio[u], holding[u][s], t, q, p)
           h  == FillHolding(holding[u][s], t, q, p)
<1>1. /\ o \in Order /\ o.user_id = u /\ o.symbol = s /\ o.trade_type = t /\ o.quantity = q
      /\ o.status = "EXECUTED" /\ o.executed_price = p
  <2>1. o \in Order
    BY NewOrderFacts DEF LedgerInv
  <2> QED
    BY <2>1 DEF MarketOrder
<1>2. SetAccount(u, s, pf, h) /\ orders' = Append(orders, o) /\ UNCHANGED resetAt
  BY DEF PlaceMarket, ApplyFill
<1>3. /\ Cash(pf) = Cash(portfolio[u]) + (IF t = "BUY" THEN -(p * q) ELSE p * q)
      /\ h.quantity = holding[u][s].quantity + (IF t = "BUY" THEN q ELSE -q)
  BY AccountFacts, FillMoves
<1> HIDE DEF o, pf, h
<1>4. /\ CashMoved(o, u) = IF t = "BUY" THEN -(p * q) ELSE p * q
      /\ SharesMoved(o, u, s) = IF t = "BUY" THEN q ELSE -q
  BY <1>1, MovedFacts
<1>5. PICK m, pg, k : m = o /\ pg = pf /\ k = h
  OBVIOUS
<1>6. /\ m \in Order /\ m.user_id = u /\ m.symbol = s /\ orders' = Append(orders, m)
      /\ SetAccount(u, s, pg, k)
      /\ Cash(pg) = Cash(portfolio[u]) + CashMoved(m, u)
      /\ k.quantity = holding[u][s].quantity + SharesMoved(m, u, s)
  BY <1>1, <1>2, <1>3, <1>4, <1>5
<1> QED
  BY <1>2, <1>6, PlaceHistory

\* A LIMIT order, filled at once or left PENDING.
LEMMA PlaceLimitHistory ==
  ASSUME LedgerInv, HistoryInv, NEW u \in Users, NEW s \in Symbols,
         NEW t \in TradeTypes, NEW q \in Quantities, NEW l \in Prices, NEW p \in Prices,
         PlaceLimit(u, s, t, q, l, p)
  PROVE  HistoryInv'
<1> DEFINE o == LimitOrder(u, s, t, q, l)
           n == [o EXCEPT !.status = "EXECUTED", !.executed_price = p]
           pf == ReserveFunds(portfolio[u], o.reserved_amount)
           h == ReserveShares(holding[u][s], t, q)
           r == ReleaseFunds(pf, o)
           k == ReleaseShares(h, o)
           fp == FillPortfolio(r, k, t, q, p)
           fh == FillHolding(k, t, q, p)
<1>1. /\ o \in Order /\ WellFormed(o) /\ o.user_id = u /\ o.symbol = s /\ o.trade_type = t
      /\ o.quantity = q /\ o.reserved_amount \in Nat
      /\ o.reserved_amount = IF t = "BUY" THEN l * q ELSE 0
  <2> HIDE DEF n, pf, h, r, k, fp, fh
  <2> QED
    BY NewOrderFacts DEF LedgerInv
<1>2. o.status = "PENDING" /\ (o.trade_type # "BUY" => o.reserved_amount = 0)
  BY <1>1 DEF LimitOrder
<1>3. /\ UNCHANGED resetAt
      /\ \/ SetAccount(u, s, pf, h) /\ orders' = Append(orders, o)
         \/ SetAccount(u, s, fp, fh) /\ orders' = Append(orders, n)
  BY DEF PlaceLimit, ApplyFill
<1> HIDE DEF o
<1>4. /\ n \in Order /\ n.user_id = u /\ n.symbol = s /\ n.status = "EXECUTED"
      /\ n.trade_type = t /\ n.quantity = q /\ n.executed_price = p
  BY <1>1, ExecutedChange
<1> HIDE DEF n
<1>5. /\ portfolio[u] \in Portfolio /\ holding[u][s] \in Holding /\ q \in Nat
      /\ portfolio[u].available_balance \in Int /\ portfolio[u].reserved_balance \in Int
      /\ holding[u][s].quantity \in Nat
  BY AccountFacts, ConstantFacts
<1>6. /\ pf \in Portfolio /\ Cash(pf) = Cash(portfolio[u])
      /\ h \in Holding /\ h.quantity = holding[u][s].quantity
  <2> HIDE DEF r, k, fp, fh
  <2>1. pf \in Portfolio /\ Cash(pf) = Cash(portfolio[u])
    BY <1>1, <1>5, ReserveCash
  <2>2. h \in Holding /\ h.quantity = holding[u][s].quantity
    BY <1>5, ReserveSharesFacts
  <2> QED
    BY <2>1, <2>2
<1> HIDE DEF pf, h
<1>7. /\ r \in Portfolio /\ Cash(r) = Cash(portfolio[u])
      /\ k \in Holding /\ k.quantity = holding[u][s].quantity
  BY <1>1, <1>2, <1>5, <1>6, ReleaseCash, ReleaseSharesFacts
<1> HIDE DEF r, k
<1>8. /\ Cash(fp) = Cash(r) + (IF t = "BUY" THEN -(p * q) ELSE p * q)
      /\ fh.quantity = k.quantity + (IF t = "BUY" THEN q ELSE -q)
  BY <1>5, <1>7, FillMoves
<1> HIDE DEF fp, fh
<1>9. PICK m, pg, g :
        \/ m = o /\ pg = pf /\ g = h /\ SetAccount(u, s, pf, h) /\ orders' = Append(orders, o)
        \/ m = n /\ pg = fp /\ g = fh /\ SetAccount(u, s, fp, fh) /\ orders' = Append(orders, n)
  BY <1>3
<1>10. CASE m = o /\ pg = pf /\ g = h /\ SetAccount(u, s, pf, h) /\ orders' = Append(orders, o)
  <2>1. CashMoved(m, u) = 0 /\ SharesMoved(m, u, s) = 0
    BY <1>1, <1>2, <1>10, MovedFacts
  <2>2. Cash(portfolio[u]) \in Int
    BY <1>5 DEF Cash
  <2>3. /\ Cash(pg) = Cash(portfolio[u]) + CashMoved(m, u)
        /\ g.quantity = holding[u][s].quantity + SharesMoved(m, u, s)
    BY <1>5, <1>6, <1>10, <2>1, <2>2
  <2>4. /\ m \in Order /\ m.user_id = u /\ m.symbol = s /\ orders' = Append(orders, m)
        /\ SetAccount(u, s, pg, g)
    BY <1>1, <1>10
  <2> QED
    BY <1>3, <2>3, <2>4, PlaceHistory
<1>11. CASE m = n /\ pg = fp /\ g = fh /\ SetAccount(u, s, fp, fh) /\ orders' = Append(orders, n)
  <2>1. /\ CashMoved(m, u) = IF t = "BUY" THEN -(p * q) ELSE p * q
        /\ SharesMoved(m, u, s) = IF t = "BUY" THEN q ELSE -q
    BY <1>4, <1>11, MovedFacts
  <2>2. /\ Cash(pg) = Cash(portfolio[u]) + CashMoved(m, u)
        /\ g.quantity = holding[u][s].quantity + SharesMoved(m, u, s)
    BY <1>7, <1>8, <1>11, <2>1
  <2>3. /\ m \in Order /\ m.user_id = u /\ m.symbol = s /\ orders' = Append(orders, m)
        /\ SetAccount(u, s, pg, g)
    BY <1>4, <1>11
  <2> QED
    BY <1>3, <2>2, <2>3, PlaceHistory
<1> QED
  BY <1>9, <1>10, <1>11

\* Nothing counts in an empty history, or in one that begins after the table.
LEMMA NothingCounts ==
  ASSUME NEW a, NEW since, NEW u, \A i \in DOMAIN a : ~(i > since)
  PROVE  CashNet(a, since, u) = 0 /\ \A s : SharesNet(a, since, u, s) = 0
<1>1. ASSUME NEW s, NEW t
      PROVE  Total(CashOf(a, since, u, t)) = 0 /\ Total(SharesOf(a, since, u, s, t)) = 0
  <2> DEFINE f == CashOf(a, since, u, t)
             g == SharesOf(a, since, u, s, t)
  <2>1. (\A i \in DOMAIN f : f[i] = 0) /\ (\A i \in DOMAIN g : g[i] = 0)
    BY DEF CashOf, SharesOf
  <2> HIDE DEF f, g
  <2>2. Total(f) = 0 /\ Total(g) = 0
    BY <2>1, TotalZero
  <2> QED
    BY <2>2 DEF f, g
<1> QED
  BY <1>1 DEF CashNet, SharesNet

\* A reset begins a new history.
LEMMA ResetHistory ==
  ASSUME LedgerInv, HistoryInv, NEW u \in Users, ResetPortfolio(u)
  PROVE  HistoryInv'
<1>1. /\ PendingOf(u) = {} /\ UNCHANGED orders
      /\ \A v \in Users : resetAt'[v] = IF v = u THEN Len(orders) ELSE resetAt[v]
      /\ \A v \in Users : portfolio'[v] = IF v = u THEN FreshPortfolio(InitialBalance)
                                         ELSE portfolio[v]
      /\ \A v \in Users, s \in Symbols : holding'[v][s] = IF v = u THEN EmptyHolding
                                                       ELSE holding[v][s]
  BY DEF ResetPortfolio, LedgerInv, TypeOK
<1>2. TypeOK
  BY DEF LedgerInv
<1>3. Ids = 1 .. Len(orders) /\ Len(orders) \in Nat /\ Ids' = Ids /\ DOMAIN orders = Ids
  BY <1>1, <1>2, IdsFacts DEF Ids
<1>4. CashNet(orders, Len(orders), u) = 0 /\ \A s : SharesNet(orders, Len(orders), u, s) = 0
  <2>1. PICK a, since : a = orders /\ since = Len(orders)
    OBVIOUS
  <2>2. \A i \in DOMAIN a : ~(i > since)
    BY <1>3, <2>1
  <2>3. CashNet(a, since, u) = 0 /\ \A s : SharesNet(a, since, u, s) = 0
    BY <2>2, NothingCounts
  <2> QED
    BY <2>1, <2>3
<1>5. ASSUME NEW v \in Users
      PROVE  /\ Cash(portfolio'[v]) = InitialBalance + CashNet(orders', resetAt'[v], v)
             /\ \A s \in Symbols :
                  holding'[v][s].quantity = SharesNet(orders', resetAt'[v], v, s)
             /\ resetAt'[v] <= Len(orders')
  <2>1. CASE v = u
    BY <1>1, <1>3, <1>4, <2>1, BalanceAssumption DEF Cash, FreshPortfolio, EmptyHolding
  <2>2. CASE v # u
    BY <1>1, <2>2 DEF HistoryInv
  <2> QED
    BY <2>1, <2>2
<1>6. ASSUME NEW i \in Ids', orders'[i].status = "PENDING"
      PROVE  i > resetAt'[orders'[i].user_id]
  <2>1. i \in Ids /\ orders[i].status = "PENDING" /\ orders'[i] = orders[i]
    BY <1>1, <1>3, <1>6
  <2>2. orders[i].user_id \in Users /\ orders[i].user_id # u
    BY <1>1, <2>1, PendingFacts DEF PendingOf
  <2> QED
    BY <1>1, <2>1, <2>2 DEF HistoryInv
<1> QED
  BY <1>5, <1>6 DEF HistoryInv

\* Every step keeps the history true.
LEMMA HistoryKept == LedgerInv /\ HistoryInv /\ [Next]_vars => HistoryInv'
<1> SUFFICES ASSUME LedgerInv, HistoryInv, [Next]_vars PROVE HistoryInv'
  OBVIOUS
<1>1. ASSUME UNCHANGED <<portfolio, holding, orders, resetAt>> PROVE HistoryInv'
  BY <1>1 DEF HistoryInv, Ids
<1>2. CASE UNCHANGED vars
  BY <1>1, <1>2 DEF vars
<1>3. CASE (\E u \in Users : Upgrade(u)) \/ CloseMarket \/ OpenNextDay
  BY <1>1, <1>3 DEF Upgrade, CloseMarket, OpenNextDay
<1>4. ASSUME NEW i \in Ids, \/ CancelOrder(i) \/ ExpireOrder(i)
                            \/ \E p \in Prices : RejectOrder(i, p)
      PROVE  HistoryInv'
  <2>1. /\ orders[i].status = "PENDING" /\ UNCHANGED resetAt
        /\ \E st \in Statuses \ {"PENDING", "EXECUTED"} : ReleaseAs(i, st)
    <3>1. {"CANCELLED", "EXPIRED", "REJECTED"} \subseteq Statuses \ {"PENDING", "EXECUTED"}
      BY DEF Statuses
    <3> QED
      BY <1>4, <3>1 DEF CancelOrder, ExpireOrder, RejectOrder
  <2> QED
    BY <2>1, ReleaseHistory
<1>5. CASE Next
  BY <1>3, <1>4, <1>5, PlaceMarketHistory, PlaceLimitHistory, ExecuteHistory, ResetHistory
     DEF Next
<1> QED
  BY <1>2, <1>5

\* The sums of the model are these sums.
LEMMA HistorySums ==
  ASSUME TypeOK, HistoryInv
  PROVE  HistoryExplainsAccount
<1>1. ASSUME NEW u \in Users, NEW s, NEW t
      PROVE  /\ Total(CashTraded(u, t)) \in Nat
             /\ CashTraded(u, t) = CashOf(orders, resetAt[u], u, t)
             /\ SharesTraded(u, s, t) = SharesOf(orders, resetAt[u], u, s, t)
  <2>1. /\ CashTraded(u, t) = CashOf(orders, resetAt[u], u, t)
        /\ SharesTraded(u, s, t) = SharesOf(orders, resetAt[u], u, s, t)
    BY DEF CashTraded, SharesTraded, CashOf, SharesOf, Counts, Done, Ids
  <2>2. PICK a, since : a = orders /\ since = resetAt[u]
    OBVIOUS
  <2>3. Table(a)
    BY <2>2, SequenceIsTable DEF TypeOK
  <2>4. Total(CashOf(a, since, u, t)) \in Nat
    BY <2>3, HistoryTypes
  <2> QED
    BY <2>1, <2>2, <2>4
<1>2. ASSUME NEW u \in Users
      PROVE  portfolio[u].available_balance + portfolio[u].reserved_balance
               = InitialBalance - Total(CashTraded(u, "BUY")) + Total(CashTraded(u, "SELL"))
  <2> DEFINE b == Total(CashTraded(u, "BUY"))
             c == Total(CashTraded(u, "SELL"))
  <2>1. b \in Nat /\ c \in Nat /\ CashNet(orders, resetAt[u], u) = c - b
    BY <1>1 DEF CashNet
  <2>2. Cash(portfolio[u]) = InitialBalance + CashNet(orders, resetAt[u], u)
    BY DEF HistoryInv
  <2> HIDE DEF b, c
  <2>3. Cash(portfolio[u]) = InitialBalance - b + c
    BY <2>1, <2>2, BalanceAssumption
  <2> QED
    BY <2>3 DEF b, c, Cash
<1>3. ASSUME NEW u \in Users, NEW s \in Symbols
      PROVE  holding[u][s].quantity
               = Total(SharesTraded(u, s, "BUY")) - Total(SharesTraded(u, s, "SELL"))
  BY <1>1 DEF HistoryInv, SharesNet
<1> QED
  BY <1>2, <1>3 DEF HistoryExplainsAccount

\* The cash and the shares of every account are at all times what the orders
\* executed since its last reset make them: execute_order, release_reservation and
\* the reset lose nothing and apply nothing twice.
THEOREM HistoryExplains == Spec => []HistoryExplainsAccount
<1>1. Init => HistoryInv
  <2> SUFFICES ASSUME Init PROVE HistoryInv
    OBVIOUS
  <2>1. /\ Ids = {} /\ Len(orders) = 0 /\ DOMAIN orders = {}
        /\ \A u \in Users : resetAt[u] = 0
        /\ \A u \in Users : portfolio[u] = FreshPortfolio(InitialBalance)
        /\ \A u \in Users, s \in Symbols : holding[u][s] = EmptyHolding
    BY DEF Init, Ids
  <2>2. ASSUME NEW u \in Users
        PROVE  /\ CashNet(orders, resetAt[u], u) = 0
               /\ \A s : SharesNet(orders, resetAt[u], u, s) = 0
    <3>1. PICK a, since : a = orders /\ since = resetAt[u]
      OBVIOUS
    <3>2. CashNet(a, since, u) = 0 /\ \A s : SharesNet(a, since, u, s) = 0
      BY <2>1, <3>1, NothingCounts
    <3> QED
      BY <3>1, <3>2
  <2>3. ASSUME NEW u \in Users
        PROVE  /\ Cash(portfolio[u]) = InitialBalance /\ resetAt[u] <= Len(orders)
               /\ \A s \in Symbols : holding[u][s].quantity = 0
    BY <2>1, BalanceAssumption DEF Cash, FreshPortfolio, EmptyHolding
  <2> QED
    BY <2>1, <2>2, <2>3, BalanceAssumption DEF HistoryInv
<1>2. LedgerInv /\ HistoryInv => HistoryExplainsAccount
  BY HistorySums DEF LedgerInv
<1> QED
  BY <1>1, <1>2, HistoryKept, LedgerInvariant, PTL DEF Spec

-----------------------------------------------------------------------------
(* The cap on BUY orders of free users. *)

\* The BUY orders of a day are finitely many, and of one user and one day.
LEMMA BuysFinite ==
  ASSUME TypeOK, NEW u, NEW d
  PROVE  IsFiniteSet(BuysOn(u, d)) /\ Cardinality(BuysOn(u, d)) \in Nat
<1>1. IsFiniteSet(Ids) /\ BuysOn(u, d) \subseteq Ids
  BY IdsFacts DEF BuysOn
<1> QED
  BY <1>1, FS_Subset, FS_CardinalityType

\* Fewer BUY orders keep the cap.
LEMMA CapKept ==
  ASSUME TypeOK, FreeBuyCap, UNCHANGED subscription,
         \A u, d : BuysOn(u, d)' \subseteq BuysOn(u, d)
  PROVE  FreeBuyCap'
<1>1. ASSUME NEW u \in Users, NEW d \in 1..LastDay, subscription[u] = "FREE"
      PROVE  Cardinality(BuysOn(u, d)') <= BuyCap
  <2>1. PICK S, T : S = BuysOn(u, d) /\ T = BuysOn(u, d)'
    OBVIOUS
  <2>2. IsFiniteSet(S) /\ T \subseteq S /\ Cardinality(S) \in Nat /\ Cardinality(S) <= BuyCap
    BY <1>1, <2>1, BuysFinite DEF FreeBuyCap
  <2>3. Cardinality(T) \in Nat /\ Cardinality(T) <= Cardinality(S)
    BY <2>2, FS_Subset, FS_CardinalityType
  <2> QED
    BY <2>1, <2>2, <2>3, CapAssumption
<1> QED
  BY <1>1 DEF FreeBuyCap

\* A placement that passed check_free_user_buy_cap.
LEMMA CapPlace ==
  ASSUME TypeOK, FreeBuyCap, UNCHANGED subscription,
         NEW o \in Order, orders' = Append(orders, o), o.created_day = day,
         UnderBuyCap(o.user_id, o.trade_type)
  PROVE  FreeBuyCap'
<1>1. PICK k : k = Len(orders) + 1
  OBVIOUS
<1>2. /\ Ids' = Ids \cup {k} /\ orders'[k] = o
      /\ \A j \in Ids : orders'[j] = orders[j]
  BY <1>1, AppendLocks
<1>3. ASSUME NEW u \in Users, NEW d \in 1..LastDay, subscription[u] = "FREE"
      PROVE  Cardinality(BuysOn(u, d)') <= BuyCap
  <2>1. PICK S, T : S = BuysOn(u, d) /\ T = BuysOn(u, d)'
    OBVIOUS
  <2>2. IsFiniteSet(S) /\ Cardinality(S) \in Nat /\ Cardinality(S) <= BuyCap
    BY <1>3, <2>1, BuysFinite DEF FreeBuyCap
  <2>3. T \subseteq S \cup {k}
    BY <1>2, <2>1 DEF BuysOn
  <2>4. CASE o.user_id = u /\ o.trade_type = "BUY" /\ o.created_day = d
    <3>1. Cardinality(S) < BuyCap
      BY <1>3, <2>1, <2>4 DEF UnderBuyCap
    <3>2. /\ IsFiniteSet(S \cup {k})
          /\ Cardinality(S \cup {k}) \in Nat
          /\ Cardinality(S \cup {k}) <= Cardinality(S) + 1
      <4>1. /\ IsFiniteSet(S \cup {k})
            /\ Cardinality(S \cup {k})
                 = IF k \in S THEN Cardinality(S) ELSE Cardinality(S) + 1
        BY <2>2, FS_AddElement
      <4> QED
        BY <2>2, <4>1
    <3>3. Cardinality(T) \in Nat /\ Cardinality(T) <= Cardinality(S \cup {k})
      BY <2>3, <3>2, FS_Subset, FS_CardinalityType
    <3> QED
      BY <2>1, <2>2, <3>1, <3>2, <3>3, CapAssumption
  <2>5. CASE ~(o.user_id = u /\ o.trade_type = "BUY" /\ o.created_day = d)
    <3>1. T \subseteq S
      BY <1>2, <2>1, <2>5 DEF BuysOn
    <3>2. Cardinality(T) \in Nat /\ Cardinality(T) <= Cardinality(S)
      BY <2>2, <3>1, FS_Subset, FS_CardinalityType
    <3> QED
      BY <2>1, <2>2, <3>2, CapAssumption
  <2> QED
    BY <2>4, <2>5
<1> QED
  BY <1>3 DEF FreeBuyCap

\* An order that leaves PENDING counted already.
LEMMA CapReplace ==
  ASSUME TypeOK, FreeBuyCap, UNCHANGED subscription,
         NEW k \in Ids, orders[k].status = "PENDING",
         NEW n \in Order, orders' = [orders EXCEPT ![k] = n],
         n.user_id = orders[k].user_id, n.trade_type = orders[k].trade_type,
         n.created_day = orders[k].created_day
  PROVE  FreeBuyCap'
<1>1. Ids' = Ids /\ orders'[k] = n /\ \A i \in Ids \ {k} : orders'[i] = orders[i]
  BY ReplaceOrder
<1>2. \A u, d : BuysOn(u, d)' \subseteq BuysOn(u, d)
  BY <1>1 DEF BuysOn
<1> QED
  BY <1>2, CapKept

\* Every operation keeps the cap.
LEMMA CapStep == LedgerInv /\ FreeBuyCap /\ [Next]_vars => FreeBuyCap'
<1> SUFFICES ASSUME LedgerInv, FreeBuyCap, [Next]_vars PROVE FreeBuyCap'
  OBVIOUS
<1>0. TypeOK
  BY DEF LedgerInv
<1>1. ASSUME NEW u \in Users, NEW s \in Symbols, NEW t \in TradeTypes,
             NEW q \in Quantities, NEW p \in Prices, PlaceMarket(u, s, t, q, p)
      PROVE  FreeBuyCap'
  <2>1. PICK o : o = MarketOrder(u, s, t, q, p)
    OBVIOUS
  <2>2. o \in Order /\ o.user_id = u /\ o.trade_type = t /\ o.created_day = day
    <3>1. o \in Order
      BY <1>0, <2>1, NewOrderFacts
    <3> QED
      BY <2>1, <3>1 DEF MarketOrder
  <2>3. orders' = Append(orders, o) /\ UnderBuyCap(o.user_id, o.trade_type)
        /\ UNCHANGED subscription
    BY <1>1, <2>1, <2>2 DEF PlaceMarket
  <2> QED
    BY <1>0, <2>2, <2>3, CapPlace
<1>2. ASSUME NEW u \in Users, NEW s \in Symbols, NEW t \in TradeTypes,
             NEW q \in Quantities, NEW l \in Prices, NEW p \in Prices,
             PlaceLimit(u, s, t, q, l, p)
      PROVE  FreeBuyCap'
  <2> DEFINE o == LimitOrder(u, s, t, q, l)
             n == [o EXCEPT !.status = "EXECUTED", !.executed_price = p]
  <2>1. o \in Order /\ WellFormed(o) /\ o.user_id = u /\ o.trade_type = t
    BY <1>0, NewOrderFacts
  <2>2. o.created_day = day
    BY DEF LimitOrder
  <2>3. /\ UnderBuyCap(u, t) /\ UNCHANGED subscription
        /\ orders' = Append(orders, o) \/ orders' = Append(orders, n)
    BY <1>2 DEF PlaceLimit
  <2> HIDE DEF o
  <2>4. n \in Order /\ n.user_id = u /\ n.trade_type = t /\ n.created_day = day
    <3>1. n \in Order /\ n.user_id = u /\ n.trade_type = t
      BY <2>1, ExecutedChange
    <3>2. n.created_day = o.created_day
      BY <2>1 DEF Order
    <3> QED
      BY <2>2, <3>1, <3>2
  <2> HIDE DEF n
  <2>5. PICK m \in Order : /\ orders' = Append(orders, m) /\ m.user_id = u
                           /\ m.trade_type = t /\ m.created_day = day
    BY <2>1, <2>2, <2>3, <2>4
  <2> QED
    BY <1>0, <2>3, <2>5, CapPlace
<1>3. ASSUME NEW i \in Ids, NEW st \in Statuses \ {"PENDING"},
             orders[i].status = "PENDING", ReleaseAs(i, st), UNCHANGED subscription
      PROVE  FreeBuyCap'
  <2>1. PICK n : n = [orders[i] EXCEPT !.status = st]
    OBVIOUS
  <2>2. orders[i] \in Order /\ WellFormed(orders[i])
    BY <1>0, IdsFacts DEF LedgerInv, OrdersWellFormed
  <2>3. /\ n \in Order /\ n.user_id = orders[i].user_id
        /\ n.trade_type = orders[i].trade_type /\ n.created_day = orders[i].created_day
    BY <2>1, <2>2 DEF Order
  <2>4. orders' = [orders EXCEPT ![i] = n]
    BY <1>3, <2>1 DEF ReleaseAs
  <2> QED
    BY <1>0, <1>3, <2>3, <2>4, CapReplace
<1>4. ASSUME NEW i \in Ids, NEW p \in Prices, ExecutePending(i, p)
      PROVE  FreeBuyCap'
  <2>1. PICK n : n = [orders[i] EXCEPT !.status = "EXECUTED", !.executed_price = p]
    OBVIOUS
  <2>2. orders[i] \in Order /\ WellFormed(orders[i])
    BY <1>0, IdsFacts DEF LedgerInv, OrdersWellFormed
  <2>3. n \in Order /\ n.user_id = orders[i].user_id /\ n.trade_type = orders[i].trade_type
    BY <2>1, <2>2, ExecutedChange
  <2>4. n.created_day = orders[i].created_day
    BY <2>1, <2>2 DEF Order
  <2>5. /\ orders[i].status = "PENDING" /\ UNCHANGED subscription
        /\ orders' = [orders EXCEPT ![i] = n]
    BY <1>4, <2>1 DEF ExecutePending
  <2> QED
    BY <1>0, <2>3, <2>4, <2>5, CapReplace
<1>5. ASSUME NEW i \in Ids, \/ CancelOrder(i) \/ ExpireOrder(i)
                            \/ \E p \in Prices : RejectOrder(i, p)
      PROVE  FreeBuyCap'
  <2>1. /\ orders[i].status = "PENDING" /\ UNCHANGED subscription
        /\ \E st \in Statuses \ {"PENDING"} : ReleaseAs(i, st)
    <3>1. {"CANCELLED", "EXPIRED", "REJECTED"} \subseteq Statuses \ {"PENDING"}
      BY DEF Statuses
    <3> QED
      BY <1>5, <3>1 DEF CancelOrder, ExpireOrder, RejectOrder
  <2> QED
    BY <1>3, <2>1
<1>6. ASSUME NEW u \in Users, Upgrade(u) PROVE FreeBuyCap'
  <2>1. /\ UNCHANGED orders
        /\ \A v \in Users : subscription'[v] = "FREE" => subscription[v] = "FREE"
    BY <1>0, <1>6 DEF Upgrade, TypeOK
  <2>2. \A v, d : BuysOn(v, d)' = BuysOn(v, d)
    BY <2>1 DEF BuysOn, Ids
  <2> QED
    BY <2>1, <2>2 DEF FreeBuyCap
<1>7. CASE (\E u \in Users : ResetPortfolio(u)) \/ CloseMarket \/ OpenNextDay \/ UNCHANGED vars
  <2>1. UNCHANGED <<orders, subscription>>
    BY <1>7 DEF ResetPortfolio, CloseMarket, OpenNextDay, vars
  <2>2. \A v, d : BuysOn(v, d)' \subseteq BuysOn(v, d)
    BY <2>1 DEF BuysOn, Ids
  <2> QED
    BY <1>0, <2>1, <2>2, CapKept
<1> QED
  BY <1>1, <1>2, <1>4, <1>5, <1>6, <1>7 DEF Next

\* check_free_user_buy_cap, asked by all three ways to place an order, holds a
\* FREE user to BuyCap live BUY orders of one day when requests run one by one:
\* executing, cancelling or expiring an order never adds to the count.
THEOREM BuyCapKept == Spec => []FreeBuyCap
<1>1. Init => FreeBuyCap
  <2> SUFFICES ASSUME Init, NEW u, NEW d PROVE Cardinality(BuysOn(u, d)) <= BuyCap
    BY DEF FreeBuyCap
  <2>1. BuysOn(u, d) = {}
    BY DEF Init, BuysOn, Ids
  <2> QED
    BY <2>1, FS_EmptySet, CapAssumption
<1> QED
  BY <1>1, CapStep, LedgerInvariant, PTL DEF Spec

-----------------------------------------------------------------------------
(* Cost of the holdings.  The code divides in floating point, the model in *)
(* whole numbers: they say the same as long as the divisions are exact.    *)

\* What the shares of a row cost at their average price.
Cost(h) == h.quantity * h.avg_price

\* A purchase leaves shares whose cost divides by their number.
AveragesExact ==
  \A u \in Users, s \in Symbols :
    holding'[u][s].quantity > holding[u][s].quantity =>
      (Cost(holding[u][s]) + (portfolio'[u].invested_amount - portfolio[u].invested_amount))
        % holding'[u][s].quantity = 0

\* An exact average times its number of shares is the cost.
LEMMA ExactQuotient ==
  ASSUME NEW a \in Nat, NEW b \in Nat \ {0}, a % b = 0
  PROVE  b * (a \div b) = a
OBVIOUS

LEMMA CostType == \A h \in Holding : Cost(h) \in Int /\ (h.quantity \in Nat => Cost(h) \in Nat)
  BY ProductNat, ProductInt DEF Holding, Cost

\* The invested amount after a fill, in terms of the row that is filled.
LEMMA FillInvested ==
  ASSUME NEW pf \in Portfolio, NEW h \in Holding, NEW t \in TradeTypes,
         NEW q \in Nat, NEW p \in Nat
  PROVE  FillPortfolio(pf, h, t, q, p).invested_amount
           = pf.invested_amount + (IF t = "BUY" THEN p * q ELSE -(q * h.avg_price))
<1> DEFINE c == p * q
           k == q * h.avg_price
           a == pf.available_balance + c
           b == pf.available_balance - c
           g == pf.realized_pnl + (p - h.avg_price) * q
<1>1. c \in Int /\ k \in Int /\ pf.invested_amount \in Int
  BY ProductInt DEF Holding, Portfolio, Money
<1>2. CASE t = "BUY"
  <2>1. FillPortfolio(pf, h, t, q, p)
          = [pf EXCEPT !.available_balance = b, !.invested_amount = pf.invested_amount + c]
    BY <1>2 DEF FillPortfolio
  <2> HIDE DEF c, b
  <2>2. FillPortfolio(pf, h, t, q, p).invested_amount = pf.invested_amount + c
    BY <2>1 DEF Portfolio
  <2> QED
    BY <1>2, <2>2 DEF c
<1>3. CASE t = "SELL"
  <2>1. FillPortfolio(pf, h, t, q, p)
          = [pf EXCEPT !.available_balance = a, !.realized_pnl = g,
                       !.invested_amount = pf.invested_amount - k]
    BY <1>3 DEF FillPortfolio
  <2> HIDE DEF k, a, g
  <2>2. FillPortfolio(pf, h, t, q, p).invested_amount = pf.invested_amount - k
    BY <2>1 DEF Portfolio
  <2> QED
    BY <1>1, <1>3, <2>2 DEF k
<1> QED
  BY <1>2, <1>3 DEF TradeTypes

\* A fill changes what is invested by what it changes the cost of the row: a
\* purchase because its average is exact, a sale whatever the average is.
LEMMA FillCost ==
  ASSUME NEW pf \in Portfolio, NEW h \in Holding, NEW t \in TradeTypes,
         NEW q \in Nat \ {0}, NEW p \in Nat, h.quantity \in Nat,
         t = "BUY" => (Cost(h) + p * q) % (h.quantity + q) = 0
  PROVE  FillPortfolio(pf, h, t, q, p).invested_amount
           = pf.invested_amount + (Cost(FillHolding(h, t, q, p)) - Cost(h))
<1> DEFINE k == FillHolding(h, t, q, p)
           n == h.quantity
           v == h.avg_price
<1>1. n \in Nat /\ v \in Nat /\ pf.invested_amount \in Int /\ Cost(h) = n * v
  BY DEF Holding, Portfolio, Money, Cost
<1>2. CASE t = "BUY"
  <2>1. k.quantity = n + q /\ k.avg_price = (n * v + p * q) \div (n + q)
    BY <1>2 DEF FillHolding, AverageAfterBuy, Holding
  <2> HIDE DEF k, n, v
  <2>2. n * v \in Nat /\ p * q \in Nat /\ n + q \in Nat \ {0}
    BY <1>1, ProductNat
  <2>3. (n + q) * ((n * v + p * q) \div (n + q)) = n * v + p * q
    <3>1. (n * v + p * q) % (n + q) = 0
      BY <1>1, <1>2 DEF n
    <3>2. n * v + p * q \in Nat
      BY <2>2
    <3> QED
      BY <2>2, <3>1, <3>2, ExactQuotient
  <2>4. Cost(k) = Cost(h) + p * q
    BY <1>1, <2>1, <2>3 DEF Cost
  <2> QED
    BY <1>1, <1>2, <2>2, <2>4, FillInvested DEF k
<1>3. CASE t = "SELL"
  <2>1. k.quantity = n - q /\ k.avg_price = IF n = q THEN 0 ELSE v
    BY <1>3 DEF FillHolding, Holding
  <2> HIDE DEF k, n, v
  <2>2. Cost(k) = n * v - q * v
    <3>1. CASE n = q
      <4>1. k.quantity = 0 /\ k.avg_price = 0 /\ n * v = q * v /\ n * v \in Int
        BY <1>1, <2>1, <3>1, ProductInt
      <4> QED
        BY <4>1 DEF Cost
    <3>2. CASE n # q
      BY <1>1, <2>1, <3>2 DEF Cost
    <3> QED
      BY <3>1, <3>2
  <2>3. FillPortfolio(pf, h, t, q, p).invested_amount = pf.invested_amount + (-(q * v))
    BY <1>3, FillInvested DEF v
  <2>4. n * v \in Int /\ q * v \in Int
    BY <1>1, ProductInt
  <2> QED
    BY <1>1, <2>2, <2>3, <2>4 DEF k
<1> QED
  BY <1>2, <1>3 DEF TradeTypes

\* The costs are a function Total can sum.
LEMMA CostsType == LedgerInv => \A u \in Users : HoldingCosts(u) \in [Symbols -> Nat]
<1> SUFFICES ASSUME LedgerInv, NEW u \in Users, NEW s \in Symbols
             PROVE  holding[u][s].quantity * holding[u][s].avg_price \in Nat
  BY DEF HoldingCosts
<1>1. holding[u][s].quantity \in Nat /\ holding[u][s].avg_price \in Nat
  BY AccountFacts DEF Holding
<1> QED
  BY <1>1, ProductNat

LEMMA CostsTypeNext ==
  LedgerInv' => (\A u \in Users : HoldingCosts(u) \in [Symbols -> Nat])'
BY CostsType, PTL

\* An account whose invested amount changes by the cost of the row that changes.
LEMMA CostStep ==
  ASSUME IsFiniteSet(Symbols), LedgerInv, LedgerInv', InvestedMatchesHoldings,
         NEW u \in Users, NEW s \in Symbols, NEW pf, NEW h, SetAccount(u, s, pf, h),
         pf.invested_amount
           = portfolio[u].invested_amount + (Cost(h) - Cost(holding[u][s]))
  PROVE  InvestedMatchesHoldings'
<1>1. /\ portfolio \in [Users -> Portfolio]
      /\ holding \in [Users -> [Symbols -> Holding]]
  BY DEF LedgerInv, TypeOK
<1>2. \A v \in Users : /\ portfolio'[v] = IF v = u THEN pf ELSE portfolio[v]
                       /\ v # u => holding'[v] = holding[v]
  BY <1>1 DEF SetAccount
<1>3. holding'[u] = [holding[u] EXCEPT ![s] = h] /\ holding[u] \in [Symbols -> Holding]
  BY <1>1 DEF SetAccount
<1> DEFINE f == HoldingCosts(u)
           g == HoldingCosts(u)'
<1>4. f \in [Symbols -> Nat] /\ g \in [Symbols -> Nat]
  BY CostsType, CostsTypeNext
<1>5. f[s] = Cost(holding[u][s]) /\ g[s] = Cost(h) /\ \A r \in Symbols \ {s} : g[r] = f[r]
  BY <1>3 DEF HoldingCosts, Cost
<1> HIDE DEF f, g
<1>6. Total(g) = Total(f) - f[s] + g[s]
  BY <1>4, <1>5, TotalUpdate
<1>7. Total(f) \in Nat /\ f[s] \in Nat /\ g[s] \in Nat
  BY <1>4, TotalType
<1>8. portfolio[u].invested_amount = Total(f)
  BY DEF InvestedMatchesHoldings, f
<1>9. pf.invested_amount = Total(g)
  BY <1>5, <1>6, <1>7, <1>8
<1>10. \A v \in Users \ {u} : HoldingCosts(v)' = HoldingCosts(v)
  BY <1>2 DEF HoldingCosts
<1>11. \A v \in Users : portfolio'[v].invested_amount = Total(HoldingCosts(v)')
  BY <1>2, <1>9, <1>10 DEF InvestedMatchesHoldings, g
<1> QED
  BY <1>11 DEF InvestedMatchesHoldings, Total, Units

\* Rows that are only reserved or released.
LEMMA MoveCost ==
  ASSUME IsFiniteSet(Symbols), LedgerInv, LedgerInv', InvestedMatchesHoldings,
         NEW u \in Users, NEW s \in Symbols, NEW pf, NEW h, SetAccount(u, s, pf, h),
         pf.invested_amount = portfolio[u].invested_amount,
         h.quantity = holding[u][s].quantity, h.avg_price = holding[u][s].avg_price
  PROVE  InvestedMatchesHoldings'
<1>1. portfolio[u].invested_amount \in Int /\ Cost(holding[u][s]) \in Int
  BY AccountFacts, CostType DEF Portfolio, Money
<1>2. Cost(h) = Cost(holding[u][s])
  BY DEF Cost
<1> QED
  BY <1>1, <1>2, CostStep

\* Rows that are filled, after a release that changed neither cost nor shares.
LEMMA FillKeepsCost ==
  ASSUME IsFiniteSet(Symbols), LedgerInv, LedgerInv', InvestedMatchesHoldings,
         AveragesExact, NEW u \in Users, NEW s \in Symbols, NEW t \in TradeTypes,
         NEW q \in Quantities, NEW p \in Prices, NEW pf \in Portfolio, NEW h \in Holding,
         pf.invested_amount = portfolio[u].invested_amount,
         h.quantity = holding[u][s].quantity, h.avg_price = holding[u][s].avg_price,
         SetAccount(u, s, FillPortfolio(pf, h, t, q, p), FillHolding(h, t, q, p))
  PROVE  InvestedMatchesHoldings'
<1> DEFINE r == FillPortfolio(pf, h, t, q, p)
           k == FillHolding(h, t, q, p)
<1>1. q \in Nat \ {0} /\ p \in Nat /\ h.quantity \in Nat
  BY ConstantFacts, AccountFacts
<1>2. portfolio'[u] = r /\ holding'[u][s] = k
  BY DEF SetAccount, LedgerInv, TypeOK
<1>3. Cost(h) = Cost(holding[u][s])
  BY DEF Cost
<1>4. ASSUME t = "BUY" PROVE (Cost(h) + p * q) % (h.quantity + q) = 0
  <2>1. k.quantity = h.quantity + q
    BY <1>1, <1>4, FillHoldingFacts
  <2>2. r.invested_amount = pf.invested_amount + p * q
    BY <1>1, <1>4, FillInvested
  <2>3. pf.invested_amount \in Int /\ p * q \in Int
    BY <1>1, ProductInt DEF Portfolio, Money
  <2> HIDE DEF r, k
  <2>4. k.quantity > holding[u][s].quantity /\ r.invested_amount - portfolio[u].invested_amount = p * q
    BY <1>1, <2>1, <2>2, <2>3
  <2>5. (Cost(holding[u][s]) + (r.invested_amount - portfolio[u].invested_amount))
          % k.quantity = 0
    BY <1>2, <2>4 DEF AveragesExact
  <2> QED
    BY <1>3, <2>1, <2>4, <2>5
<1>5. r.invested_amount = pf.invested_amount + (Cost(k) - Cost(h))
  BY <1>1, <1>4, FillCost
<1> HIDE DEF r, k
<1> QED
  BY <1>3, <1>5, CostStep DEF r, k

\* Each kind of step.
LEMMA ReleaseCost ==
  ASSUME IsFiniteSet(Symbols), LedgerInv, LedgerInv', InvestedMatchesHoldings,
         NEW i \in Ids, orders[i].status = "PENDING", NEW st, ReleaseAs(i, st)
  PROVE  InvestedMatchesHoldings'
<1> DEFINE o == orders[i]
           u == o.user_id
           s == o.symbol
<1>1. /\ u \in Users /\ s \in Symbols /\ o.order_type = "LIMIT"
      /\ o.reserved_amount \in Nat /\ o.quantity \in Quantities
      /\ o.trade_type # "BUY" => o.reserved_amount = 0
  BY PendingFacts
<1>2. portfolio[u] \in Portfolio /\ holding[u][s] \in Holding /\ o.quantity \in Nat
  BY <1>1, AccountFacts, ConstantFacts
<1>3. SetAccount(u, s, ReleaseFunds(portfolio[u], o), ReleaseShares(holding[u][s], o))
  BY <1>1 DEF ReleaseAs
<1>4. ReleaseFunds(portfolio[u], o).invested_amount = portfolio[u].invested_amount
  BY <1>1, <1>2, ReleaseFundsFacts
<1>5. LET h == ReleaseShares(holding[u][s], o)
      IN  h.quantity = holding[u][s].quantity /\ h.avg_price = holding[u][s].avg_price
  BY <1>1, <1>2, ReleaseSharesFacts
<1> QED
  BY <1>1, <1>3, <1>4, <1>5, MoveCost

LEMMA ExecuteCost ==
  ASSUME IsFiniteSet(Symbols), LedgerInv, LedgerInv', InvestedMatchesHoldings,
         AveragesExact, NEW i \in Ids, NEW p \in Prices, ExecutePending(i, p)
  PROVE  InvestedMatchesHoldings'
<1> DEFINE o == orders[i]
           u == o.user_id
           s == o.symbol
           r == ReleaseFunds(portfolio[u], o)
           k == ReleaseShares(holding[u][s], o)
<1>1. /\ o.status = "PENDING"
      /\ SetAccount(u, s, FillPortfolio(r, k, o.trade_type, o.quantity, p),
                          FillHolding(k, o.trade_type, o.quantity, p))
  BY DEF ExecutePending, ApplyFill
<1>2. /\ u \in Users /\ s \in Symbols /\ o.trade_type \in TradeTypes
      /\ o.quantity \in Quantities /\ o.reserved_amount \in Nat
      /\ o.trade_type # "BUY" => o.reserved_amount = 0
  BY <1>1, PendingFacts
<1>3. portfolio[u] \in Portfolio /\ holding[u][s] \in Holding /\ o.quantity \in Nat
  BY <1>2, AccountFacts, ConstantFacts
<1>4. r \in Portfolio /\ r.invested_amount = portfolio[u].invested_amount
  BY <1>2, <1>3, ReleaseFundsFacts
<1>5. k \in Holding /\ k.quantity = holding[u][s].quantity
      /\ k.avg_price = holding[u][s].avg_price
  BY <1>2, <1>3, ReleaseSharesFacts
<1> HIDE DEF o, r, k
<1> QED
  BY <1>1, <1>2, <1>4, <1>5, FillKeepsCost

LEMMA PlaceMarketCost ==
  ASSUME IsFiniteSet(Symbols), LedgerInv, LedgerInv', InvestedMatchesHoldings,
         AveragesExact, NEW u \in Users, NEW s \in Symbols, NEW t \in TradeTypes,
         NEW q \in Quantities, NEW p \in Prices, PlaceMarket(u, s, t, q, p)
  PROVE  InvestedMatchesHoldings'
<1>1. portfolio[u] \in Portfolio /\ holding[u][s] \in Holding
  BY AccountFacts
<1>2. SetAccount(u, s, FillPortfolio(portfolio[u], holding[u][s], t, q, p),
                       FillHolding(holding[u][s], t, q, p))
  BY DEF PlaceMarket, ApplyFill
<1> QED
  BY <1>1, <1>2, FillKeepsCost

LEMMA PlaceLimitCost ==
  ASSUME IsFiniteSet(Symbols), LedgerInv, LedgerInv', InvestedMatchesHoldings,
         AveragesExact, NEW u \in Users, NEW s \in Symbols, NEW t \in TradeTypes,
         NEW q \in Quantities, NEW l \in Prices, NEW p \in Prices,
         PlaceLimit(u, s, t, q, l, p)
  PROVE  InvestedMatchesHoldings'
<1> DEFINE o == LimitOrder(u, s, t, q, l)
           pf == ReserveFunds(portfolio[u], o.reserved_amount)
           h == ReserveShares(holding[u][s], t, q)
           r == ReleaseFunds(pf, o)
           k == ReleaseShares(h, o)
<1>1. portfolio[u] \in Portfolio /\ holding[u][s] \in Holding /\ q \in Nat
  BY AccountFacts, ConstantFacts
<1>2. /\ o.reserved_amount \in Nat /\ o.trade_type = t /\ o.quantity = q
      /\ o.reserved_amount = IF t = "BUY" THEN l * q ELSE 0
  BY NewOrderFacts DEF LedgerInv
<1>3. \/ SetAccount(u, s, pf, h)
      \/ SetAccount(u, s, FillPortfolio(r, k, t, q, p), FillHolding(k, t, q, p))
  BY DEF PlaceLimit, ApplyFill
<1> HIDE DEF o
<1>4. pf \in Portfolio /\ pf.invested_amount = portfolio[u].invested_amount
  BY <1>1, <1>2, ReserveFundsFacts
<1>5. h \in Holding /\ h.quantity = holding[u][s].quantity
      /\ h.avg_price = holding[u][s].avg_price
  BY <1>1, ReserveSharesFacts
<1> HIDE DEF pf, h
<1>6. r \in Portfolio /\ r.invested_amount = portfolio[u].invested_amount
  <2>1. o.trade_type # "BUY" => o.reserved_amount = 0
    BY <1>2
  <2> QED
    BY <1>2, <1>4, <2>1, ReleaseFundsFacts
<1>7. k \in Holding /\ k.quantity = holding[u][s].quantity
      /\ k.avg_price = holding[u][s].avg_price
  BY <1>1, <1>2, <1>5, ReleaseSharesFacts
<1> HIDE DEF r, k
<1> QED
  BY <1>3, <1>4, <1>5, <1>6, <1>7, MoveCost, FillKeepsCost

LEMMA ResetCost ==
  ASSUME IsFiniteSet(Symbols), LedgerInv, InvestedMatchesHoldings, NEW u \in Users,
         ResetPortfolio(u)
  PROVE  InvestedMatchesHoldings'
<1>1. /\ portfolio \in [Users -> Portfolio]
      /\ holding \in [Users -> [Symbols -> Holding]]
  BY DEF LedgerInv, TypeOK
<1>2. /\ portfolio' = [portfolio EXCEPT ![u] = FreshPortfolio(InitialBalance)]
      /\ holding' = [holding EXCEPT ![u] = [s \in Symbols |-> EmptyHolding]]
  BY DEF ResetPortfolio
<1>3. \A v \in Users \ {u} : /\ portfolio'[v] = portfolio[v]
                             /\ HoldingCosts(v)' = HoldingCosts(v)
  BY <1>1, <1>2 DEF HoldingCosts
<1>4. portfolio'[u].invested_amount = 0
  BY <1>1, <1>2 DEF FreshPortfolio
<1> DEFINE f == HoldingCosts(u)'
<1>5. \A s \in DOMAIN f : f[s] = 0
  BY <1>1, <1>2 DEF HoldingCosts, EmptyHolding
<1> HIDE DEF f
<1>6. Total(f) = 0
  BY <1>5, TotalZero
<1>7. \A v \in Users : portfolio'[v].invested_amount = Total(HoldingCosts(v)')
  BY <1>3, <1>4, <1>6 DEF InvestedMatchesHoldings, f
<1> QED
  BY <1>7 DEF InvestedMatchesHoldings, Total, Units

\* The amount a portfolio says is invested is what its holdings cost, for any
\* finite set of symbols and as long as the averages are exact: the two are kept up
\* by different statements and no path changes one without the other.
THEOREM InvestedIsTheCost ==
  ASSUME IsFiniteSet(Symbols)
  PROVE  Spec /\ [][AveragesExact]_vars => []InvestedMatchesHoldings
<1>1. Init => InvestedMatchesHoldings
  <2> SUFFICES ASSUME Init, NEW u \in Users
               PROVE  portfolio[u].invested_amount = Total(HoldingCosts(u))
    BY DEF InvestedMatchesHoldings
  <2>1. portfolio[u].invested_amount = 0
    BY DEF Init, FreshPortfolio
  <2>2. \A s \in DOMAIN HoldingCosts(u) : HoldingCosts(u)[s] = 0
    BY DEF Init, EmptyHolding, HoldingCosts
  <2> QED
    BY <2>1, <2>2, TotalZero
<1>2. LedgerInv /\ LedgerInv' /\ InvestedMatchesHoldings /\ [Next]_vars
        /\ [AveragesExact]_vars => InvestedMatchesHoldings'
  <2> SUFFICES ASSUME LedgerInv, LedgerInv', InvestedMatchesHoldings, [Next]_vars,
                      [AveragesExact]_vars
               PROVE  InvestedMatchesHoldings'
    OBVIOUS
  <2>1. ASSUME UNCHANGED <<portfolio, holding>> PROVE InvestedMatchesHoldings'
    BY <2>1 DEF InvestedMatchesHoldings, HoldingCosts, Total, Units
  <2>2. CASE UNCHANGED vars
    BY <2>1, <2>2 DEF vars
  <2>3. CASE AveragesExact /\ Next
    <3>1. ASSUME NEW i \in Ids, \/ CancelOrder(i) \/ ExpireOrder(i)
                                \/ \E p \in Prices : RejectOrder(i, p)
          PROVE  InvestedMatchesHoldings'
      BY <3>1, ReleaseCost DEF CancelOrder, ExpireOrder, RejectOrder
    <3>2. CASE (\E u \in Users : Upgrade(u)) \/ CloseMarket \/ OpenNextDay
      BY <2>1, <3>2 DEF Upgrade, CloseMarket, OpenNextDay
    <3> QED
      BY <2>3, <3>1, <3>2, PlaceMarketCost, PlaceLimitCost, ExecuteCost, ResetCost DEF Next
  <2> QED
    BY <2>2, <2>3
<1> QED
  BY <1>1, <1>2, LedgerInvariant, PTL DEF Spec
=============================================================================
