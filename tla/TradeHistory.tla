---------------------------- MODULE TradeHistory -----------------------------
(***************************************************************************)
(* What is rebuilt from the trades of one account: the positions of the    *)
(* mentor (mentor/fifo.py) and the equity curve (performance/service.py),  *)
(* beside the Portfolio and Holding rows the ledger keeps for the same     *)
(* trades.  Both readers start from the first trade there ever was.        *)
(*                                                                         *)
(* The account is Ledger's with a single user and without orders that      *)
(* wait; a trade's time is its place in the log, Pace minutes for each.    *)
(***************************************************************************)
EXTENDS Account, MentorAdvice, SequencesExt

CONSTANTS
  Symbols, Prices, Quantities,
  StartingBalance,  \* STARTING_BALANCE, Portfolio.available_balance default
  Resets,           \* TRUE: the user may reset the portfolio
  Pace,             \* minutes between two trades
  Stamps,           \* sets of minutes: the candles a provider may have of a symbol
  MaxTrades         \* bound: trades ever made

ASSUME PricesAssumption == Prices \subseteq Nat \ {0}
ASSUME QuantitiesAssumption == Quantities \subseteq Nat \ {0}
ASSUME NumberAssumption ==
  StartingBalance \in Nat /\ MaxTrades \in Nat /\ Pace \in Nat /\ Resets \in BOOLEAN
ASSUME StampsAssumption == Stamps \subseteq SUBSET Nat

VARIABLES
  portfolio,  \* the Portfolio row
  holding,    \* [Symbols -> Holding row]
  trades,     \* the trades table, by created_at
  wiped,      \* history: what resets took that the trades still tell
  resetAt,    \* history: trades there were at the last reset
  books       \* history: what the rows came to before the first trade and after each

vars == <<portfolio, holding, trades, wiped, resetAt, books>>

Book(pf, h) == [cash     |-> pf.available_balance + pf.reserved_balance,
                quantity |-> [s \in Symbols |-> h[s].quantity]]

Init ==
  /\ portfolio = FreshPortfolio(StartingBalance)
  /\ holding = [s \in Symbols |-> EmptyHolding]
  /\ trades = <<>>
  /\ wiped = {}
  /\ resetAt = 0
  /\ books = <<Book(portfolio, holding)>>

\* execute_order: the rows and the trade in one commit.
Fill(s, t, q, p) ==
  /\ Len(trades) < MaxTrades
  /\ CanFill(portfolio, holding[s], t, q, p)
  /\ portfolio' = FillPortfolio(portfolio, holding[s], t, q, p)
  /\ holding' = [holding EXCEPT ![s] = FillHolding(@, t, q, p)]
  /\ trades' = Append(trades, [symbol |-> s, trade_type |-> t, quantity |-> q, price |-> p,
                               created_at |-> Len(trades) + 1])
  /\ books' = Append(books, Book(portfolio', holding'))
  /\ UNCHANGED <<wiped, resetAt>>

\* reset_portfolio: fresh rows; the trades stay.
Reset ==
  /\ Resets
  /\ portfolio' = FreshPortfolio(StartingBalance)
  /\ holding' = [s \in Symbols |-> EmptyHolding]
  /\ wiped' = wiped \cup (IF \E s \in Symbols : holding[s].quantity > 0 THEN {"shares"} ELSE {})
                    \cup (IF portfolio.available_balance # StartingBalance THEN {"cash"} ELSE {})
  /\ resetAt' = Len(trades)
  /\ UNCHANGED <<trades, books>>

Next ==
  \/ \E s \in Symbols, t \in TradeTypes, q \in Quantities, p \in Prices : Fill(s, t, q, p)
  \/ Reset

Spec == Init /\ [][Next]_vars

\* A loop over a sequence: what step makes of start, element after element.  A
\* recursive function, which proofs can be about.
Through(step(_, _), start, seq) ==
  LET after[n \in 0 .. Len(seq)] == IF n = 0 THEN start ELSE step(after[n - 1], seq[n])
  IN  after[Len(seq)]

-----------------------------------------------------------------------------
(* mentor/fifo.py: lots are matched first in, first out.                     *)

OfSymbol(log, s) ==
  Through(LAMBDA acc, t : IF t.symbol = s THEN Append(acc, t) ELSE acc, <<>>, log)

Chunk(lot, t, m) ==
  [buy |-> lot.buy, sell |-> t.created_at, quantity |-> m,
   buy_price |-> lot.price, sell_price |-> t.price]

\* Mutant of MatchLot: a lot that was touched is gone.
MatchLotDropped(acc, lot, t) ==
  LET m == Smaller(acc.left, lot.left)
  IN  IF m = 0 THEN [acc EXCEPT !.queue = Append(@, lot)]
      ELSE [left |-> acc.left - m, queue |-> acc.queue,
            chunks |-> Append(acc.chunks, Chunk(lot, t, m))]

\* Mutant of MatchLot: a chunk counts the shares of its lot.
MatchLotWhole(acc, lot, t) ==
  LET m == Smaller(acc.left, lot.left)
  IN  [left   |-> acc.left - m,
       queue  |-> IF m = lot.left THEN acc.queue
                  ELSE Append(acc.queue, [lot EXCEPT !.left = @ - m]),
       chunks |-> IF m = 0 THEN acc.chunks
                  ELSE Append(acc.chunks, Chunk(lot, t, lot.left))]

\* One turn of the while loop for the sale t: the earliest lot gives what it has
\* left.  Lots that come after the last share are kept as they are.
MatchLot(acc, lot, t) ==
  LET m == Smaller(acc.left, lot.left)
  IN  [left   |-> acc.left - m,
       queue  |-> IF m = lot.left THEN acc.queue
                  ELSE Append(acc.queue, [lot EXCEPT !.left = @ - m]),
       chunks |-> IF m = 0 THEN acc.chunks ELSE Append(acc.chunks, Chunk(lot, t, m))]

\* The while loop.
MatchSale(state, t) ==
  Through(LAMBDA acc, lot : MatchLot(acc, lot, t),
          [left |-> t.quantity, queue |-> <<>>, chunks |-> state.chunks], state.queue)

Lot(t) == [buy |-> t.created_at, price |-> t.price, left |-> t.quantity]

\* Mutant of ProcessTrade: last in, first out.
ProcessTradeLifo(state, t) ==
  IF t.trade_type = "BUY" THEN [state EXCEPT !.queue = <<Lot(t)>> \o @]
  ELSE LET m == MatchSale(state, t)
       IN  [queue |-> m.queue, chunks |-> m.chunks, unmatched |-> state.unmatched + m.left]

\* One trade of a symbol; state is [queue, chunks, unmatched].
ProcessTrade(state, t) ==
  IF t.trade_type = "BUY" THEN [state EXCEPT !.queue = Append(@, Lot(t))]
  ELSE LET m == MatchSale(state, t)
       IN  [queue |-> m.queue, chunks |-> m.chunks, unmatched |-> state.unmatched + m.left]

ProcessSymbolTrades(log) ==
  Through(ProcessTrade, [queue |-> <<>>, chunks |-> <<>>, unmatched |-> 0], log)

Fifo == [s \in Symbols |-> ProcessSymbolTrades(OfSymbol(trades, s))]

\* total_quantity and total_cost of the lots that are left.
OpenQuantity(queue) == Total([i \in DOMAIN queue |-> queue[i].left])
OpenCost(queue)     == Total([i \in DOMAIN queue |-> queue[i].left * queue[i].price])

\* total_buy_cost and total_sell_value of chunks.
BuyCost(chunks)   == Total([i \in DOMAIN chunks |-> chunks[i].quantity * chunks[i].buy_price])
SellValue(chunks) == Total([i \in DOMAIN chunks |-> chunks[i].quantity * chunks[i].sell_price])

\* Mutant of SameCampaign: a campaign ends with every sale.
SameCampaignPerSale(last, chunk) == chunk.sell = last.sell

\* A chunk belongs to the campaign of the last one when it was bought before
\* that was sold.
SameCampaign(last, chunk) == chunk.buy <= last.sell

\* _group_chunks_into_positions; the chunks already come sorted.
GroupChunksIntoPositions(chunks) ==
  Through(LAMBDA acc, c :
            IF acc # <<>> /\ SameCampaign(Last(Last(acc)), c)
            THEN [acc EXCEPT ![Len(acc)] = Append(@, c)]
            ELSE Append(acc, <<c>>),
          <<>>, chunks)

\* _aggregate_campaign_chunks
AggregateCampaignChunks(chunks) ==
  [open  |-> Pace * Min({c.buy : c \in Range(chunks)}),
   close |-> Pace * Max({c.sell : c \in Range(chunks)}),
   pnl   |-> SellValue(chunks) - BuyCost(chunks),
   cost  |-> BuyCost(chunks)]

ClosedPositions ==
  UNION {{AggregateCampaignChunks(c) : c \in Range(GroupChunksIntoPositions(Fifo[s].chunks))} :
           s \in Symbols}

\* A symbol the providers have no price of counts at what its shares cost.
NoPrice == 0
LivePrice(live, s) == IF live[s] = NoPrice THEN holding[s].avg_price ELSE live[s]

\* _load_holdings_state: what is held at live prices, and the account's worth.
HoldingValues(live) ==
  [s \in {r \in Symbols : holding[r].quantity > 0} |-> LivePrice(live, s) * holding[s].quantity]

PortfolioWorth(live) ==
  portfolio.available_balance + portfolio.reserved_balance + Total(HoldingValues(live))

\* generate_summary of an account that has traded.
GenerateSummary(live) ==
  LET m == CalculateMetrics(ClosedPositions, Len(trades), HoldingValues(live),
                            PortfolioWorth(live))
  IN  Prioritize(m, EvaluateAll(m, ClosedPositions))

-----------------------------------------------------------------------------
(* performance/service.py: the account is replayed at each candle.           *)

Position(q, avg) == [quantity |-> q, avg_price |-> avg]

\* One trade of _get_portfolio_state_at_timestamp; no entry is quantity 0.  A sale
\* of what is not held is passed over.
ReplayTrade(state, t) ==
  LET pos   == state.holdings[t.symbol]
      value == t.price * t.quantity
      total == pos.quantity + t.quantity
      left  == pos.quantity - t.quantity
  IN  IF t.trade_type = "BUY"
      THEN [cash |-> state.cash - value,
            holdings |-> [state.holdings EXCEPT ![t.symbol] =
              Position(total, (pos.avg_price * pos.quantity + value) \div total)]]
      ELSE IF pos.quantity = 0 THEN state
      ELSE [cash |-> state.cash + value,
            holdings |-> [state.holdings EXCEPT ![t.symbol] =
              IF left <= 0 THEN Position(0, 0) ELSE Position(left, pos.avg_price)]]

\* Mutant of StateAt: a trade in the minute of the candle is too late.
StateBefore(log, timestamp) ==
  Through(LAMBDA state, t : IF Pace * t.created_at >= timestamp THEN state ELSE ReplayTrade(state, t),
          [cash |-> StartingBalance, holdings |-> [s \in Symbols |-> Position(0, 0)]], log)

\* The trades come by time: those after the first that is too late are as well.
StateAt(log, timestamp) ==
  Through(LAMBDA state, t : IF Pace * t.created_at > timestamp THEN state ELSE ReplayTrade(state, t),
          [cash |-> StartingBalance, holdings |-> [s \in Symbols |-> Position(0, 0)]], log)

\* closes is a function from the times of a symbol's candles to prices.
CloseAtOrBefore(closes, timestamp) ==
  LET earlier == {t \in DOMAIN closes : t <= timestamp}
  IN  IF earlier = {} THEN closes[Min(DOMAIN closes)] ELSE closes[Max(earlier)]

\* Shares at the closes of a time; symbols without candles count for nothing.
AtCloses(shares, closes, timestamp) ==
  Total([s \in {r \in Symbols : shares[r] > 0 /\ DOMAIN closes[r] # {}} |->
           CloseAtOrBefore(closes[s], timestamp) * shares[s]])

\* A point of the equity curve.
ValueAt(closes, timestamp) ==
  LET state == StateAt(trades, timestamp)
  IN  state.cash
        + AtCloses([s \in Symbols |-> state.holdings[s].quantity], closes, timestamp)

\* The candles the curve follows: those of the traded symbol that has most, the one
\* traded first if several have.
Timeline(closes) ==
  DOMAIN closes[Through(LAMBDA s, t : IF Cardinality(DOMAIN closes[t.symbol])
                                           > Cardinality(DOMAIN closes[s]) THEN t.symbol ELSE s,
                        Head(trades).symbol, trades)]

\* _get_real_history; no point at all without a trade or a candle.
History(closes) ==
  [timestamp \in IF trades = <<>> THEN {} ELSE Timeline(closes) |-> ValueAt(closes, timestamp)]

\* get_portfolio_performance: currentValue, the account's worth a second time.
NetWorth(live) ==
  portfolio.available_balance + portfolio.reserved_balance
    + Total([s \in {r \in Symbols : holding[r].quantity > 0} |->
               LivePrice(live, s) * holding[s].quantity])

-----------------------------------------------------------------------------
(* Properties. *)

\* The open lots the mentor reads out of the trades are the shares the ledger
\* holds, and every sale finds the shares it sold, unless a reset took shares.
OpenMatchesHoldings ==
  "shares" \notin wiped =>
    \A s \in Symbols : OpenQuantity(Fifo[s].queue) = holding[s].quantity /\ Fifo[s].unmatched = 0

\* First in, first out and average cost divide profit differently between what is
\* sold and what is held, never in sum, as long as no reset took either.
PnlAgrees ==
  wiped = {} =>
    Total([s \in Symbols |-> SellValue(Fifo[s].chunks)])
      - Total([s \in Symbols |-> BuyCost(Fifo[s].chunks)])
      - Total([s \in Symbols |-> OpenCost(Fifo[s].queue)])
        = portfolio.realized_pnl - portfolio.invested_amount

\* Shares before trade k of those of one kind.
Before(log, kind, k) ==
  Total([i \in DOMAIN log |->
           IF log[i].trade_type = kind /\ log[i].created_at < k THEN log[i].quantity ELSE 0])

\* Shares that the sale of time t took from the lot of time b.
Matched(chunks, b, t) ==
  Total([i \in DOMAIN chunks |->
           IF chunks[i].buy = b /\ chunks[i].sell = t THEN chunks[i].quantity ELSE 0])

\* What the share numbers of a lot and of a sale have in common.
Common(log, b, t) ==
  LET from == Larger(Before(log, "BUY", b.created_at), Before(log, "SELL", t.created_at))
      to   == Smaller(Before(log, "BUY", b.created_at) + b.quantity,
                      Before(log, "SELL", t.created_at) + t.quantity)
  IN  Larger(0, to - from)

\* What FIFO means, without a queue: the n-th share sold is the n-th bought, so a
\* sale takes from a lot what their two intervals of share numbers have in common.
FifoIsOverlap ==
  \A s \in Symbols :
    LET log == OfSymbol(trades, s)
    IN  \A i, j \in DOMAIN log :
          log[i].trade_type = "BUY" /\ log[j].trade_type = "SELL"
            => Matched(Fifo[s].chunks, log[i].created_at, log[j].created_at)
                 = Common(log, log[i], log[j])

\* Shares held after trade k.
Held(log, k) == Before(log, "BUY", k + 1) - Before(log, "SELL", k + 1)

\* A closed position is one cycle of the holding from nothing to nothing: two
\* sales are in one campaign exactly when shares were held all the time between.
CampaignsAreCycles ==
  \A s \in Symbols :
    LET log       == OfSymbol(trades, s)
        campaigns == GroupChunksIntoPositions(Fifo[s].chunks)
    IN  \A i, j \in DOMAIN campaigns : \A c \in Range(campaigns[i]), d \in Range(campaigns[j]) :
          c.sell < d.sell =>
            (i = j <=> \A k \in c.sell .. d.sell - 1 : Held(log, k) > 0)

\* What a provider may answer: for each symbol no candle or some, at any of the times,
\* long ago or just now, with any closes.
Frames == [Symbols -> UNION {[stamps -> Prices] : stamps \in Stamps}]

\* The first k trades are those made by the minute given.
MadeBy(k, timestamp) ==
  /\ k \in 0 .. Len(trades)
  /\ k > 0 => Pace * k <= timestamp
  /\ k < Len(trades) => timestamp < Pace * (k + 1)

\* Every trade was made by the last candle, and that is where each symbol that is
\* held has its live price from.
UpToDate(closes, live, last) ==
  /\ MadeBy(Len(trades), last)
  /\ \A s \in {r \in Symbols : holding[r].quantity > 0} :
       /\ DOMAIN closes[s] # {} /\ \A t \in DOMAIN closes[s] : t <= last
       /\ closes[s][Max(DOMAIN closes[s])] = LivePrice(live, s)

\* The equity curve, replayed from the trades, is the ledger's past.  Whichever
\* symbols have candles, and whenever, each of its points is the cash the rows held
\* once the trades up to it were made, what was locked included, and their shares at
\* the closes; and the last one is the net worth shown beside it, if no trade came
\* after it and the closes are the live prices.  Unless a reset took some.
CurveIsTheLedgersPast ==
  wiped = {} =>
    \A closes \in Frames :
      LET curve == History(closes)
      IN  \A timestamp \in DOMAIN curve :
            /\ \A k \in 0 .. Len(trades) :
                 MadeBy(k, timestamp) =>
                   curve[timestamp]
                     = books[k + 1].cash + AtCloses(books[k + 1].quantity, closes, timestamp)
            /\ \A live \in [Symbols -> Prices \cup {NoPrice}] :
                 UpToDate(closes, live, timestamp) => curve[timestamp] = NetWorth(live)

\* Trades i to j of a symbol's log are one cycle of its holding, from nothing to
\* nothing.
Cycle(log, i, j) ==
  /\ Held(log, log[i].created_at - 1) = 0 /\ Held(log, log[j].created_at) = 0
  /\ \A k \in i .. j - 1 : Held(log, log[k].created_at) > 0

\* What trades i to j brought in, less what they cost.
Proceeds(log, i, j) ==
  Total([k \in i .. j |-> IF log[k].trade_type = "SELL" THEN log[k].price * log[k].quantity ELSE 0])
    - Total([k \in i .. j |-> IF log[k].trade_type = "BUY" THEN log[k].price * log[k].quantity ELSE 0])

\* [opened, closed, gain] of the cycles the log of the account has.
Cycles ==
  UNION {LET log == OfSymbol(trades, s)
         IN  {[opened |-> log[c[1]].created_at, closed |-> log[c[2]].created_at,
               gain |-> Proceeds(log, c[1], c[2])] :
                c \in {d \in (DOMAIN log) \X (DOMAIN log) : d[1] < d[2] /\ Cycle(log, d[1], d[2])}} :
           s \in Symbols}

\* Revenge is what the trades say it is, without lots or campaigns: who enters a cycle
\* within a quarter of an hour of ending one that cost more than it brought in, and
\* ends that too, is warned of revenge trading, whatever else is found; and nobody is
\* who did not buy that soon after selling below a price once paid.
RevengeIsSeen ==
  trades # <<>> =>
    \A live \in [Symbols -> Prices \cup {NoPrice}] :
      LET summary == GenerateSummary(live)
          warned  == "MISTAKE_REVENGE_TRADING" \in RuleIds(summary.all_insights)
          Soon(sale, buy) == Pace * (buy - sale) \in 0 .. 15
      IN  /\ (\E c, d \in Cycles : c.gain < 0 /\ Soon(c.closed, d.opened))
               => warned /\ summary.improvement_focus = "Emotional Trading"
          /\ warned =>
               \E i, j, k \in DOMAIN trades :
                 /\ i < j /\ j < k /\ Soon(j, k)
                 /\ trades[i].symbol = trades[j].symbol /\ trades[j].price < trades[i].price
                 /\ trades[i].trade_type = "BUY" /\ trades[j].trade_type = "SELL"
                 /\ trades[k].trade_type = "BUY"
=============================================================================
