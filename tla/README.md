# Paper Trade backend: TLA+ models, checks and proofs

Paper Trade is a FastAPI backend for simulated trading on the NSE: users place
MARKET and LIMIT orders against live prices, a scheduler fills and expires
pending LIMIT orders, and further services (accounts, subscriptions, AI mentor,
performance, charts, market data) stand around the trade log. This directory
holds TLA+ models of them, the TLC configurations that check the models and
TLAPS proofs about them. Paths below are relative to `src/app/` unless they
start with `docs/`.

## 1. Inventory

| Component | State it keeps | Operations that change it | Talks to |
|---|---|---|---|
| Trading ledger (`trades/service.py`, `order_service.py`, `models.py`, `router.py`) | tables `portfolios`, `holdings`, `orders`, `trades` | legacy trade, MARKET and LIMIT placement, immediate fill, cancel, reset, fill/reject/expire for the scheduler | prices, market clock, users (subscription) |
| Scheduler (`trades/scheduler.py`) | PostgreSQL advisory locks, one session per tick | execution job every 10 min, expiry sweep 15:31 and 16:00 IST | ledger, prices |
| Users (`users/service.py`, `core/security.py`, `core/email.py`) | table `users`, JWT tokens | signup, verify, login, Google login, reset password, delete account | every table (delete), mail |
| Subscriptions (`subscriptions/service.py`) | `users.subscription`, `purchase_token`, expiry | verify, restore | Google Play, users |
| Stocks (`stocks/service.py`) | `_price_cache` (60 s), `_historical_cache` (600 s, 500 entries) | fetch, sweep, evict | yfinance |
| Market indexes (`market/service.py`) | one cached list | fetch | yfinance |
| AI mentor (`mentor/service.py`) | table `mentor_reviews` | daily review (cached), trade review | trade log, LLM |
| Mentor analytics (`mentor/fifo.py`, `analytics.py`, `rule_engine.py`, `prioritizer.py`) | none: functions of the trade log and the holdings | - | - |
| Performance (`performance/service.py`) | none: replays the trade log | - | trade log, prices |
| Charts (`chart/service.py`) | none; the client keeps the cursor | pages of history | yfinance |
| LLM client (`ai/`), debug router (`ai_mentor/`), shell (`main.py`, `database.py`, alembic) | connection pool, settings | - | - |

What makes each of them correct, and where it is hard:

* **Ledger.** Cash and shares locked by pending orders are exactly what those
  orders locked; nobody spends or sells twice; an order leaves PENDING once;
  cash + locked cash + cost of holdings = initial balance + realized profit; a
  free user has at most 5 BUY orders a day. Hard: every write is a
  read-modify-write through the ORM under READ COMMITTED, some handlers lock
  rows and some do not, a reset is several transactions.
* **Scheduler.** One fill per order whatever number of workers; each stale
  order is expired in the end. Hard: the batch is loaded long before each order
  is locked, exceptions per order, two jobs with different advisory locks.
* **Users.** Nobody is signed in to an account whose address was not proven; a
  reset link that has been used is refused from then on (two requests at once may
  both use it); a deletion leaves nothing behind and ends.
  Hard: requests that read, work for long and write; stateless tokens; tables
  without foreign keys, written by everybody else.
* **Subscriptions.** PRO means paid and acknowledged; a purchase belongs to one
  account. Hard: query, remote call, remote call, write, over an image of the
  row that was loaded earlier still.
* **Stocks and indexes.** What a cache serves is not older than its time to
  live, and the frame cache keeps its bound. Hard: the provider is called
  between two locked sections.
* **Mentor.** A cached review describes the trades it is keyed by, and fallback
  coaching is never cached. Hard: three queries and seconds of waiting between
  the key and the row.
* **Analytics, performance.** FIFO lots, campaigns, scores and the replayed
  curve agree with the ledger. Hard: another cost rule, partial fills, candles
  that come late or not at all, a reset that empties the ledger and keeps the log.
* **Charts.** Pages join without gaps and end when the history does. Hard:
  windows that double, a lookback that moves, a provider that rounds.

`PROJECT.json` lists the hazards one by one, each at its line, with the
properties that cover it or the reason none does.

## 2. Modules

```
Account             arithmetic of one account (no state)
Totals              sums over finite functions, defined by counting
Ledger              every trading operation one atomic step  EXTENDS Account, Totals
TradeSessions       the same handlers, statement by statement
                    EXTENDS Account; Serial == INSTANCE Ledger WITH views
AccountDeletion     delete_user beside everything that writes the account's rows
Accounts            sign-up, logins, links, password resets, deletion
Purchases           Google Play subscriptions
MentorReviews       the daily review and its cache
PriceCaches         quotes, candle frames, market indexes
MentorAdvice        metrics, rules, scores (no state)        EXTENDS Totals
TradeHistory        lots, campaigns and the equity curve     EXTENDS Account, MentorAdvice
ChartPages          chart history page by page
MCLedger, MCSessions, MCChartPages           values for TLC
MCAccounts                                   symmetry for TLC
LedgerTheorems      proofs about Ledger, Account and Totals
SessionsTheorems    proofs about TradeSessions and its refinement of Ledger;
                    Proved == INSTANCE LedgerTheorems WITH the same views
MentorTheorems      proofs about TradeHistory and MentorReviews;
                    Books == INSTANCE LedgerTheorems WITH the account of TradeHistory
DeletionTheorems, AccountsTheorems, PurchasesTheorems, CachesTheorems,
ChartTheorems       each EXTENDS the module it is about
```

Definitions whose comment begins with "Mutant of" are plausible bugs. They are
used by nothing: they are there to be put in the place of the definition they
name, which makes the property they belong to fail.

### The ledger and its sessions

**Account** is the money arithmetic of `execute_order`, `release_reservation`,
`_reserve_funds`, `_reserve_shares`, `is_limit_fillable` and the price band.
Prices are integers in the smallest unit. `avg_price` is a float in the code and
a floor division here; the run that depends on averages uses prices for which
every division is exact. `Holding.invested_amount` (always quantity times
average), the per-holding `realized_pnl` and `total_balance` (never changed) are
left out.

**Ledger** is the promise: what the program does when each request and each
scheduler step runs alone to its commit. A handler that raises before its commit
rolls back, so a refusal is a step not taken.

| Action | Code |
|---|---|
| `PlaceMarket` | `create_order` + `_create_market_order` + `execute_order`; also `create_trade` |
| `PlaceLimit` | `_create_limit_order`, with the fill at once when the price satisfies the limit |
| `CancelOrder`, `ExpireOrder`, `RejectOrder` | `cancel_order`, `expire_order`, `_reject_order` |
| `ExecutePending` | one order of `execute_pending_orders_job` |
| `ResetPortfolio` | `reset_portfolio`, once `cancel_all_pending_for_user` left nothing pending |
| `Upgrade` | a verified or restored purchase |
| `CloseMarket`, `OpenNextDay` | `get_market_status` over time |

`resetAt` is a history variable: the number of orders at the user's last reset,
so that the properties can say which part of the log explains the account.

**TradeSessions** takes the handlers apart. A session is a request thread or a
job; its record holds what the ORM session holds: images of the rows it read
(`pf`, `row`, `h`, `o`), the order it has locked (`id`), the ids still to visit
(`todo`), those whose image is still the batch query's (`loaded`), and the rows
it deleted without having committed (`doomed`). Three facts of the database
layer carry the model:

1. A plain query reads the last committed row; commit and rollback expire what
   was read.
2. `with_for_update()` waits for the row lock but does not refresh an object
   already in the identity map. The execution and expiry jobs load a batch
   first, so the object they lock is the stale one until the first commit or
   rollback of the tick (`Reload`, `TakeOrder`).
3. A flush writes only the columns whose value differs from the value read, as
   absolute values (`Merge`), and fails when the row is gone (`Flushable`).

A step is one query, or one commit together with the flush before it. Between
flush and commit the written rows are locked, so nobody sees the difference.
`Release` reads portfolio and holding FOR UPDATE and commits in one step. A LIMIT
order reads its holding before it reserves, and once more in `execute_order` after
the flush at `order_service.py:142`: a row it has read already keeps its image
(identity map), a row inserted or deleted since is taken as found (`CommitImage`).
A transaction aborted by the database (deadlock, lost connection) or a lost worker
is `Fault`.

Handlers that reach `.first()` on holdings without ORDER BY get any of the rows.
The portfolio row is created on first use; a second concurrent INSERT violates
the unique `user_id` and its request fails.

`Overlapping` names the kinds of step that may run beside one another in an
instance; the rest run alone. It is the knob of the runs below.

### The other components

**AccountDeletion** is `delete_user`, one bulk DELETE after the other, beside an
execution tick, a cancel or sweep, a placement, a reset and a review of the same
account. What the rows say is the Ledger's subject; here a row is there or not,
locked or not, and an order is pending or settled. Only `mentor_reviews` has a
foreign key to `users`. A DELETE takes the rows committed by now and waits for
those that are locked; a row inserted afterwards stays. A placement or a fill has
its statements in `plan`: what `_create_limit_order` flushes (`Reservations`), then
what `execute_order` does (`FillPlan`: the query of the user, and a flush that
updates holdings before portfolios). `Flush` is one of them; it waits for its row
and raises when that is gone. A cancel or expiry locks its order, the portfolio,
then the holding (`SettleLock`). The foreign key refuses a review of a user who is
gone (`ReviewWrite`) and fails the deletion when a review came after its first
statement (`DeleteCommit`). `Wanted` and `WaitsFor` are the waits-for graph,
`Stuck` a set whose members wait for one another, and `DeadlockVictim` the
database's way out. `cast` names the sessions of a behaviour.

**Accounts** has the rows of `users` and the links and tokens in circulation.
Sign-up, the link to Google and the reset of a password are two steps each, since
they read a row, do slow work and write: `SignupCheck`/`SignupWrite`,
`GoogleLogin` then `GoogleLink` or `GoogleWrite`, `ResetCheck`/`ResetWrite`. The
unique columns decide collisions (`Insert`). A link keeps its expiry and, for
resets, the time of the password it was mailed for; `Unspent` is the comparison
of the link's claim with the row in `core/security.py`. `proven` (addresses
whose mailbox somebody has shown to own), `changed` (when an account's password
was really set) and `seen` (what `changed` was when a reset was checked) are
history.

**Purchases** is `verify_subscription_purchase` and `restore_...`, a step for
each query and each call: the user is loaded when the request is authenticated,
in a thread (`Authenticate`); the handler itself is a coroutine that never
awaits, so one worker process runs one handler at a time (`Begin`), and
`oneWorker` says whether there is one. `Flushed` is the flush: a column is
written when it differs from the image, so a row can be mixed from several
requests. What Google knows of a purchase is `play`.

**MentorReviews** is `generate_daily_review` in five steps: `ReadCount`,
`ReadLast`, `Lookup`, `LoadTrades`, and after the model was awaited `Save`. Ids
and time stamps of trades are drawn before their commit, so trades become
visible in any order. A summary is the set of trades it was computed from.
`Overwritten` is the column-wise update, the response one JSON column; two answers
of the model to one summary may be `alike` or differ. `Legacy`
is a row of an older version. `overlap` is history: a review was saved while
another was in the making.

**PriceCaches** has the three caches of market data. A request looks under the
lock, asks the provider without it (`Fetch`) and stores under the lock again;
data is told apart by the time the provider was asked. The caches share no
state, so each behaviour asks one of them (`load`). A list of indexes lacks those
whose answer was refused or an error (`Listings`) and is stored as fresh all the
same. `index.ok` is history: whether the last fetch ended without an exception.

**MentorAdvice** is pure: `calculate_metrics` (rounded as the code rounds), the
nine rules, the merging of related insights, the health score with its sub-scores,
weights and penalties, the grade and the focus. **TradeHistory** feeds it: an
account as in the Ledger whose orders fill at once (`Fill`, `Reset`), the lots
of `fifo.py` (`MatchLot` is one turn of its inner loop, `ProcessTrade` of the
outer), campaigns, and the replay of `performance/service.py` (`StateAt`,
`ValueAt`, `History`). Candles are functions from minutes to closes; a symbol may
have any of the sets of minutes in `Stamps`, the empty one included, whatever its
trades. A symbol without a live price counts at its average (`LivePrice`). The
loops are `Through`, a recursive function over the sequence. `wiped`, `resetAt`
and `books` are history: what a reset took from the ledger that the trades still
tell, how many trades there were at the last one, and what the rows came to after
each trade.

**ChartPages** is a chart that shows the newest candles and asks, while
`has_more` is true, for those before its oldest. One unit of time is one bar, and
multipliers are in tenths (6.0 for intraday bars, 1.6 for daily ones).
Each attempt of `_fetch_page` is a step, with its window (`ComputeWindow`), the
provider's answer, which may have a row too many at either end (`History`), the
page cut from it and `HasMore`. The clock moves meanwhile, and with it
`EarliestAllowed`; a call may fail (`FetchFails`).

How they interact: the ledger's trades are what is `committed` in MentorReviews
and the `trades` of TradeHistory, whose account implements `Ledger`
(`HistoryImplementsLedger`); an upgrade in Purchases is `Upgrade` in Ledger and
TradeSessions; a deletion is one step in Accounts and Purchases and is taken
apart in AccountDeletion; a price in the ledger is any member of `Prices`,
whatever PriceCaches served.

## 3. Runs

| Run | Question | Answer |
|---|---|---|
| `ledger_day` | Do all paths of one account, over two trading days, keep reservations, cash, shares, cost and history consistent, and the free-tier cap? | yes |
| `sessions_locked` | Are the row locks of cancel and reset enough for those two to interleave, and does the rest, run alone, implement `Ledger`? | yes (`ImplementsLedger`), and no circle of waits |
| `sessions_live` | Two execution jobs, the sweep, limit orders, cancels and resets interleave, with a fault: one fill per order, no cancel of a settled one, each PENDING order settled in the end? | yes |
| `deletion` | Does a deletion take everything, in one piece, stay out of circles of waits, and end? | yes, but for placements and resets under way |
| `accounts` | Who can be signed in, what can Google be linked to, which reset links count? | only proven owners, verified accounts, links not used before the request came |
| `purchases` | Who owns a purchase, and what does PRO stand for? | one account (one process); a paid, acknowledged purchase |
| `reviews` | What may a cached review miss? | nothing, unless two reviews were made at once; never a fallback |
| `caches` | How old is a hit, how large the frame cache? | younger than the TTL; bounded |
| `history` | Do lots, campaigns and curve agree with the ledger, past and present, and with the meaning of FIFO; is revenge trading found? | yes, where no reset took something |
| `chart` | Do the pages join, miss nothing and end? | yes, for calendars whose trading periods fill the widest window |
| `stale_scheduler` | Is a settled order never acted on again? | **violated** |
| `double_spending` | Does the log explain the account after two market orders at once? | **violated** |

### What the violations show

The last two runs are disagreements between the code and what its comments or
docs say (`findings` in `PROJECT.json` quotes the lines):

* `stale_scheduler`: tick loads order 1; the user cancels it (commit, cash
  released); the tick locks order 1, still sees its loaded PENDING image, and
  fills it, releasing the reservation a second time.
* `double_spending`: two sessions read the same portfolio row, the later commit
  overwrites the earlier one's balance.

Three more configurations of `MCSessions` are kept beside the listed runs. Each
finds that an invariant which holds for handlers run one at a time does not
survive parallel requests:

* `LostReservation.cfg` (`ReservedCashBacked`): two limit orders read one
  portfolio row; the later commit loses the earlier reservation.
* `ResetRace.cfg` (`WipeFindsNothingPending`): the limit order read its
  portfolio before the reset listed the pending ids and commits before the wipe.
* `BuyCapRace.cfg` (`FreeBuyCap`): both requests count before either inserts.

`FilledAtMostOnce` and `CancelOnlyPending` hold in spite of the stale image: it
can turn a CANCELLED order into an EXECUTED one, but only the execution job
fills and its advisory lock keeps it single, and `cancel_order` always reads its
order fresh, under the lock.

### Properties with an exception

Some properties name the circumstance under which the code does not keep them.
Each exception is a behaviour TLC finds when it is dropped.

| Property | Exception | Why |
|---|---|---|
| `NothingOutlivesUser` | a placement or reset at work in the behaviour | one authenticated before the deletion commits after it, and no foreign key stops its rows; reviews never stay |
| `DeletionOutOfCircles` | a placement at work in the behaviour | a placement updates the portfolio and the holding without an order of its own that the deletion would have to take first |
| `LinkChangesOnce` | two requests checked before either writes; `Tolerance` | the check reads the row and the write does not look again; time stamps are compared to within five seconds |
| `TokenOwnedOnce` | several worker processes | both look before either writes |
| `HitIsCurrent` | `overlap` | the review begun first may save last, and leave its coaching under the other's key |
| `HitsAreFresh` | indexes while the provider fails | `fetch_market_indexes` answers with the old list, which is stamped anew |
| `FreshLinkUnspent` | accounts without a password | `forgot_password` takes the missing time stamp for now, `reset_password` for 0 |
| `OpenMatchesHoldings`, `PnlAgrees`, `CurveIsTheLedgersPast` | `wiped` | the readers start from the first trade ever, the ledger from the last reset |
| `CurveIsTheLedgersPast`, its last point | trades after the last candle, and closes that are not the live prices (`UpToDate`) | a trade after a stamp is left to the next one, and a symbol without candles counts for nothing |
| `HistoryIsComplete` | calendars whose trading periods do not fill the widest window (`MCCalendars`) | a short page of the widest window is taken for the end |

### Bounds

Every bound is a constant that a guard names. Where they are reached the models
stop, hence `CHECK_DEADLOCK FALSE` in `AccountDeletion` (all deleted, nothing
more to insert), `Accounts`, `Purchases`, `PriceCaches`, `TradeHistory` and
`ChartPages` (clock, rows or trades used up, chart complete) and the violation
runs. `ledger_day`, `sessions_locked`, `sessions_live` and `reviews` check for
deadlock; `sessions_locked` also states the absence of a circle of waits as
`SomeoneProceeds`.

* **Ledger and sessions.** One user and one symbol suffice for the races, which
  are all on the rows of one account; the proofs cover any number of both.
  `InitialBalance` is scaled down with the prices so that cash runs out. Three
  orders (`ledger_day`, `sessions_locked`), so that one can collide with two
  others; two days, so that an order can outlive its day; two orders where
  everything interleaves, enough for each pair of handlers. Two prices within
  each other's 10 % band give limits that fill at once and limits that wait, in
  `ledger_day` chosen so that every average is exact. Batch sizes of 1 and 2
  make full batches happen.
* **Deletion.** A deletion with a tick and a cancel, review or reset, a cancel and a
  reset, a placement and a cancel or reset; or two with a tick, or with a cancel
  and a review. An account with two pending orders of one symbol, so that one can
  be filled while the other is cancelled, and one row in each other table, or none;
  another user's order in the batch; one round of insertions, so that rows can come
  between two DELETEs.
* **Accounts.** One address and two Google ids, since what is at stake is who
  gets the address; two accounts, so that it can be made again after a deletion;
  links that live two units, on a clock that runs for three; a tolerance of one.
  Requests, passwords and Google ids are symmetric.
* **Purchases.** Two accounts, one purchase, two requests, both deployments;
  a purchase may expire and be renewed within the clock.
* **Reviews.** Two trades are the least that can overtake each other, two
  requests the least that can overlap; two rows show first inserts that race.
* **Caches.** Two requests; two quote keys, so that the sweep meets others'
  entries; three frame keys against a bound of two; a TTL of 2 and a provider
  that takes up to 2, so that an answer can be as old as its entry's life.
* **History.** All logs of four trades of two symbols with two quantities and
  two prices, ten minutes apart, so that two trades are within a quarter of an hour
  and three are not: partial fills over several lots, positions sold out and bought
  again, profit and loss. Candles of a symbol: none, one in the minute of a trade, or
  two, before the first trade and between the third and the fourth.
* **Chart.** Every calendar of twelve bars that has two in each eight once it has
  begun, and so pauses of up to six bars, longer than the first window is wide;
  pages of two and, asked for five, of four, so that full and short pages come at
  window edges; a multiplier of 1.1 that doubles twice; with a lookback of six bars
  and without one.

### Fairness

`TradeSessions!Fairness`: threads and connections of a running process make
progress (weak fairness of `Proceed` for each session); the market closes; the
expiry job, started by cron after the close on each trading day, is run while
there is something to expire. No fairness is assumed of users, of the execution
job or of the clock's next day. Faults are bounded: an order whose expiry fails
each time would stay PENDING.

`AccountDeletion!Fairness`: a statement that does not wait is executed, and a
request that has begun goes on; nobody has to begin one. PostgreSQL queues those
that wait for a row lock, so requests that can be passed over again and again
get strong fairness, a fill or placement for each of the two rows its flush may have
to wait for; circles are broken by the deadlock detector.

`ChartPages!Spec`: the client asks while there is more and a call that does not
fail returns; both weakly fair.

## 4. Proofs

TLC checks small instances; the following are proved for every value of the
constants: any users, symbols, prices, orders, requests, workers, deletions,
accounts, purchases, keys, calendars and bounds. The assumptions are the named
`ASSUME`s of the modules, which say no more than that numbers are natural and
empty values are no values; the one with content is that prices and quantities
are positive (the schemas say `gt=0`). A theorem that needs more states it as a
hypothesis, and each hypothesis is met by a run or is an exception of section 3:

| Hypothesis | Of | Why it is needed |
|---|---|---|
| `Overlapping \subseteq Benign` | the theorems on sessions that refine or carry over `Ledger` | with more overlap the code breaks them: `double_spending`, `stale_scheduler` and the configurations beside them |
| `[][AveragesExact]_vars`, `Symbols` finite | `InvestedIsTheCost` | whole numbers stand for floats; `LedgerDay.cfg` has only exact averages |
| `WindowsHoldPages` | `NoMoreMeansAll` | a short page of the widest window is taken for the end; who meets it is said under "Charts" |

### Ledger

| Theorem | Says |
|---|---|
| `LedgerInvariant` | `Spec => []LedgerInv` |
| `TypeCorrect` | `Spec => []TypeOK` |
| `ReservationsBacked`, `SharesBacked` | locked cash and locked shares are exactly those of PENDING orders |
| `AccountsSolvent` | no account is overdrawn or oversold |
| `FillsNeverRefused` | a PENDING order can be filled at every price that satisfies its limit |
| `BooksBalance` | cash + locked cash + cost = initial balance + realized profit, however `avg_price` is rounded |
| `HistoryExplains` | cash and shares are what the executed orders since the last reset make them |
| `BuyCapKept` | the free-tier cap holds for requests run one at a time |
| `SettledOrdersFinal` | `Spec => TerminalStatusFinal` |
| `InvestedIsTheCost` | `invested_amount` is the cost of the holdings, as long as averages are exact |

**The inductive invariant** is `LedgerInv`: `TypeOK`, `OrdersWellFormed`,
`ReservedCashBacked`, `ReservedSharesBacked`, `Solvent`. None of the last three
is inductive alone. A cancel takes from `reserved_balance` what the order's row
says it locked. That the result is still the sum of the others needs the order's
fields to agree with each other (`OrdersWellFormed`: a LIMIT order's
`reserved_amount` is limit times quantity for a BUY and 0 for a SELL, and a
MARKET order is never PENDING). That it does not go negative needs that one
order locks no more than all of them (`TotalBounds`).

**The argument.** `Total` (module `Totals`) is the sum of a function, defined as
the number of its "units" so that it can be reasoned about with the library's
theorems on finite sets; its lemmas say that it is a natural number, is
zero for a zero function, grows by the value of a new element, changes by the
difference of one changed value and bounds each value. `ReserveFundsFacts` to
`FillHoldingFacts` say field by field what a reservation, a release and a fill
do, and few later proofs look inside those operators. Both are lifted to the
orders table (`AppendLocks`, `SettleLocks`) and to an account (`AccountStep`); there is one lemma
for each kind of step (`PlaceMarketStep`, `PlaceLimitStep`, `ReleaseStep` for
cancel, reject and expire, `ExecuteStep`, `ResetStep`, `TablesUnchanged`), and
`LedgerStep` combines them, one case per action.

What follows uses the invariant. `FillsNeverRefused`: cash locked at the
limit pays for a fill at or below it, and shares locked by a SELL are held.
`BooksBalance`: `AccountingIdentity` is inductive beside `LedgerInv`, because
each of the three effects keeps `Worth` (available + reserved + invested -
realized). `SettledOrdersFinal`: every step appends an order, replaces a
PENDING one, or leaves the table alone (`OrdersStep`).

`HistoryExplains` needs more than its statement. The history is a sum over the
orders after the user's reset mark, so a settlement is in it only if its order
comes after the mark: `HistoryInv` adds that the mark is never beyond the table
and that PENDING orders come after their user's mark, and it states the history
in net terms (`CashNet`, `SharesNet`: bought and sold in one sum), since the
difference of two sums is not what a single entry changes. `OneEntry` says what
one new or settled order adds to such a sum. `BuyCapKept`: `FreeBuyCap` is
inductive beside `LedgerInv`; an appended order is the only one that can add to
the set that is counted, and the guard has just counted it (`CapPlace`); settling
an order replaces it by one that counts no more (`CapReplace`).

`InvestedIsTheCost`: `invested_amount` is kept up by deltas, the cost of a holding
is its quantity times its average. A sale changes both alike whatever the average
is, also where it sells out and the average is set to 0; a purchase does so when
its average is exact (`FillCost`); a reservation or release changes neither
(`MoveCost`).

### Sessions

`SessionsTheorems` has two invariants of `TradeSessions`, and the refinement.

**Any interleaving.** `SessionsInvariant`: `Spec => []SessionsInv`, for every
choice of what may overlap. Its parts: `Typed` tables and images; `SessionOK`,
what a session carries at each statement; `LocksExclude`, that an order's row
lock and the advisory lock of the execution job have one holder;
`FilledIsSettled`, that an order that was filled is not PENDING and no tick has it
before it; `CancelsArePending`, that a cancel which holds its order has seen it
PENDING under the lock; `AccountsExist`, that orders belong to accounts with a
portfolio row. Neither promise below is inductive without them: an executor fills
the order it *read*, and that nobody else has filled it since stands on the
advisory lock and on the batch it took.
From it follow `FilledOnce` and `CancelsOnlyPending`.

**Serial.** When only cancels and resets overlap, beside the clock and upgrades
(`Overlapping \subseteq Benign`; the run `sessions_locked` is such an instance),
`SerialInvariant`: `Spec => []SerialInv`. It adds `Alone` (two sessions under way
are both benign), `OneRow` (a user has one row per symbol, though nothing in the
schema says so), `RowsFromFills`, `OrdersBacked` (a PENDING SELL has the row it
locks shares of), and for each session `SerialOK`: the images it will write from
are the rows as they are (for a reset, as they are or wiped already by another),
and what its commit will do is enabled in the serial ledger now. From it follow `OneRowEach` and
`SessionsImplementLedger`: every commit is an operation of `Ledger` on the views
(`CommitImplements` for fills and placements, `ReleaseImplements` for cancel,
reject and expire, `WipeImplements`, `WorldImplements`) and every other statement,
fault or refusal is a stutter.

**Carried over.** `Proved` is `LedgerTheorems` instantiated at the same views as
`Serial`, so what is proved of the ledger holds of the sessions under the same
condition: `SessionsKeepReservations`, `SessionsKeepShares`,
`SessionsExplainHistory`, `SessionsKeepBuyCap`, `SessionsKeepBooks`,
`SessionsStaySolvent`, `SessionsNeverRefuseFills`, `SessionsSettleOnce`. The
prover takes the two instances for different operators; the lemmas `Same...` say
one by one that they are equal. `WipesFindNothingPending` follows from the
refinement directly: a step that moves a reset mark is the serial reset. These
are the very properties that fail when placements or executors overlap too, so
together with the violations of section 3 they say where the line is.

### Deletion

`DeletionInvariant`: `Spec => []DeletionInv`. For each session, `Engaged` and
`Locked` say which tables its locks can be in where it is, `There` that a row it
holds still exists, `Swept` that a deletion nobody inserts beside holds every row
of the tables its statements have been through; `Exclusive` says that no row is
held twice. `NothingOutlivesUser` is part of it: the last DELETE leaves nothing
because of `Swept`, and later requests find no user (`DeletedForGood`).
`ErasedInOneTransaction` is `ErasedTogether` from it.

`DeletionNeedsNoVictim` is about any set of sessions, however large, that wait for
one another while nobody places an order. There are such sets: a fill updates the
holding before the portfolio, a cancel of another order of the user and symbol locks
them the other way round, and so do a reset and a cancel. The theorem says that those of
the set who are at work on these rows (`Working`: a fill, a cancel or expiry, a
wipe) wait for one another without the deletions (`CirclesOfWorkers`), so the
database can break every circle without aborting a deletion. Whoever is at work waits
for somebody at work (`WorkersWaitForWorkers`): a deletion that held its row and was
waiting itself would be at the portfolios and hold the holdings, hence all the orders
before them (`FillsBefore`), and a fill or cancel holds an order. And somebody at work there
is: a deletion that waits for a deletion waits for one that is further in the
sequence (`Holder`), and some deletion of the set is furthest (`LeastOne`, by
well-foundedness).

### Charts

`ChartInvariant`: `Gapless` (from the oldest candle shown on, none the provider
keeps is missing) and `Asking` (a call under way asks for candles before the
oldest shown, with the multiplier of its attempt). A page is the *tail* of what its
window holds (`PageIsTail`), so a page that was cut short or filled from a wider
window still joins: `PagesAlwaysJoin`.

`NoMoreMeansAll` is about the answer "no more": it is given after a short page of a
window cut at the lookback or of the widest one. Its hypothesis `WindowsHoldPages`
is that the widest window has room for as many periods as together have a page of
trades (`HoldsPage`), where `Busy` says how many bars every period has. A period
includes its pauses, so nights and weekends do not matter as such: with five-minute
bars and 300 candles the window is 7200 bars wide, three weeks of 2016 bars with
up to 375 candles in each; with daily bars, whose multiplier is 1.6, it is 1920 days
wide. It is not met by charts that ask for few intraday candles, fewer than about
35 of five minutes: their widest window is shorter than a weekend, and they end
there.
`PeriodsHold` counts the candles of so many periods, by the least number for which
the claim would fail; `WideEnough` carries it over to the window.

### Accounts

`AccountsInvariant`: `Spec => []AccountsInv`; from it `SignInsProven`,
`LinksAreVerified`, `FreshLinksUnspent`, and, as an action property,
`LinksChangeOnce`. The invariant has a part for each way it could break:

* `RowOK`: verified means proven, linked means verified, signed in means
  verified. A link to Google writes a row that was read earlier, so this needs
* `SessionOK`: a request half way through a link still finds the row it read,
  verified, or none. Ids are never given twice (`i <= lastId`), which is why a
  row deleted and made again meanwhile is not the one that is linked, and
* `Unique`: an address has one row, so a link mailed to it speaks of that row.
* `StampOK`: an account's time stamp is that of its last change, and a Google
  account has none.
* `LinkOK`: a reset link carries a time not after its own, and exactly the time
  of the last change while there was none since; a signup after a deletion
  counts as a change. `FreshLinksUnspent` is `LinkOK` with `Unspent`.
* `AttemptOK`: a request that is about to change a password found no change since its
  link was mailed, but for the tolerance. That holds at the check by `StampOK` with
  `Unspent` and speaks of what the request saw then, so that it still holds at the
  write: `LinksChangeOnce`.

### Purchases

`PurchasesInvariant`, and from it `ProIsPaid` and `ProIsAcknowledged`: a row that
has a purchase has one that was vouched for and confirmed (`RowOK`). A write may
leave the purchase column alone, when it equals the image's, while setting the
subscription: that is harmless only because a row never loses a purchase that an
image of it has, and an image that is PRO has one (`SessionOK`).
`PurchaseHasOneOwner` adds `OwnedInv` under `oneWorker`: handlers exclude each
other, and a handler that has looked at the owner (`Cleared`) is still right when
it writes, because meanwhile only deletions happen and nobody gets a purchase
by a deletion (`LinksOnlyGo`).

### What is read out of the trades

`MentorTheorems` proves of TradeHistory what relates a loop over the whole log to
rows that were kept up trade by trade. `HistoryImplementsLedger`: under a mapping
that makes an executed MARKET order of each trade, `Fill` is `PlaceMarket` and
`Reset` is `ResetPortfolio` of a `Ledger` with one user, so `Books`, the theorems
of Ledger under this mapping, hold here.

**Loops.** A loop is the recursive function under `Through`; `Recursion` shows that
it exists (by well-foundedness, not by an induction theorem with an operator
parameter) and for each loop a lemma `...Runs` says that it is a run and `...Append`
that one more element is one more turn. An induction along a run is `Upwards`, over
the set of the turns for which the claim holds. Sums over sequences are
`SummedAppend`, `PrefixGrows`, `QueueSums` and `ChunkSums`.

**Lots.** `LotsAreHoldings` rests on `LotsCoverHoldings`: the open lots cover the
shares held, also after a reset, and are exactly those as long as no reset took
shares. A sale is of shares that are held, so it finds all of them in the lots
and nothing is ever left unmatched. One sale is `MatchSaleSums`: what it takes from the lots, in
quantity and in cost, is what its chunks carry. `ProfitsAgree` adds `CashFollowsTrades`,
that the chunks' sales less their cost less the cost of open lots is what the cash
has changed by since the start, and `Books!BooksBalance`.

**Matching.** `MatchingIsOverlap` numbers the shares bought and the shares sold of a
symbol through, each trade an interval (`Numbered`). The invariant is
`MatchingFollows`: the queue begins at the number of shares sold and its lots
follow each other from there (`LotsFollow`), a lot that is gone ends before it, and
the chunks are the overlaps so far (`ChunksFollow`). A purchase is a lot at the end
(`BuyFollows`). A sale moves the beginning of the queue by its quantity (`Shift`),
what it takes of a lot is what the lot loses (`SaleTakes`), and what is left of a
lot is what is unsold of its interval (`LeftIsUnsold`), so the overlap is the
difference of the two (`UnsoldDiffers`). That no sale falls short is
`LotsCoverHoldings`.

**Campaigns.** `CampaignsFollowHoldings` adds `CyclesFollow`: the next chunk was bought
before the last one was sold just if shares were held at all times between their
sales (`ChunksInCycles`), and the same is so beforehand of the lot that is next to
be sold from (`QueueInCycle`). Chunks of one sale are together; the first of them is of the
first lot (`SaleChunks`). While no sale comes, a queue that was empty begins anew
after a time with nothing, and one that was not goes on (`QueueLater`), because what
is held is what the lots have (`HeldIsOpen`). `CampaignsOfChunks` carries this over
to the grouping, which compares with the last chunk only.

**Curve.** `CurveIsTheLedger`: `ReplayFollows` says that replaying the trades up to
any minute after the last of them gives the cash and the quantities of the ledger, as
long as nothing was wiped. `BooksFollow` keeps this for each number of trades, since a
trade that comes later does not change what the earlier ones replay to: the state at
any minute is the page of `books` for the trades made by then, whichever stamps the
curve has. Its last point is the net worth when every trade was made by then and the
last closes are the live prices (`UpToDate`).

### Caches and reviews

`CachesInvariant`: an entry's data is at least as young as its stamp, because
the stamp is taken before the provider is asked (`SessionOK` carries that through
the call); then `CachesServeFreshData`. `FrameCacheBounded`: an entry is dropped
when the cache is full, so the one that comes fits (`Evicted` takes an entry
since, by well-foundedness, some stamp is least).

`ReviewsInvariant`: `Counted` says that a number of trades is the size of some
earlier state of the log, and that all such states are in one line by inclusion:
therefore two requests that counted the same number saw the same trades, which is
what the cache key stands on although commits overtake one another. A row
coaches on at least the trades it counted (`RowsOK`), and under `~overlap` a
review in the making knows the row as it is (`MakingOK`). From it
`CachedReviewsCurrent`. `FallbackNeverServedAgain` needs only `SourcesOK`, which
holds with overlaps too, because the coaching and its source are one column.

### Only model-checked

* `SomeoneProceeds` speaks of ENABLED; `PendingEventuallySettles`, `DeletionEnds`
  and `HistoryEnds` are liveness under fairness. The prover handles neither.
* What sessions keep when placements, executors or expiries overlap, beyond
  `FilledOnce` and `CancelsOnlyPending`: much of it is false (section 3).

## 5. Not modelled, and what the models show besides

Left out:

* **Floating point.** Money is `Float` in the tables. The models are exact, so
  rounding of cash and drift of `invested_amount` are outside them; the metrics
  of `MentorAdvice` are rounded as the code rounds them.
* **Read-only endpoints**: lists and their paging, profiles, stock search,
  response schemas, change figures and best and worst stock of the performance
  page, and the series it shows when there are no candles.
* **Trade reviews** of the mentor (nothing is stored), `mark_reviews_stale` (it
  has no caller), prompts, coaching texts, confidence and order of insights.
* **Locks inside one step.** Portfolio and holding locks are taken and released
  within one step of `TradeSessions`, so its `SomeoneProceeds` is about order locks
  and the wipe. `AccountDeletion` has the locks of fills, placements, cancels,
  expiries and resets one by one.
* **APScheduler** (misfire, start, stop), uvicorn, CORS, alembic, the HTTP and
  SMTP clients: wiring or pure I/O. Of the language model its callers see an
  answer, a refused answer or an error (`MentorReviews!Answers`).
* Hazards without a property say why in `PROJECT.json`. Placements in parallel and
  indexes of a provider that fails are in the models and do go wrong there. For the
  market status that is tested before a slow price fetch, and for orders no price
  fills, which may keep others out of the execution batch, no document says what is
  promised.

Noticed while modelling; no run refutes a promise with these:

* A tick that meets an order deleted with its account raises again in its except
  clause, which logs `order.id`, and ends (`TickVisit`, second case).
* A placement or reset that outlives the deletion of its account leaves rows of
  nobody (`NothingOutlivesUser`).
* An account whose verification mail fails exists, cannot be verified and keeps
  its address (`SignupWrite`).
* The first reset link of an account made with Google is refused as used. The
  reset mail says 15 minutes and the token lives 10.
* With two worker processes a purchase can be linked to two accounts; purchase
  and expiry of one row may come from two requests; nothing reads the expiry, so
  PRO does not end.
* Indexes are served as fresh for as long as the provider fails, and a list that
  lacks some because their answers were refused or errors is served as fresh too.
* A fill and a cancel or expiry of two orders of one user and symbol can wait for each
  other in a circle: `execute_order` flushes the holding before the portfolio,
  `_lock_portfolio_and_holding` takes them the other way round
  (`order_service.py:255-270`). The database aborts one; a fill is tried again by
  the next tick.
* Two requests with one reset link, both checked before either writes, both change
  the password (`LinkChangesOnce`).
* A review that is overtaken by a later one can be kept under the later key.
* After a reset, lots, profits and the equity curve of mentor and performance
  still tell the trades before it. The drawdown takes today's worth for the
  capital at the start.
* `docs/AI_MENTOR_ARCHITECTURE.md:573` divides by the total invested value in the
  concentration index, `mentor/analytics.py:230` by the whole portfolio with its cash
  (`PortfolioHhi`): two equal positions of 10 % each have an index of 5000 there and
  of 200 here.
* A chart ends where a symbol did not trade for longer than the widest window, which
  for few intraday candles a page is shorter than a weekend.

## 6. Plan

Done: every component with state of its own, and the proofs of section 4. What
would come next:

1. **A wider serial condition**: which further overlaps (an expiry beside cancels)
   keep `SerialInv`.
2. **TradeSessions with its locks one by one**, as in `AccountDeletion`, so that
   the opposite order of a fill or wipe and of a release appears in the composed
   model.
3. **The execution batch**: a promise about which pending orders a tick must
   reach, once there is one to hold the code to.
