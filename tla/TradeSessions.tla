---------------------------- MODULE TradeSessions ----------------------------
(***************************************************************************)
(* The handlers of the trading ledger as the database sees them: sessions  *)
(* that run statement by statement and interleave.  FastAPI runs each      *)
(* request in a thread of its pool and APScheduler each job in another,    *)
(* all against PostgreSQL at READ COMMITTED through SQLAlchemy.            *)
(*                                                                         *)
(* What the database layer does, and the model keeps:                      *)
(*   - a plain query reads the last committed row into the session's       *)
(*     identity map; a commit or a rollback drops what was read;           *)
(*   - a query FOR UPDATE waits for the row lock, but does not refresh an  *)
(*     object the session has already loaded;                              *)
(*   - a flush writes the columns whose value differs from the value read, *)
(*     as absolute values, and fails when the row is gone.                 *)
(*                                                                         *)
(* A step is one query or one commit with the flush before it: between the *)
(* flush and the commit the written rows are locked, so nobody sees the    *)
(* difference.  A lock kept by a job on an order that is already settled   *)
(* is dropped at once: it delays others and changes nothing.               *)
(***************************************************************************)
EXTENDS Account, Sequences, FiniteSets, FiniteSetsExt, Functions

CONSTANTS
  Users, Symbols, Prices, Quantities, InitialBalance, BuyCap, MaxOrders,
  LastDay,               \* as in Ledger
  Requests,              \* request threads
  Executors, Expirers,   \* workers that run the two scheduler jobs
  ExecutionBatch,        \* EXECUTION_BATCH_SIZE
  ExpiryBatch,           \* EXPIRY_BATCH_SIZE
  Offered,               \* bound: the kinds of step this instance takes
  Overlapping,           \* bound: the kinds that may run beside one another
  MaxFaults              \* bound: aborted transactions and lost workers

Placements == {"trade", "MARKET", "LIMIT"}
JobKinds   == {"execute", "expire"}
Kinds      == Placements \cup JobKinds \cup {"cancel", "reset"}

ASSUME LedgerAssumption ==
  /\ Prices \subseteq Nat \ {0} /\ Quantities \subseteq Nat \ {0}
  /\ InitialBalance \in Nat /\ BuyCap \in Nat
  /\ MaxOrders \in Nat /\ LastDay \in Nat
ASSUME BatchAssumption == ExecutionBatch \in Nat \ {0} /\ ExpiryBatch \in Nat \ {0}
ASSUME KindsAssumption ==
  /\ Offered \subseteq Kinds \cup {"clock", "upgrade"}
  /\ Overlapping \subseteq Offered
ASSUME FaultsAssumption == MaxFaults \in Nat

VARIABLES
  portfolio,     \* [Users -> Portfolio row or NoRow]
  rows,          \* the holdings table, by row id
  orders, subscription, day, market, resetAt,   \* as in Ledger
  trades,        \* [order id -> Trade rows its fills inserted]
  sess,          \* what each session is doing
  faults

tables == <<portfolio, rows, orders, trades, resetAt>>
clock  == <<day, market>>
vars   == <<tables, subscription, clock, sess, faults>>

NoRow   == [none |-> TRUE]
NoOrder == [none |-> TRUE]

Sessions == Requests \cup Executors \cup Expirers

\* Rows of holdings are looked up by user and symbol; nothing makes the pair
\* unique, so there may be several.
RowsOf(u, s) == {r \in DOMAIN rows : rows[r].user_id = u /\ rows[r].symbol = s}

\* .first() without ORDER BY: any one of the rows, or none; 0 is None.
FirstRow(u, s) == IF RowsOf(u, s) = {} THEN {0} ELSE RowsOf(u, s)

HoldingAt(r) == IF r \in DOMAIN rows THEN rows[r].h ELSE EmptyHolding

\* The serial ledger these sessions implement when they do not collide.
PortfolioView ==
  [u \in Users |-> IF portfolio[u] = NoRow THEN FreshPortfolio(InitialBalance)
                                           ELSE portfolio[u]]

HoldingView ==
  [u \in Users |-> [s \in Symbols |-> HoldingAt(CHOOSE r \in FirstRow(u, s) : TRUE)]]

Serial == INSTANCE Ledger WITH portfolio <- PortfolioView, holding <- HoldingView

-----------------------------------------------------------------------------
(* Sessions. *)

\* What a session knows.  id: the order it locked, 0 for one it is placing; o:
\* that order; quote: live prices; pf, row, h: images of the portfolio row and
\* of the holding row it found; todo: ids still to visit; loaded: those whose
\* image is still the batch query's; doomed: holding rows a reset has deleted.
Idle ==
  [pc |-> "idle", kind |-> "none", user |-> "none", id |-> 0, o |-> NoOrder,
   quote |-> <<>>, pf |-> NoRow, row |-> 0, h |-> EmptyHolding,
   todo |-> {}, loaded |-> {}, full |-> FALSE, doomed |-> {}]

Active == {x \in Sessions : sess[x].pc # "idle"}

\* The bound on interleaving: kind may start beside what is running.
MayStart(kind) ==
  /\ kind \in Offered
  /\ Active = {} \/ {kind} \cup {sess[x].kind : x \in Active} \subseteq Overlapping

Goto(x, record) == sess' = [sess EXCEPT ![x] = record]

\* Mutant of Continued: the transaction of one cancel stays open into the next,
\* and keeps its row lock.
ContinuedLocked(x) ==
  IF sess[x].kind \in JobKinds \cup {"reset"}
  THEN [sess[x] EXCEPT !.pc = "next", !.loaded = {}]
  ELSE Idle

\* Where session x goes when its transaction is over: a job turns to its next
\* order and a reset to its next cancel, every loaded object expired.
Continued(x) ==
  IF sess[x].kind \in JobKinds \cup {"reset"}
  THEN [Idle EXCEPT !.pc = "next", !.kind = sess[x].kind, !.user = sess[x].user,
                    !.quote = sess[x].quote, !.todo = sess[x].todo,
                    !.full = sess[x].full]
  ELSE Idle

\* Where an exception leads: a job catches it and goes on, a request ends.
Aborted(x) == IF sess[x].kind \in JobKinds THEN Continued(x) ELSE Idle

LockedByOther(x, i) == \E y \in Sessions \ {x} : sess[y].id = i

\* A row another session has deleted but not committed blocks its writers.
DoomedByOther(x, r) == \E y \in Sessions \ {x} : r \in sess[y].doomed

\* The UPDATE of a flush: only columns that differ from what was read.
Merge(current, read, new) ==
  [c \in DOMAIN current |-> IF new[c] # read[c] THEN new[c] ELSE current[c]]

\* A flush of `mid` and then, in the same transaction, of `new`.
MergeTwice(current, read, mid, new) == Merge(Merge(current, read, mid), mid, new)

Init ==
  /\ portfolio = [u \in Users |-> NoRow]
  /\ rows = <<>>
  /\ orders = <<>>
  /\ trades = [i \in 1..MaxOrders |-> 0]
  /\ subscription = [u \in Users |-> "FREE"]
  /\ day = 1 /\ market = "OPEN"
  /\ resetAt = [u \in Users |-> 0]
  /\ sess = [x \in Sessions |-> Idle]
  /\ faults = 0

-----------------------------------------------------------------------------
(* Placing and filling: create_trade, create_order and the fill of          *)
(* execute_pending_order share the reads and the commit below.              *)

\* A request passes every check that needs no ledger row.  The legacy trade
\* counts its BUY orders later, inside execute_order.
Check(x, kind, u, s, t, q, l, p) ==
  /\ sess[x].pc = "idle" /\ MayStart(kind)
  /\ market = "OPEN"
  /\ Len(orders) < MaxOrders
  /\ kind # "trade" => Serial!UnderBuyCap(u, t)
  /\ IF kind = "LIMIT" THEN WithinBand(l, p) ELSE l = p
  /\ Goto(x, [Idle EXCEPT
         !.pc = "portfolio", !.kind = kind, !.quote = [z \in Symbols |-> p],
         !.o = IF kind = "LIMIT" THEN Serial!LimitOrder(u, s, t, q, l)
                                 ELSE Serial!MarketOrder(u, s, t, q, p)])
  /\ UNCHANGED <<tables, subscription, clock, faults>>

ReadPortfolio(x) ==
  /\ sess[x].pc = "portfolio"
  /\ Goto(x, [sess[x] EXCEPT !.pf = portfolio[sess[x].o.user_id], !.pc = "holding"])
  /\ UNCHANGED <<tables, subscription, clock, faults>>

BuyCapPassed(s) ==
  s.kind = "trade" => Serial!UnderBuyCap(s.o.user_id, s.o.trade_type)

ReadHolding(x) ==
  /\ sess[x].pc = "holding"
  /\ BuyCapPassed(sess[x])
  /\ \E r \in FirstRow(sess[x].o.user_id, sess[x].o.symbol) :
       Goto(x, [sess[x] EXCEPT !.pc = "commit", !.row = r, !.h = HoldingAt(r)])
  /\ UNCHANGED <<tables, subscription, clock, faults>>

\* The rows as session s has them when it starts to compute.
ImagePortfolio(s) == IF s.pf = NoRow THEN FreshPortfolio(InitialBalance) ELSE s.pf

\* _reserve_funds and _reserve_shares, for a LIMIT order being placed.
ReservedPortfolio(s) ==
  IF s.kind = "LIMIT" THEN ReserveFunds(ImagePortfolio(s), s.o.reserved_amount)
                      ELSE ImagePortfolio(s)

ReservedHolding(s) ==
  IF s.kind = "LIMIT" THEN ReserveShares(s.h, s.o.trade_type, s.o.quantity) ELSE s.h

Quote(s) == s.quote[s.o.symbol]

Fills(s) ==
  s.kind = "LIMIT" => IsLimitFillable(s.o.trade_type, s.o.limit_price, Quote(s))

\* release_reservation, at the head of every fill of a LIMIT order; without a
\* holding it has no shares to give back.
ReleasedPortfolio(s) ==
  IF s.o.order_type = "LIMIT" THEN ReleaseFunds(ReservedPortfolio(s), s.o)
                              ELSE ReservedPortfolio(s)

ReleasedHolding(s) ==
  IF s.o.order_type = "LIMIT" /\ s.row # 0 THEN ReleaseShares(ReservedHolding(s), s.o)
                              ELSE ReservedHolding(s)

NewPortfolio(s) ==
  IF Fills(s) THEN FillPortfolio(ReleasedPortfolio(s), ReleasedHolding(s),
                                 s.o.trade_type, s.o.quantity, Quote(s))
              ELSE ReservedPortfolio(s)

NewHolding(s) ==
  IF Fills(s) THEN FillHolding(ReleasedHolding(s), s.o.trade_type,
                               s.o.quantity, Quote(s))
              ELSE ReservedHolding(s)

\* The tests of the handler, all made on the session's images; without a holding
\* there are no shares to reserve or to sell.
Affordable(s) ==
  /\ s.kind = "LIMIT" =>
       CanReserve(ImagePortfolio(s), s.h, s.o.trade_type, s.o.quantity, s.o.limit_price)
  /\ Fills(s) =>
       CanFill(ReleasedPortfolio(s), ReleasedHolding(s), s.o.trade_type,
               s.o.quantity, Quote(s))

\* What the database refuses: a second portfolio row for the user, an UPDATE
\* of a holding row that is gone.
Flushable(s) ==
  /\ s.pf = NoRow => portfolio[s.o.user_id] = NoRow
  /\ s.row # 0 /\ NewHolding(s) # s.h => s.row \in DOMAIN rows

\* execute_order queries the holding of a LIMIT order once more, after the flush
\* of _create_limit_order: the row of a SELL is locked by then, a row that is
\* in the identity map keeps its image, another one (or none) is taken as found.
CommitImage(s, r) ==
  IF s.kind = "LIMIT" /\ s.o.trade_type = "BUY" /\ r # s.row
  THEN [s EXCEPT !.row = r, !.h = HoldingAt(r)]
  ELSE s

\* Mutant of WriteHolding: a BUY inserts a row without looking for one.
WriteHoldingAfresh(s, id) ==
  IF NewHolding(s) = s.h THEN rows' = rows
  ELSE LET r == IF s.o.trade_type = "BUY" THEN id ELSE s.row
           row == [user_id |-> s.o.user_id, symbol |-> s.o.symbol, h |-> NewHolding(s)]
       IN rows' = [k \in DOMAIN rows \cup {r} |-> IF k = r THEN row ELSE rows[k]]

WriteHolding(s, id) ==
  IF NewHolding(s) = s.h THEN rows' = rows
  ELSE LET r == IF s.row = 0 THEN id ELSE s.row
           h == IF s.row = 0 THEN NewHolding(s)
                ELSE MergeTwice(rows[r].h, s.h, ReservedHolding(s), NewHolding(s))
           row == [user_id |-> s.o.user_id, symbol |-> s.o.symbol, h |-> h]
       IN rows' = [k \in DOMAIN rows \cup {r} |-> IF k = r THEN row ELSE rows[k]]

\* The commit at the end of execute_order or of _create_limit_order.
Commit(x) ==
  /\ sess[x].pc = "commit"
  /\ \E r \in FirstRow(sess[x].o.user_id, sess[x].o.symbol) :
       LET s == CommitImage(sess[x], r)
           u == s.o.user_id
           id == IF s.id = 0 THEN Len(orders) + 1 ELSE s.id
       IN /\ Affordable(s)
          /\ Flushable(s)
          /\ NewHolding(s) # s.h => ~DoomedByOther(x, s.row)
          /\ id <= MaxOrders
          /\ portfolio' = [portfolio EXCEPT ![u] =
               IF s.pf = NoRow THEN NewPortfolio(s)
               ELSE MergeTwice(@, s.pf, ReservedPortfolio(s), NewPortfolio(s))]
          /\ WriteHolding(s, id)
          /\ orders' =
               IF s.id # 0
               THEN [orders EXCEPT ![id] = [@ EXCEPT !.status = "EXECUTED",
                                                     !.executed_price = Quote(s)]]
               ELSE Append(orders,
                      IF Fills(s) THEN [s.o EXCEPT !.status = "EXECUTED",
                                                   !.executed_price = Quote(s)]
                                  ELSE s.o)
          /\ trades' = IF Fills(s) THEN [trades EXCEPT ![id] = @ + 1] ELSE trades
  /\ Goto(x, Continued(x))
  /\ UNCHANGED <<subscription, clock, resetAt, faults>>

\* A refused handler rolls back; the order it locked stays as it was.
Refuse(x) ==
  /\ \/ sess[x].pc = "holding" /\ ~BuyCapPassed(sess[x])
     \/ /\ sess[x].pc = "commit"
        /\ \E r \in FirstRow(sess[x].o.user_id, sess[x].o.symbol) :
             LET s == CommitImage(sess[x], r) IN ~(Affordable(s) /\ Flushable(s))
  /\ Goto(x, Aborted(x))
  /\ UNCHANGED <<tables, subscription, clock, faults>>

-----------------------------------------------------------------------------
(* Leaving PENDING without a fill: cancel_order, expire_order and           *)
(* _reject_order lock the order, then portfolio and holding, and commit.    *)

\* Mutant of LockOrder: a plain query in place of FOR UPDATE.
ReadOrder(x, i, record) ==
  /\ Goto(x, [record EXCEPT !.id = i, !.o = orders[i]])
  /\ UNCHANGED <<tables, subscription, clock, faults>>

\* The order row, FOR UPDATE.
LockOrder(x, i, record) ==
  /\ ~LockedByOther(x, i)
  /\ Goto(x, [record EXCEPT !.id = i, !.o = orders[i]])
  /\ UNCHANGED <<tables, subscription, clock, faults>>

\* A cancel of an order that is not PENDING is refused and changes nothing.
Cancel(x, i) ==
  /\ sess[x].pc = "idle" /\ MayStart("cancel")
  /\ orders[i].status = "PENDING"
  /\ LockOrder(x, i, [Idle EXCEPT !.pc = "release", !.kind = "cancel"])

StatusGiven(kind) ==
  CASE kind \in {"cancel", "reset"} -> "CANCELLED"
    [] kind = "expire"  -> "EXPIRED"
    [] kind = "execute" -> "REJECTED"

\* Both rows are read under their locks, so what is written is current; the
\* status written is the one the session's image of the order led to.
Release(x) ==
  LET o == sess[x].o
      u == o.user_id
  IN /\ sess[x].pc = "release"
     /\ \A r \in RowsOf(u, o.symbol) : ~DoomedByOther(x, r)
     /\ portfolio' = [portfolio EXCEPT ![u] = ReleaseFunds(@, o)]
     /\ \E r \in FirstRow(u, o.symbol) :
          rows' = IF r = 0 THEN rows
                  ELSE [rows EXCEPT ![r].h = ReleaseShares(@, o)]
     /\ orders' = [orders EXCEPT ![sess[x].id] =
                     [@ EXCEPT !.status = StatusGiven(sess[x].kind)]]
     /\ Goto(x, Continued(x))
     /\ UNCHANGED <<trades, resetAt, subscription, clock, faults>>

-----------------------------------------------------------------------------
(* POST /trades/reset: list the pending ids, cancel each in a transaction   *)
(* of its own, then wipe.                                                   *)

ResetList(x, u) ==
  /\ sess[x].pc = "idle" /\ MayStart("reset")
  /\ Goto(x, [Idle EXCEPT !.pc = "next", !.kind = "reset", !.user = u,
                          !.todo = Serial!PendingOf(u)])
  /\ UNCHANGED <<tables, subscription, clock, faults>>

\* cancel_order raises for an order settled since it was listed, and takes the
\* rest of the reset with it.
ResetCancel(x, i) ==
  /\ sess[x].pc = "next" /\ sess[x].kind = "reset"
  /\ i \in sess[x].todo
  /\ IF orders[i].status = "PENDING"
     THEN LockOrder(x, i, [sess[x] EXCEPT !.pc = "release", !.todo = @ \ {i}])
     ELSE /\ ~LockedByOther(x, i)
          /\ Goto(x, Aborted(x))
          /\ UNCHANGED <<tables, subscription, clock, faults>>

\* DELETE of the holdings and the query of the portfolio.
WipeDelete(x) ==
  LET mine == {r \in DOMAIN rows : rows[r].user_id = sess[x].user}
  IN /\ sess[x].pc = "next" /\ sess[x].kind = "reset"
     /\ sess[x].todo = {}
     /\ \A r \in mine : ~DoomedByOther(x, r)
     /\ Goto(x, [sess[x] EXCEPT !.pc = "wipe", !.doomed = mine,
                                !.pf = portfolio[sess[x].user]])
     /\ UNCHANGED <<tables, subscription, clock, faults>>

WipeCommit(x) ==
  LET u == sess[x].user
      fresh == FreshPortfolio(InitialBalance)
  IN /\ sess[x].pc = "wipe"
     /\ IF sess[x].pf = NoRow /\ portfolio[u] # NoRow
        THEN UNCHANGED tables     \* the INSERT fails: 500
        ELSE /\ portfolio' = [portfolio EXCEPT ![u] =
                  IF sess[x].pf = NoRow THEN fresh ELSE Merge(@, sess[x].pf, fresh)]
             /\ rows' = Restrict(rows, DOMAIN rows \ sess[x].doomed)
             /\ resetAt' = [resetAt EXCEPT ![u] = Len(orders)]
             /\ UNCHANGED <<orders, trades>>
     /\ Goto(x, Idle)
     /\ UNCHANGED <<subscription, clock, faults>>

-----------------------------------------------------------------------------
(* The scheduler jobs.                                                      *)

\* created_at ascending: the oldest n of a set of ids.
Oldest(ids, n) == {i \in ids : Cardinality({j \in ids : j < i}) < n}

PendingLimit ==
  {i \in DOMAIN orders : orders[i].status = "PENDING" /\ orders[i].order_type = "LIMIT"}

\* Mutant of Stale: compares days where the code compares times.
StaleFromEarlierDays ==
  {i \in DOMAIN orders : orders[i].status = "PENDING" /\ day > orders[i].created_day}


Stale == {i \in DOMAIN orders : orders[i].status = "PENDING" /\ Serial!Expired(orders[i])}

\* Mutant of LockFree: every worker runs its own tick.
LockNotTaken(kind) == TRUE

\* pg_try_advisory_lock: a tick is skipped while another worker runs the job.
LockFree(kind) == \A x \in Sessions : sess[x].kind # kind

\* The batch query and the price fetch.  Limits and quotes stay as they are
\* for the tick, so the orders it will skip as not fillable are left out now.
ExecuteTick(x, quote) ==
  /\ sess[x].pc = "idle" /\ MayStart("execute")
  /\ LockFree("execute")
  /\ market = "OPEN"
  /\ LET worth == {i \in Oldest(PendingLimit, ExecutionBatch) :
                     IsLimitFillable(orders[i].trade_type, orders[i].limit_price,
                                     quote[orders[i].symbol])}
     IN /\ worth # {}
        /\ Goto(x, [Idle EXCEPT !.pc = "next", !.kind = "execute", !.quote = quote,
                                !.todo = worth, !.loaded = worth])
  /\ UNCHANGED <<tables, subscription, clock, faults>>

\* The query of a batch of stale orders, the first of a sweep or the next.
ExpiryQuery(x) ==
  LET batch == Oldest(Stale, ExpiryBatch)
  IN /\ Goto(x, IF batch = {} THEN Idle
                ELSE [Idle EXCEPT !.pc = "next", !.kind = "expire",
                                  !.todo = batch, !.loaded = batch,
                                  !.full = Cardinality(batch) = ExpiryBatch])
     /\ UNCHANGED <<tables, subscription, clock, faults>>

\* The sweep runs after the close.
ExpireSweep(x) ==
  /\ sess[x].pc = "idle" /\ MayStart("expire")
  /\ LockFree("expire")
  /\ market = "CLOSED"
  /\ Stale # {}
  /\ ExpiryQuery(x)

\* After a full batch there may be more.
ExpireAgain(x) ==
  /\ sess[x].pc = "next" /\ sess[x].kind = "expire"
  /\ sess[x].todo = {} /\ sess[x].full
  /\ ExpiryQuery(x)

AtOrder(x, i) ==
  /\ sess[x].pc = "next" /\ sess[x].kind \in JobKinds
  /\ i = Min(sess[x].todo)

\* After a commit or a rollback the job's first use of the next order loads
\* it again; one found settled is passed over.
Reload(x) ==
  \E i \in sess[x].todo :
    /\ AtOrder(x, i)
    /\ i \notin sess[x].loaded
    /\ Goto(x, IF orders[i].status = "PENDING"
               THEN [sess[x] EXCEPT !.loaded = @ \cup {i}]
               ELSE [sess[x] EXCEPT !.todo = @ \ {i}])
    /\ UNCHANGED <<tables, subscription, clock, faults>>

\* execute_pending_order and expire_order up to their first test.  The order
\* is locked FOR UPDATE, but an image that is loaded is not refreshed: it
\* still says PENDING whatever the row says by now.
TakeOrder(x) ==
  \E i \in sess[x].todo :
    /\ AtOrder(x, i)
    /\ i \in sess[x].loaded
    /\ LockOrder(x, i,
         [sess[x] EXCEPT
            !.todo = @ \ {i},
            !.pc = IF sess[x].kind = "execute" /\ ~Serial!Expired(orders[i])
                   THEN "portfolio" ELSE "release"])

JobDone(x) ==
  /\ sess[x].pc = "next" /\ sess[x].kind \in JobKinds
  /\ sess[x].todo = {} /\ ~sess[x].full
  /\ Goto(x, Idle)
  /\ UNCHANGED <<tables, subscription, clock, faults>>

-----------------------------------------------------------------------------
(* Everything else.                                                         *)

\* A transaction dies (a deadlock victim, a lost connection) or the worker
\* does: the database rolls back and drops the locks.
Fault(x) ==
  /\ sess[x].pc # "idle"
  /\ faults < MaxFaults
  /\ faults' = faults + 1
  /\ \E record \in {Idle, Aborted(x)} : Goto(x, record)
  /\ UNCHANGED <<tables, subscription, clock>>

Upgrade(u) ==
  /\ MayStart("upgrade")
  /\ subscription[u] = "FREE"
  /\ subscription' = [subscription EXCEPT ![u] = "PRO"]
  /\ UNCHANGED <<tables, clock, sess, faults>>

CloseMarket ==
  /\ MayStart("clock")
  /\ market = "OPEN"
  /\ market' = "CLOSED"
  /\ UNCHANGED <<tables, day, subscription, sess, faults>>

OpenNextDay ==
  /\ MayStart("clock")
  /\ market = "CLOSED"
  /\ day < LastDay
  /\ market' = "OPEN" /\ day' = day + 1
  /\ UNCHANGED <<tables, subscription, sess, faults>>

Start(x) ==
  /\ x \in Requests
  /\ \/ \E kind \in Placements, u \in Users, s \in Symbols, t \in TradeTypes,
          q \in Quantities, l, p \in Prices : Check(x, kind, u, s, t, q, l, p)
     \/ \E i \in DOMAIN orders : Cancel(x, i)
     \/ \E u \in Users : ResetList(x, u)

\* A step of a session under way: what the scheduler of threads owes it.
Proceed(x) ==
  \/ ReadPortfolio(x) \/ ReadHolding(x) \/ Commit(x) \/ Refuse(x)
  \/ Release(x)
  \/ \E i \in sess[x].todo : ResetCancel(x, i)
  \/ WipeDelete(x) \/ WipeCommit(x)
  \/ Reload(x) \/ TakeOrder(x) \/ ExpireAgain(x) \/ JobDone(x)

Next ==
  \/ \E x \in Sessions : Start(x) \/ Proceed(x) \/ Fault(x)
  \/ \E x \in Executors, quote \in [Symbols -> Prices] : ExecuteTick(x, quote)
  \/ \E x \in Expirers : ExpireSweep(x)
  \/ \E u \in Users : Upgrade(u)
  \/ CloseMarket
  \/ OpenNextDay

Spec == Init /\ [][Next]_vars

\* Time passes; threads and connections make progress; the expiry job, which
\* cron starts after each close, runs while it has something to expire.
Fairness ==
  /\ WF_vars(CloseMarket)
  /\ \A x \in Sessions : WF_vars(Proceed(x))
  /\ \A x \in Expirers : WF_vars(ExpireSweep(x))

FairSpec == Spec /\ Fairness

-----------------------------------------------------------------------------
(* Properties.                                                             *)

\* The sessions implement the serial ledger: what they commit is what some
\* sequence of whole operations would have done.
ImplementsLedger == Serial!Spec

\* An order is filled at most once, whatever runs beside its fill.
FilledAtMostOnce == \A i \in 1..MaxOrders : trades[i] <= 1

\* A user has one holding row for a symbol.
OneRowPerHolding ==
  \A u \in Users, s \in Symbols : Cardinality(RowsOf(u, s)) <= 1

\* cancel_order, called by the user or by a reset, acts on the order it
\* locked only while it is PENDING, whoever else was about to settle it.
CancelOnlyPending ==
  [][\A i \in DOMAIN orders :
       orders'[i].status = "CANCELLED" /\ orders[i].status # "CANCELLED"
         => orders[i].status = "PENDING"]_vars

\* Nobody waits for a row lock in a circle: while a session is under way, one
\* of those under way can take its next step.
SomeoneProceeds == Active # {} => \E x \in Active : ENABLED Proceed(x)

\* A day order leaves PENDING in the end, though sessions collide and fail.
PendingEventuallySettles ==
  \A i \in 1..MaxOrders :
    (i \in DOMAIN orders /\ orders[i].status = "PENDING")
      ~> (i \in DOMAIN orders /\ orders[i].status # "PENDING")

\* order_service.py:318: a locked and re-checked order is not acted on twice.
SettledOnce == Serial!TerminalStatusFinal

\* AI_MENTOR_ARCHITECTURE.md:100: the row locks keep reservations exact.
ReservedCashBacked == Serial!ReservedCashBacked

\* AI_MENTOR_ARCHITECTURE.md:100: the row locks prevent double spending.
HistoryExplainsAccount == Serial!HistoryExplainsAccount

\* router.py:47: nothing is PENDING when the portfolio is wiped.
WipeFindsNothingPending ==
  [][\A u \in Users : resetAt'[u] # resetAt[u] => Serial!PendingOf(u) = {}]_vars

\* service.py:260: a FREE user places at most BuyCap BUY orders a day.
FreeBuyCap == Serial!FreeBuyCap
=============================================================================
