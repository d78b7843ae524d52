--------------------------- MODULE AccountDeletion ---------------------------
(***************************************************************************)
(* One user's rows while the account is deleted: delete_user beside the    *)
(* requests, the scheduler jobs and the mentor reviews that were already   *)
(* under way, statement by statement on PostgreSQL at READ COMMITTED.      *)
(*                                                                         *)
(* Only mentor_reviews has a foreign key to users; orders, trades, holdings*)
(* and portfolios carry a bare user_id, so nothing but the order of the    *)
(* statements keeps them from outliving the user.  What the rows say is    *)
(* Ledger's subject: here a row is there or not, locked or not, and an     *)
(* order is pending or settled.                                            *)
(***************************************************************************)
EXTENDS Integers, FiniteSets, Sequences

CONSTANTS
  Deleters, Placers, Tickers, Settlers, Resetters, Reviewers,  \* sessions
  Casts,         \* the sets of sessions that may be at work in one behaviour
  OtherOrders,   \* pending orders of other users, which nobody deletes
  MaxRows        \* bound: nothing that inserts starts once there are so many rows

Tables   == {"mentor_reviews", "orders", "trades", "holdings", "portfolios"}
Sessions == Deleters \cup Placers \cup Tickers \cup Settlers \cup Resetters
              \cup Reviewers

ASSUME RowsAssumption == MaxRows \in Nat
ASSUME CastsAssumption == Casts \subseteq SUBSET Sessions
ASSUME OthersAssumption == OtherOrders \cap Nat = {}

VARIABLES
  user,      \* the row of users is there
  rows,      \* the committed rows: <<table, id>>
  pending,   \* the ids of PENDING orders, of this user and of others
  serial,    \* the last id given to a row of this user
  cast,      \* the sessions at work in this behaviour
  sess       \* what each session is doing

vars == <<user, rows, pending, serial, cast, sess>>

\* pc; k: statement of the deletion; todo: orders to visit; o: the order locked;
\* pf, h, rv: ids of the portfolio, holding and review row read, 0 for none;
\* plan: the statements of a placement or fill up to its commit; fills: it inserts
\* a trade; expired: a commit or rollback has expired what was loaded;
\* locks: rows locked, updated or deleted by statements not committed yet.
Idle ==
  [pc |-> "idle", k |-> 0, todo |-> {}, o |-> 0, pf |-> 0, h |-> 0, rv |-> 0,
   plan |-> <<>>, fills |-> FALSE, expired |-> FALSE, locks |-> {}]

Goto(x, record) == sess' = [sess EXCEPT ![x] = record]

RowsIn(t) == {r \in rows : r[1] = t}
IdsIn(t)  == {r[2] : r \in RowsIn(t)}

\* .first(): one of the rows of table t, or 0.
First(t) == IF IdsIn(t) = {} THEN {0} ELSE IdsIn(t)

\* The latest of the reviews (order_by id desc).
Latest(t) ==
  IF IdsIn(t) = {} THEN 0
  ELSE CHOOSE i \in IdsIn(t) : \A j \in IdsIn(t) : j <= i

Key(t, i) == IF i = 0 THEN {} ELSE {<<t, i>>}

\* A statement on these rows waits for whoever has locked one of them.
Free(x, keys) == \A y \in Sessions \ {x} : sess[y].locks \cap keys = {}

-----------------------------------------------------------------------------
(* The deletion. *)

\* Mutant of EraseSequence: the orders go last.
EraseOrdersLast ==
  <<"mentor_reviews", "trades", "holdings", "portfolios", "orders">>

\* The bulk deletes of delete_user, in its order.
EraseSequence ==
  <<"mentor_reviews", "orders", "trades", "holdings", "portfolios">>

DeleteBegin(x) ==
  /\ sess[x].pc = "idle" /\ user
  /\ Goto(x, [Idle EXCEPT !.pc = "erase", !.k = 1])
  /\ UNCHANGED <<user, rows, pending, serial, cast>>

\* Mutant of Erase: every statement commits on its own.
EraseCommitted(x) ==
  LET keys == RowsIn(EraseSequence[sess[x].k])
  IN  /\ sess[x].pc = "erase" /\ sess[x].k <= Len(EraseSequence)
      /\ Free(x, keys)
      /\ Goto(x, [sess[x] EXCEPT !.k = @ + 1])
      /\ rows' = rows \ keys
      /\ UNCHANGED <<user, pending, serial, cast>>

\* One bulk DELETE: it takes the rows committed by now, waiting for those that
\* are locked; what is inserted later it does not see.
Erase(x) ==
  LET keys == RowsIn(EraseSequence[sess[x].k])
  IN  /\ sess[x].pc = "erase" /\ sess[x].k <= Len(EraseSequence)
      /\ Free(x, keys)
      /\ Goto(x, [sess[x] EXCEPT !.k = @ + 1, !.locks = @ \cup keys])
      /\ UNCHANGED <<user, rows, pending, serial, cast>>

\* Mutant of DeleteCommit: a failed flush is not rolled back.
DeleteCommitLeftOpen(x) ==
  /\ sess[x].pc = "erase" /\ sess[x].k > Len(EraseSequence)
  /\ RowsIn("mentor_reviews") \subseteq sess[x].locks
  /\ Goto(x, Idle)
  /\ user' = FALSE
  /\ rows' = rows \ sess[x].locks
  /\ pending' = pending \ {r[2] : r \in {l \in sess[x].locks : l[1] = "orders"}}
  /\ UNCHANGED <<serial, cast>>

\* Flush of db.delete(user) and the commit.  The foreign key of a review that
\* came after statement 1 fails the flush: rollback, 500.
DeleteCommit(x) ==
  /\ sess[x].pc = "erase" /\ sess[x].k > Len(EraseSequence)
  /\ Goto(x, Idle)
  /\ IF RowsIn("mentor_reviews") \subseteq sess[x].locks
     THEN /\ user' = FALSE
          /\ rows' = rows \ sess[x].locks
          /\ pending' = pending \ {r[2] : r \in {l \in sess[x].locks : l[1] = "orders"}}
     ELSE UNCHANGED <<user, rows, pending>>
  /\ UNCHANGED <<serial, cast>>

-----------------------------------------------------------------------------
(* Orders: placing them, filling them, settling them. *)

\* The statements of execute_order: it reads the user and the holding, and its
\* flush updates the tables one by one, by the names of their models.
FillPlan == <<"users", "holdings", "portfolios">>

\* What _create_limit_order flushes before: the portfolio of a BUY or the holding
\* of a SELL, reserved.  A MARKET order, and POST /trades, reserve nothing.
Reservations == {<<"portfolios">>, <<"holdings">>}

PlaceBegin(x) ==
  /\ sess[x].pc = "idle" /\ serial < MaxRows /\ user
  /\ \/ \E plan \in Reservations : Goto(x, [Idle EXCEPT !.pc = "place", !.plan = plan])
     \/ \E before \in Reservations \cup {<<>>} :
          Goto(x, [Idle EXCEPT !.pc = "place", !.plan = before \o FillPlan, !.fills = TRUE])
  /\ UNCHANGED <<user, rows, pending, serial, cast>>

\* After the quote, the handler reads the portfolio and the holding; without a
\* holding there is nothing to reserve for a SELL.
PlaceRead(x) ==
  /\ sess[x].pc = "place"
  /\ \E pf \in First("portfolios"), h \in First("holdings") :
       Goto(x, IF h = 0 /\ Head(sess[x].plan) = "holdings" THEN Idle
               ELSE [sess[x] EXCEPT !.pc = "placing", !.pf = pf, !.h = h])
  /\ UNCHANGED <<user, rows, pending, serial, cast>>

\* The rows a session inserts at its commit, beside those it updates.
Inserted(x, orderTables) ==
  (IF sess[x].pf = 0 THEN {"portfolios"} ELSE {})
    \cup (IF sess[x].fills /\ sess[x].h = 0 THEN {"holdings"} ELSE {})
    \cup (IF sess[x].fills THEN {"trades"} ELSE {}) \cup orderTables

NewKeys(tables) == {<<t, serial + 1>> : t \in tables}

\* A portfolio inserted is the user's only one (portfolios.user_id is unique).
OnlyPortfolio(x) == sess[x].pf = 0 => IdsIn("portfolios") = {}

PlaceCommit(x) ==
  /\ sess[x].pc = "placing" /\ sess[x].plan = <<>>
  /\ Goto(x, Idle)
  /\ IF OnlyPortfolio(x)
     THEN /\ rows' = rows \cup NewKeys(Inserted(x, {"orders"}))
          /\ pending' = IF sess[x].fills THEN pending ELSE pending \cup {serial + 1}
          /\ serial' = serial + 1
     ELSE UNCHANGED <<rows, pending, serial>>
  /\ UNCHANGED <<user, cast>>

\* The execution tick loads a batch of pending orders of all users.
TickLoad(x) ==
  /\ sess[x].pc = "idle" /\ serial < MaxRows /\ pending # {}
  /\ Goto(x, [Idle EXCEPT !.pc = "tick", !.todo = pending])
  /\ UNCHANGED <<user, rows, pending, serial, cast>>

Present(o) == o \in OtherOrders \cup IdsIn("orders")

\* The loop of a tick goes on without order o; again is whether a commit or a
\* rollback has expired the objects of the batch.
TickGoesOn(x, o, again) ==
  Goto(x, [Idle EXCEPT !.pc = IF sess[x].todo = {o} THEN "idle" ELSE "tick",
                       !.todo = sess[x].todo \ {o}, !.expired = again])

\* The tick turns to its next order.
\*   1. The price does not reach the limit, or the row once locked is settled
\*      or gone.
\*   2. The batch has expired and the row is gone: reading the order raises, and
\*      so does the except clause that logs order.id, which ends the job.
\*   3. The order is locked, for the fill, and the portfolio read; an image that
\*      has not expired says PENDING whatever the row says.
TickVisit(x, o) ==
  /\ sess[x].pc = "tick" /\ o \in sess[x].todo
  /\ \/ /\ Present(o) \/ ~sess[x].expired
        /\ TickGoesOn(x, o, sess[x].expired)
     \/ /\ ~Present(o) /\ sess[x].expired
        /\ Goto(x, Idle)
     \/ /\ Present(o)
        /\ o \in pending \/ ~sess[x].expired
        /\ Free(x, {<<"orders", o>>})
        /\ \E pf \in First("portfolios") :
             Goto(x, [sess[x] EXCEPT !.pc = "filling", !.o = o, !.pf = pf, !.fills = TRUE,
                        !.plan = IF o \in OtherOrders THEN <<>> ELSE FillPlan,
                        !.locks = {<<"orders", o>>}])
  /\ UNCHANGED <<user, rows, pending, serial, cast>>

\* The row that the next statement of a plan updates.
Target(x) ==
  CASE Head(sess[x].plan) = "portfolios" -> Key("portfolios", sess[x].pf)
    [] Head(sess[x].plan) = "holdings"   -> Key("holdings", sess[x].h)
    [] OTHER -> {}

\* A plan fails: rollback.  The loop of a tick goes on with its next order.
GiveUp(x) ==
  IF sess[x].pc = "filling" THEN TickGoesOn(x, sess[x].o, TRUE) ELSE Goto(x, Idle)

\* One statement of a plan.  Without the user execute_order answers 404.  An UPDATE
\* waits until its row is free and raises StaleDataError when it is gone.
Flush(x) ==
  /\ sess[x].pc \in {"placing", "filling"} /\ sess[x].plan # <<>>
  /\ IF Head(sess[x].plan) = "users"
     THEN IF user
          THEN \E h \in First("holdings") :
                 Goto(x, [sess[x] EXCEPT !.plan = Tail(@), !.h = h])
          ELSE GiveUp(x)
     ELSE /\ Free(x, Target(x))
          /\ IF Target(x) \subseteq rows
             THEN Goto(x, [sess[x] EXCEPT !.plan = Tail(@), !.locks = @ \cup Target(x)])
             ELSE GiveUp(x)
  /\ UNCHANGED <<user, rows, pending, serial, cast>>

\* The fill of the locked order is committed; a failure raises, and the loop goes on.
TickCommit(x) ==
  LET o    == sess[x].o
      mine == o \notin OtherOrders
      done == ~mine \/ OnlyPortfolio(x)
  IN  /\ sess[x].pc = "filling" /\ sess[x].plan = <<>>
      /\ TickGoesOn(x, o, TRUE)
      /\ pending' = IF done THEN pending \ {o} ELSE pending
      /\ IF done /\ mine
         THEN /\ rows' = rows \cup NewKeys(Inserted(x, {}))
              /\ serial' = serial + 1
         ELSE UNCHANGED <<rows, serial>>
      /\ UNCHANGED <<user, cast>>

\* cancel_order and expire_order, and the cancels a reset begins with: lock the
\* order, then the portfolio, then the holding.  For an order that is gone or
\* not pending, the sweep does nothing and a cancel answers 404 or 400, which
\* for a reset is the end.  The sweep may still hold the image of its batch query.
SettleBegin(x) ==
  /\ sess[x].pc = "idle"
  /\ \E o \in pending \cap IdsIn("orders") :
       Goto(x, [Idle EXCEPT !.pc = "order", !.todo = {o}])
  /\ UNCHANGED <<user, rows, pending, serial, cast>>

SettleOrder(x, o) ==
  /\ sess[x].pc = "order" /\ o \in sess[x].todo
  /\ Free(x, {<<"orders", o>>})
  /\ \/ /\ Present(o) /\ (o \in pending \/ x \in Settlers)
        /\ Goto(x, [sess[x] EXCEPT !.pc = "portfolio", !.o = o,
                                   !.locks = {<<"orders", o>>}])
     \/ /\ ~Present(o) \/ o \notin pending
        /\ Goto(x, Idle)
  /\ UNCHANGED <<user, rows, pending, serial, cast>>

\* What _lock_portfolio_and_holding locks, first and second.
LockSequence == [portfolio |-> "portfolios", holding |-> "holdings"]

SettleLock(x) ==
  /\ sess[x].pc \in {"portfolio", "holding"}
  /\ \E i \in First(LockSequence[sess[x].pc]) :
       LET key == Key(LockSequence[sess[x].pc], i)
       IN  /\ Free(x, key)
           /\ Goto(x, [sess[x] EXCEPT !.locks = @ \cup key,
                         !.pc = IF @ = "portfolio" THEN "holding" ELSE "settle"])
  /\ UNCHANGED <<user, rows, pending, serial, cast>>

\* Without a portfolio release_reservation raises and the session is rolled back.
SettleCommit(x) ==
  LET released == \E i \in IdsIn("portfolios") : <<"portfolios", i>> \in sess[x].locks
      todo     == sess[x].todo \ {sess[x].o}
  IN  /\ sess[x].pc = "settle"
      /\ pending' = IF released THEN pending \ {sess[x].o} ELSE pending
      /\ Goto(x, IF ~released \/ x \notin Resetters THEN Idle
                 ELSE [Idle EXCEPT !.pc = IF todo = {} THEN "wipe" ELSE "order",
                                   !.todo = todo])
      /\ UNCHANGED <<user, rows, serial, cast>>

-----------------------------------------------------------------------------
(* The reset, once its cancels are done: reset_portfolio. *)

ResetBegin(x) ==
  /\ sess[x].pc = "idle" /\ serial < MaxRows /\ user
  /\ LET todo == pending \cap IdsIn("orders")
     IN  Goto(x, [Idle EXCEPT !.pc = IF todo = {} THEN "wipe" ELSE "order",
                              !.todo = todo])
  /\ UNCHANGED <<user, rows, pending, serial, cast>>

WipeHoldings(x) ==
  /\ sess[x].pc = "wipe" /\ Free(x, RowsIn("holdings"))
  /\ \E pf \in First("portfolios") :
       Goto(x, [sess[x] EXCEPT !.pc = "wiped", !.pf = pf, !.locks = RowsIn("holdings")])
  /\ UNCHANGED <<user, rows, pending, serial, cast>>

WipeCommit(x) ==
  LET kept == Key("portfolios", sess[x].pf)
  IN  /\ sess[x].pc = "wiped" /\ Free(x, kept)
      /\ Goto(x, Idle)
      /\ IF kept \subseteq rows /\ OnlyPortfolio(x)
         THEN /\ rows' = (rows \ sess[x].locks)
                           \cup (IF kept = {} THEN NewKeys({"portfolios"}) ELSE {})
              /\ serial' = IF kept = {} THEN serial + 1 ELSE serial
         ELSE UNCHANGED <<rows, serial>>
      /\ UNCHANGED <<user, pending, cast>>

-----------------------------------------------------------------------------
(* generate_daily_review: the row is read, the model is awaited, the row is    *)
(* written.                                                                    *)

ReviewBegin(x) ==
  /\ sess[x].pc = "idle" /\ serial < MaxRows /\ user
  /\ Goto(x, [Idle EXCEPT !.pc = "review", !.rv = Latest("mentor_reviews")])
  /\ UNCHANGED <<user, rows, pending, serial, cast>>

\* The foreign key refuses a new row of a user who is gone; the update of a row
\* that is gone raises.  Both are a 500.
ReviewWrite(x) ==
  LET seen == Key("mentor_reviews", sess[x].rv)
  IN  /\ sess[x].pc = "review" /\ Free(x, seen)
      /\ Goto(x, Idle)
      /\ IF seen = {} /\ user
         THEN /\ rows' = rows \cup NewKeys({"mentor_reviews"})
              /\ serial' = serial + 1
         ELSE UNCHANGED <<rows, serial>>
      /\ UNCHANGED <<user, pending, cast>>

-----------------------------------------------------------------------------
(* Waiting. *)

\* The rows the next statement of session x needs.
Wanted(x) ==
  LET s == sess[x]
  IN  CASE s.pc = "erase" /\ s.k <= Len(EraseSequence) -> RowsIn(EraseSequence[s.k])
        [] s.pc \in {"placing", "filling"} /\ s.plan # <<>> -> Target(x)
        [] s.pc = "order"   -> {<<"orders", o>> : o \in s.todo}
        [] s.pc \in {"portfolio", "holding"} -> RowsIn(LockSequence[s.pc])
        [] s.pc = "wipe"    -> RowsIn("holdings")
        [] s.pc = "wiped"   -> Key("portfolios", s.pf)
        [] s.pc = "review"  -> Key("mentor_reviews", s.rv)
        [] OTHER -> {}

WaitsFor(x, y) == x # y /\ sess[y].locks \cap Wanted(x) # {}

\* A set of sessions each of which waits for another of the set.
Stuck(X) == X # {} /\ \A x \in X : \E y \in X : WaitsFor(x, y)

\* PostgreSQL aborts one session of a circle after deadlock_timeout; those that wait
\* for the circle from outside go on waiting.
DeadlockVictim(x) ==
  /\ \E X \in SUBSET cast : Stuck(X) /\ \A Y \in SUBSET X : Stuck(Y) => x \in Y
  /\ Goto(x, Idle)
  /\ UNCHANGED <<user, rows, pending, serial, cast>>

-----------------------------------------------------------------------------
(* An account with history: a portfolio, a holding, a trade, a review and two  *)
(* pending orders of one symbol; or one that has never traded.                 *)

History == {<<t, 1>> : t \in Tables} \cup {<<"orders", 2>>}

Init ==
  /\ user = TRUE
  /\ \/ rows = History /\ pending = {1, 2} \cup OtherOrders /\ serial = 2
     \/ rows = {} /\ pending = OtherOrders /\ serial = 2
  /\ cast \in Casts
  /\ sess = [x \in Sessions |-> Idle]

Delete(x) == DeleteBegin(x) \/ Erase(x) \/ DeleteCommit(x)
Place(x)  == PlaceBegin(x) \/ PlaceRead(x) \/ Flush(x) \/ PlaceCommit(x)
Tick(x)   == TickLoad(x) \/ (\E o \in sess[x].todo : TickVisit(x, o)) \/ Flush(x)
               \/ TickCommit(x)
Settle(x) == (\E o \in sess[x].todo : SettleOrder(x, o)) \/ SettleLock(x) \/ SettleCommit(x)
Wipe(x)   == ResetBegin(x) \/ WipeHoldings(x) \/ WipeCommit(x)
Review(x) == ReviewBegin(x) \/ ReviewWrite(x)

Next ==
  \/ \E x \in cast \cap Deleters : Delete(x)
  \/ \E x \in cast \cap Placers : Place(x)
  \/ \E x \in cast \cap Tickers : Tick(x)
  \/ \E x \in cast \cap Settlers : SettleBegin(x) \/ Settle(x)
  \/ \E x \in cast \cap Resetters : Wipe(x) \/ Settle(x)
  \/ \E x \in cast \cap Reviewers : Review(x)
  \/ \E x \in cast : DeadlockVictim(x)

\* A statement that does not wait is executed, and a request that has started
\* goes on; nobody has to start one.  PostgreSQL breaks circles of waiting sessions
\* and gives a lock to those that wait for it in turn, so that deletions
\* and cancels are not passed over for ever by requests that come after them.
Fairness ==
  /\ \A x \in Deleters  : SF_vars(Erase(x) \/ DeleteCommit(x))
  /\ \A x \in Placers   : SF_vars(PlaceRead(x) \/ Flush(x) \/ PlaceCommit(x))
  /\ \A x \in Tickers   : WF_vars((\E o \in sess[x].todo : TickVisit(x, o)) \/ Flush(x)
                                     \/ TickCommit(x))
  /\ \A x \in Placers \cup Tickers : SF_vars(Flush(x) /\ Head(sess[x].plan) = "holdings")
  /\ \A x \in Placers \cup Tickers : SF_vars(Flush(x) /\ Head(sess[x].plan) = "portfolios")
  /\ \A x \in Settlers  : SF_vars(Settle(x))
  /\ \A x \in Resetters : SF_vars(Settle(x) \/ WipeHoldings(x) \/ WipeCommit(x))
  /\ \A x \in Reviewers : WF_vars(ReviewWrite(x))
  /\ WF_vars(\E x \in cast : DeadlockVictim(x))

Spec     == Init /\ [][Next]_vars
LiveSpec == Spec /\ Fairness

-----------------------------------------------------------------------------
(* Properties. *)

\* Once an account is deleted none of its rows is left, whatever the scheduler
\* jobs and the mentor were doing to them, and no review even beside placements and
\* resets, whose other rows have no foreign key to stop them.  Against a fill, which
\* inserts a trade while it holds its order, only the place of the orders in the
\* sequence of delete_user protects this.
NothingOutlivesUser ==
  user \/ IF cast \cap (Placers \cup Resetters) = {} THEN rows = {}
          ELSE RowsIn("mentor_reviews") = {}

\* Rows disappear with their user or not at all, but for the holdings a reset
\* wipes: delete_user is one transaction.
ErasedTogether ==
  [][~user' \/ \A r \in rows \ rows' : r[1] = "holdings" /\ cast \cap Resetters # {}]_vars

Erasing == {x \in cast : sess[x].pc = "erase"}

\* As long as nobody places an order meanwhile, no circle of waiting sessions needs a
\* deletion, so that PostgreSQL never aborts one to break it.  Circles there are: a fill
\* of one order updates the holding before the portfolio, while cancelling another
\* order of the symbol locks them the other way round, and so is a reset against a
\* cancel.  A deletion takes the holdings before the portfolio too, but only once it
\* has all the orders, and then nobody who holds one of these rows is left to wait
\* for it.
DeletionOutOfCircles ==
  cast \cap Placers = {} =>
    \A X \in SUBSET cast : Stuck(X) => \E Y \in SUBSET (X \ Erasing) : Stuck(Y)

\* A deletion that has begun ends, although it waits for the rows of cancels,
\* fills, resets and reviews that may themselves wait, also for the deletion.
DeletionEnds == \A x \in Deleters : sess[x].pc = "erase" ~> sess[x].pc = "idle"
=============================================================================
