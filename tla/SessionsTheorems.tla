-------------------------- MODULE SessionsTheorems ---------------------------
(***************************************************************************)
(* What the sessions of TradeSessions keep however they interleave, and    *)
(* that they implement the serial ledger as long as nothing but cancels,   *)
(* resets, upgrades and the clock run beside one another; for any number   *)
(* of users, symbols, prices, requests, workers, orders and faults.  Under *)
(* that condition the theorems about Ledger hold of the sessions.          *)
(***************************************************************************)
EXTENDS TradeSessions, SequenceTheorems, FiniteSetTheorems, TLAPS

-----------------------------------------------------------------------------
(* Types. *)

\* Records by their fields: what the money and the shares come to when sessions
\* collide is not bounded, so their values are left open.
IsPortfolio(pf) == pf = [c \in DOMAIN FreshPortfolio(0) |-> pf[c]]
IsHolding(h)    == h = [c \in DOMAIN EmptyHolding |-> h[c]]
IsRow(r)        == /\ r = [user_id |-> r.user_id, symbol |-> r.symbol, h |-> r.h]
                   /\ IsHolding(r.h)

Pcs == {"idle", "portfolio", "holding", "commit", "release", "next", "wipe"}

IsSession(s) ==
  /\ s = [c \in DOMAIN Idle |-> s[c]]
  /\ s.pc \in Pcs /\ s.kind \in Kinds \cup {"none"}
  /\ s.id \in Nat /\ s.row \in Nat
  /\ s.pf = NoRow \/ IsPortfolio(s.pf)
  /\ IsHolding(s.h)
  /\ s.full \in BOOLEAN

Typed ==
  /\ portfolio = [u \in Users |-> portfolio[u]]
  /\ \A u \in Users : portfolio[u] = NoRow \/ IsPortfolio(portfolio[u])
  /\ rows = [r \in DOMAIN rows |-> rows[r]] /\ DOMAIN rows \subseteq Nat \ {0}
  /\ \A r \in DOMAIN rows : IsRow(rows[r])
  /\ orders \in Seq(Serial!Order) /\ Len(orders) <= MaxOrders
  /\ trades \in [1 .. MaxOrders -> Nat]
  /\ subscription \in [Users -> {"FREE", "PRO"}]
  /\ resetAt \in [Users -> Nat]
  /\ day \in Nat /\ market \in {"OPEN", "CLOSED"}
  /\ sess = [x \in Sessions |-> sess[x]]
  /\ \A x \in Sessions : IsSession(sess[x])

-----------------------------------------------------------------------------
(* Any interleaving. *)

Filling == {"portfolio", "holding", "commit"}

Pending(i) == orders[i].status = "PENDING"

\* What a session is about, by where it is.
SessionOK(s) ==
  /\ s.pc = "idle" => s = Idle
  /\ s.pc = "next" => s.kind \in JobKinds \cup {"reset"} /\ s.id = 0
  /\ s.pc = "wipe" => s.kind = "reset" /\ s.id = 0
  /\ s.kind = "reset" => s.user \in Users
  /\ s.pc = "release" => s.kind \in JobKinds \cup {"cancel", "reset"} /\ s.id # 0
  /\ s.pc \in Filling =>
       /\ \/ s.kind \in Placements /\ s.id = 0 /\ s.todo = {}
          \/ s.kind = "execute" /\ s.id # 0
       /\ s.o \in Serial!Order
  /\ s.kind = "execute" \/ s.pc \in Filling => s.quote \in [Symbols -> Prices]
  /\ s.pf # NoRow =>
       \/ s.pc \in {"holding", "commit"} /\ portfolio[s.o.user_id] # NoRow
       \/ s.pc = "wipe" /\ portfolio[s.user] # NoRow
  /\ s.row # 0 => s.pc = "commit"
  /\ s.row = 0 => s.h = EmptyHolding
  /\ s.todo \subseteq DOMAIN orders
  /\ s.id # 0 => s.id \in DOMAIN orders /\ s.id \notin s.todo /\ s.o = orders[s.id]

\* Row locks and the advisory lock of the execution job exclude.
LocksExclude ==
  \A x, y \in Sessions : x # y =>
    /\ sess[x].id = sess[y].id => sess[x].id = 0
    /\ ~(sess[x].kind = "execute" /\ sess[y].kind = "execute")

\* The orders an execution tick holds or has before it.
MayFill(s) == IF s.kind = "execute" THEN s.todo \cup ({s.id} \ {0}) ELSE {}

\* A filled order is settled, and the tick that might fill it is past it.
FilledIsSettled ==
  \A i \in 1 .. MaxOrders : trades[i] # 0 =>
    /\ trades[i] = 1
    /\ i \in DOMAIN orders /\ ~Pending(i)
    /\ \A x \in Sessions : i \notin MayFill(sess[x])

\* An account that has orders has a portfolio row.
AccountsExist == \A i \in DOMAIN orders : portfolio[orders[i].user_id] # NoRow

\* A cancel has seen its order PENDING under the lock it still holds.
CancelsArePending ==
  \A x \in Sessions :
    sess[x].pc = "release" /\ sess[x].kind \in {"cancel", "reset"} => Pending(sess[x].id)

SessionsInv ==
  /\ Typed
  /\ \A x \in Sessions : SessionOK(sess[x])
  /\ LocksExclude
  /\ FilledIsSettled
  /\ CancelsArePending
  /\ AccountsExist

-----------------------------------------------------------------------------
(* Only cancels and resets beside one another. *)

\* Kinds of steps that may run beside one another without losing an update.
Benign == {"cancel", "reset", "clock", "upgrade"}

Alone ==
  \A x, y \in Active : x # y => sess[x].kind \in Benign /\ sess[y].kind \in Benign

OneRow ==
  \A q, r \in DOMAIN rows :
    rows[q].user_id = rows[r].user_id /\ rows[q].symbol = rows[r].symbol => q = r

\* Rows are numbered by the fills that inserted them.
RowsFromFills == \A r \in DOMAIN rows : r \in 1 .. MaxOrders /\ trades[r] # 0

\* An order that promises shares has the holding it promises them from.
OrdersBacked ==
  \A i \in DOMAIN orders : Pending(i) =>
    /\ orders[i].order_type = "LIMIT"
    /\ orders[i].trade_type = "SELL" => RowsOf(orders[i].user_id, orders[i].symbol) # {}

FillableAt(o, quote) == IsLimitFillable(o.trade_type, o.limit_price, quote[o.symbol])

\* An order that is being placed: as the request asked for it, and the day's
\* cap and the price band have let it through.
PlacementOK(s) ==
  LET o == s.o
  IN  /\ Len(orders) < MaxOrders
      /\ s.kind # "trade" \/ s.pc = "commit" => Serial!UnderBuyCap(o.user_id, o.trade_type)
      /\ IF s.kind = "LIMIT"
         THEN /\ o.limit_price \in Prices
              /\ o = Serial!LimitOrder(o.user_id, o.symbol, o.trade_type, o.quantity,
                                       o.limit_price)
              /\ WithinBand(o.limit_price, Quote(s))
         ELSE o = Serial!MarketOrder(o.user_id, o.symbol, o.trade_type, o.quantity, Quote(s))

\* The images of a session that runs alone are the rows.
FillingOK(s) ==
  /\ market = "OPEN"
  /\ s.kind \in Placements => PlacementOK(s)
  /\ s.kind = "execute" =>
       Pending(s.id) /\ FillableAt(s.o, s.quote) /\ ~Serial!Expired(s.o)
  /\ s.pc # "portfolio" => s.pf = portfolio[s.o.user_id]
  /\ s.pc = "commit" =>
       s.row \in FirstRow(s.o.user_id, s.o.symbol) /\ s.h = HoldingAt(s.row)

\* A job that runs alone finds its batch as its query did.
JobOK(s) ==
  /\ s.kind = "execute" =>
       /\ market = "OPEN"
       /\ \A i \in s.todo : orders[i].order_type = "LIMIT" /\ FillableAt(orders[i], s.quote)
  /\ s.kind = "expire" => \A i \in s.todo : Serial!Expired(orders[i])
  /\ \A i \in s.todo \cap s.loaded : Pending(i)

ReleaseOK(s) ==
  /\ Pending(s.id)
  /\ s.kind \in JobKinds => Serial!Expired(s.o)
  /\ s.kind = "execute" => market = "OPEN" /\ FillableAt(s.o, s.quote)

\* A reset has every pending order of its user still before it, and when it
\* wipes there is none.
ResetOK(s) ==
  /\ Serial!PendingOf(s.user) \subseteq s.todo \cup {s.id}
  /\ \A i \in s.todo : orders[i].user_id = s.user
  /\ s.pc = "release" => s.o.user_id = s.user
  /\ s.pc = "wipe" =>
       /\ s.todo = {}
       /\ \A r \in DOMAIN rows : r \in s.doomed <=> rows[r].user_id = s.user
       /\ s.pf # NoRow =>
            portfolio[s.user] \in {s.pf, FreshPortfolio(InitialBalance)}

SerialOK(s) ==
  /\ s.pc \in Filling => FillingOK(s)
  /\ s.kind \in JobKinds => JobOK(s)
  /\ s.pc = "release" => ReleaseOK(s)
  /\ s.kind = "reset" => ResetOK(s)

SerialInv ==
  /\ SessionsInv
  /\ Alone
  /\ OneRow
  /\ RowsFromFills
  /\ OrdersBacked
  /\ \A x \in Sessions : SerialOK(sess[x])

-----------------------------------------------------------------------------
(* Steps of sessions. *)

\* Where one session goes, the others stay.
LEMMA Moved ==
  ASSUME Typed, NEW x \in Sessions, NEW r, Goto(x, r)
  PROVE  /\ sess'[x] = r
         /\ \A y \in Sessions \ {x} : sess'[y] = sess[y]
         /\ sess' = [y \in Sessions |-> sess'[y]]
BY DEF Goto, Typed

\* A session may be where r says: nobody else holds its order or runs the
\* execution job, and what it may fill has not been filled.
MayBe(x, r) ==
  /\ IsSession(r) /\ SessionOK(r)
  /\ r.id # 0 => \A y \in Sessions \ {x} : sess[y].id # r.id
  /\ r.kind = "execute" => \A y \in Sessions \ {x} : sess[y].kind # "execute"
  /\ \A i \in MayFill(r) : trades[i] = 0
  /\ r.pc = "release" /\ r.kind \in {"cancel", "reset"} => Pending(r.id)

\* A step of one session that writes nothing.
LEMMA QuietStep ==
  ASSUME SessionsInv, NEW x \in Sessions, NEW r, Goto(x, r), MayBe(x, r),
         UNCHANGED <<tables, subscription, clock>>
  PROVE  SessionsInv'
<1> USE DEF tables, clock
<1>1. /\ sess'[x] = r
      /\ \A y \in Sessions \ {x} : sess'[y] = sess[y]
      /\ sess' = [y \in Sessions |-> sess'[y]]
  BY Moved DEF SessionsInv
<1>2. Typed'
  BY <1>1 DEF SessionsInv, Typed, MayBe
<1>3. (\A y \in Sessions : SessionOK(sess[y]))'
  BY <1>1 DEF SessionsInv, SessionOK, MayBe
<1>4. LocksExclude'
  BY <1>1 DEF SessionsInv, LocksExclude, MayBe
<1>5. FilledIsSettled'
  BY <1>1 DEF SessionsInv, FilledIsSettled, MayBe, Pending
<1>6. CancelsArePending'
  BY <1>1 DEF SessionsInv, CancelsArePending, MayBe, Pending
<1>7. AccountsExist'
  BY DEF SessionsInv, AccountsExist
<1> QED
  BY <1>2, <1>3, <1>4, <1>5, <1>6, <1>7 DEF SessionsInv

\* The sessions stay typed.
LEMMA MovedTyped ==
  ASSUME SessionsInv, NEW x \in Sessions, NEW r, Goto(x, r), MayBe(x, r)
  PROVE  /\ sess' = [y \in Sessions |-> sess'[y]]
         /\ \A y \in Sessions : IsSession(sess'[y])
BY Moved DEF SessionsInv, Typed, MayBe

\* Order ids are positions of the sequence of orders.
LEMMA OrderIds ==
  ASSUME Typed
  PROVE  /\ Len(orders) \in Nat /\ DOMAIN orders = 1 .. Len(orders)
         /\ DOMAIN orders \subseteq 1 .. MaxOrders
         /\ 0 \notin DOMAIN orders
         /\ \A i \in DOMAIN orders : orders[i] \in Serial!Order
<1>1. orders \in Seq(Serial!Order) /\ Len(orders) <= MaxOrders
  BY DEF Typed
<1>2. Len(orders) \in Nat /\ DOMAIN orders = 1 .. Len(orders)
  BY <1>1, LenProperties
<1>3. \A i \in 1 .. Len(orders) : orders[i] \in Serial!Order
  BY <1>1, ElementOfSeq
<1> QED
  BY <1>1, <1>2, <1>3, LedgerAssumption

\* The row a handler works on: none, or one of its user and symbol.
LEMMA FirstRowFacts ==
  ASSUME Typed, NEW u, NEW z, NEW k \in FirstRow(u, z)
  PROVE  /\ k \in Nat /\ IsHolding(HoldingAt(k))
         /\ k = 0 \/ k \in RowsOf(u, z)
<1>1. k = 0 \/ k \in RowsOf(u, z)
  BY DEF FirstRow
<1>2. RowsOf(u, z) \subseteq Nat
  BY DEF RowsOf, Typed
<1>3. IsHolding(EmptyHolding)
  BY DEF IsHolding, EmptyHolding
<1>4. \A j \in DOMAIN rows : IsHolding(rows[j].h)
  BY DEF Typed, IsRow
<1> QED
  BY <1>1, <1>2, <1>3, <1>4 DEF HoldingAt

\* What a tick may fill has not been filled.
LEMMA MayFillUnfilled ==
  ASSUME SessionsInv, NEW x \in Sessions, NEW i \in MayFill(sess[x])
  PROVE  trades[i] = 0 /\ i \in DOMAIN orders
<1>1. i \in DOMAIN orders
  BY DEF SessionsInv, SessionOK, MayFill
<1>2. i \in 1 .. MaxOrders
  BY <1>1, OrderIds DEF SessionsInv
<1> QED
  BY <1>1, <1>2 DEF SessionsInv, FilledIsSettled

\* What a session that is not idle may turn to without asking anybody.
LEMMA IdleMayBe ==
  ASSUME NEW x \in Sessions
  PROVE  MayBe(x, Idle)
BY DEF MayBe, IsSession, SessionOK, Idle, Pcs, Kinds, JobKinds, Placements, Filling,
       MayFill, IsHolding, EmptyHolding

LEMMA ContinuedMayBe ==
  ASSUME SessionsInv, NEW x \in Sessions, sess[x].pc # "idle"
  PROVE  MayBe(x, Continued(x)) /\ MayBe(x, Aborted(x))
<1> DEFINE s == sess[x]
<1>1. IsSession(s) /\ SessionOK(s)
  BY DEF SessionsInv, Typed
<1>2. \A i \in MayFill(s) : trades[i] = 0
  BY MayFillUnfilled
<1>3. CASE s.kind \in JobKinds \cup {"reset"}
  <2> DEFINE r == [Idle EXCEPT !.pc = "next", !.kind = s.kind, !.user = s.user,
                    !.quote = s.quote, !.todo = s.todo, !.full = s.full]
  <2>1. IsSession(r)
    BY <1>1 DEF IsSession, Idle, Pcs, Kinds, IsHolding, EmptyHolding
  <2>2. /\ r.pc = "next" /\ r.kind = s.kind /\ r.id = 0 /\ r.quote = s.quote
        /\ r.todo = s.todo /\ r.user = s.user
        /\ r.pf = NoRow /\ r.row = 0 /\ r.h = EmptyHolding
    BY DEF Idle
  <2> HIDE DEF r
  <2>3. SessionOK(r)
    BY <1>1, <1>3, <2>2 DEF SessionOK, JobKinds, Filling
  <2>4. MayFill(r) \subseteq MayFill(s)
    BY <2>2 DEF MayFill
  <2>5. r.kind = "execute" => \A y \in Sessions \ {x} : sess[y].kind # "execute"
    BY <2>2 DEF SessionsInv, LocksExclude
  <2>6. MayBe(x, r)
    BY <1>2, <2>1, <2>2, <2>3, <2>4, <2>5 DEF MayBe
  <2> QED
    BY <1>3, <2>6, IdleMayBe DEF Continued, Aborted, r
<1>4. CASE s.kind \notin JobKinds \cup {"reset"}
  BY <1>4, IdleMayBe DEF Continued, Aborted
<1> QED
  BY <1>3, <1>4

-----------------------------------------------------------------------------
(* The steps that only read. *)

LEMMA CheckKeeps ==
  ASSUME SessionsInv, NEW x \in Sessions, NEW kind \in Placements, NEW u \in Users,
         NEW s \in Symbols, NEW t \in TradeTypes, NEW q \in Quantities,
         NEW l \in Prices, NEW p \in Prices, Check(x, kind, u, s, t, q, l, p)
  PROVE  SessionsInv'
<1> DEFINE o == IF kind = "LIMIT" THEN Serial!LimitOrder(u, s, t, q, l)
                                  ELSE Serial!MarketOrder(u, s, t, q, p)
           r == [Idle EXCEPT !.pc = "portfolio", !.kind = kind,
                             !.quote = [z \in Symbols |-> p], !.o = o]
<1>1. day \in Nat
  BY DEF SessionsInv, Typed
<1>2. p \in Nat /\ l \in Nat /\ q \in Nat /\ l * q \in Nat
  BY LedgerAssumption
<1>3. o \in Serial!Order
  BY <1>1, <1>2 DEF Serial!Order, Serial!LimitOrder, Serial!MarketOrder,
     Serial!ReservedAmount, Serial!OrderTypes, Serial!TradeTypes, Serial!Statuses, TradeTypes
<1> HIDE DEF o
<1>4. /\ r.pc = "portfolio" /\ r.kind = kind /\ r.id = 0 /\ r.todo = {} /\ r.o = o
      /\ r.quote \in [Symbols -> Prices]
      /\ r.pf = NoRow /\ r.row = 0 /\ r.h = EmptyHolding
  BY DEF Idle
<1>5. IsSession(r)
  BY DEF IsSession, Idle, Pcs, Kinds, IsHolding, EmptyHolding
<1>6. Goto(x, r) /\ UNCHANGED <<tables, subscription, clock>>
  BY DEF Check, o
<1> HIDE DEF r
<1>7. MayBe(x, r)
  BY <1>3, <1>4, <1>5 DEF MayBe, SessionOK, Filling, MayFill, Placements
<1> QED
  BY <1>6, <1>7, QuietStep

\* A session that goes on at the same kind, order and list.
LEMMA ReadKeeps ==
  ASSUME SessionsInv, NEW x \in Sessions, ReadPortfolio(x) \/ ReadHolding(x)
  PROVE  SessionsInv'
<1> DEFINE s == sess[x]
<1>1. IsSession(s) /\ SessionOK(s) /\ s.pc \in Filling
  BY DEF SessionsInv, Typed, ReadPortfolio, ReadHolding, Filling
<1>2. PICK r : /\ Goto(x, r) /\ IsSession(r) /\ r.pc \in Filling
               /\ r.kind = s.kind /\ r.id = s.id /\ r.todo = s.todo /\ r.o = s.o
               /\ r.quote = s.quote /\ r.user = s.user
               /\ r.pf # NoRow =>
                    r.pc \in {"holding", "commit"} /\ portfolio[s.o.user_id] # NoRow
               /\ r.row # 0 => r.pc = "commit"
               /\ r.row = 0 => r.h = EmptyHolding
  <2>1. CASE ReadPortfolio(x)
    <3> DEFINE r == [s EXCEPT !.pf = portfolio[s.o.user_id],
                       !.pc = "holding"]
    <3>1. s.o.user_id \in Users
      BY <1>1 DEF SessionOK, Serial!Order
    <3>2. IsSession(r) /\ r.pc \in Filling
      BY <1>1, <3>1 DEF IsSession, Pcs, Filling, SessionsInv, Typed, Idle
    <3>3. /\ r.kind = s.kind /\ r.id = s.id /\ r.todo = s.todo /\ r.o = s.o
          /\ r.quote = s.quote /\ r.user = s.user
          /\ r.pf = portfolio[s.o.user_id] /\ r.pc \in {"holding", "commit"}
          /\ r.row = s.row /\ r.h = s.h /\ s.pc = "portfolio"
      BY <1>1, <2>1 DEF IsSession, Idle, ReadPortfolio
    <3>4. Goto(x, r)
      BY <2>1 DEF ReadPortfolio
    <3> HIDE DEF r
    <3>5. s.row = 0 /\ s.h = EmptyHolding
      BY <1>1, <3>3 DEF SessionOK
    <3> QED
      BY <3>2, <3>3, <3>4, <3>5
  <2>2. CASE ReadHolding(x)
    <3>1. PICK k \in FirstRow(s.o.user_id, s.o.symbol) :
            Goto(x, [s EXCEPT !.pc = "commit", !.row = k, !.h = HoldingAt(k)])
      BY <2>2 DEF ReadHolding
    <3> DEFINE r == [s EXCEPT !.pc = "commit", !.row = k, !.h = HoldingAt(k)]
    <3>2. k \in Nat /\ IsHolding(HoldingAt(k))
      BY FirstRowFacts DEF SessionsInv
    <3>3. IsSession(r) /\ r.pc \in Filling
      BY <1>1, <3>2 DEF IsSession, Pcs, Filling, Idle
    <3>4. /\ r.kind = s.kind /\ r.id = s.id /\ r.todo = s.todo /\ r.o = s.o
          /\ r.quote = s.quote /\ r.user = s.user
          /\ r.pf = s.pf /\ r.pc = "commit" /\ r.row = k /\ r.h = HoldingAt(k)
      BY <1>1 DEF IsSession, Idle
    <3>5. s.pf # NoRow => portfolio[s.o.user_id] # NoRow
      BY <1>1, <2>2 DEF SessionOK, ReadHolding
    <3>6. k = 0 => HoldingAt(k) = EmptyHolding
      BY DEF HoldingAt, SessionsInv, Typed
    <3> HIDE DEF r
    <3> QED
      BY <3>1, <3>3, <3>4, <3>5, <3>6 DEF r
  <2> QED
    BY <2>1, <2>2
<1>3. SessionOK(r)
  BY <1>1, <1>2 DEF SessionOK, Filling
<1>4. MayFill(r) = MayFill(s)
  BY <1>2 DEF MayFill
<1>5. /\ r.id # 0 => \A y \in Sessions \ {x} : sess[y].id # r.id
      /\ r.kind = "execute" => \A y \in Sessions \ {x} : sess[y].kind # "execute"
  BY <1>2 DEF SessionsInv, LocksExclude
<1>6. MayBe(x, r)
  BY <1>2, <1>3, <1>4, <1>5, MayFillUnfilled DEF MayBe, Filling
<1>7. UNCHANGED <<tables, subscription, clock>>
  BY DEF ReadPortfolio, ReadHolding
<1> QED
  BY <1>2, <1>6, <1>7, QuietStep

LEMMA RefuseKeeps ==
  ASSUME SessionsInv, NEW x \in Sessions, Refuse(x)
  PROVE  SessionsInv'
<1>1. Goto(x, Aborted(x)) /\ UNCHANGED <<tables, subscription, clock>> /\ sess[x].pc # "idle"
  BY DEF Refuse
<1> QED
  BY <1>1, ContinuedMayBe, QuietStep

LEMMA JobDoneKeeps ==
  ASSUME SessionsInv, NEW x \in Sessions, JobDone(x)
  PROVE  SessionsInv'
<1>1. Goto(x, Idle) /\ UNCHANGED <<tables, subscription, clock>>
  BY DEF JobDone
<1> QED
  BY <1>1, IdleMayBe, QuietStep

LEMMA FaultKeeps ==
  ASSUME SessionsInv, NEW x \in Sessions, Fault(x)
  PROVE  SessionsInv'
<1>1. Goto(x, Idle) \/ Goto(x, Aborted(x))
  BY DEF Fault
<1>2. UNCHANGED <<tables, subscription, clock>> /\ sess[x].pc # "idle"
  BY DEF Fault
<1> QED
  BY <1>1, <1>2, IdleMayBe, ContinuedMayBe, QuietStep

\* A lock that is free may be taken by a cancel, a reset, or a job.
LEMMA LockKeeps ==
  ASSUME SessionsInv, NEW x \in Sessions, NEW i \in DOMAIN orders, NEW rec,
         IsSession(rec), rec.pc \in {"release", "portfolio"},
         rec.kind = sess[x].kind \/ rec.kind = "cancel",
         rec.kind \in {"cancel", "reset", "expire", "execute"},
         rec.pc = "portfolio" => rec.kind = "execute",
         rec.kind = "execute" => rec.quote = sess[x].quote,
         rec.kind = "reset" => rec.user = sess[x].user,
         rec.kind \in {"cancel", "reset"} => Pending(i),
         rec.kind = "execute" => i \in sess[x].todo,
         rec.todo \subseteq sess[x].todo \ {i},
         rec.pf = NoRow, rec.row = 0, rec.h = EmptyHolding,
         LockOrder(x, i, rec)
  PROVE  SessionsInv'
<1> DEFINE s == sess[x]
           r == [rec EXCEPT !.id = i, !.o = orders[i]]
<1>1. IsSession(s) /\ SessionOK(s)
  BY DEF SessionsInv, Typed
<1>2. i \in Nat /\ i # 0 /\ orders[i] \in Serial!Order
  BY OrderIds DEF SessionsInv
<1>3. /\ r.pc = rec.pc /\ r.kind = rec.kind /\ r.id = i /\ r.todo = rec.todo
      /\ r.o = orders[i] /\ r.quote = rec.quote /\ r.user = rec.user
      /\ r.pf = NoRow /\ r.row = 0 /\ r.h = EmptyHolding
  BY DEF IsSession, Idle
<1>4. IsSession(r)
  BY <1>2 DEF IsSession, Idle
<1>5. Goto(x, r) /\ UNCHANGED <<tables, subscription, clock>>
  BY DEF LockOrder
<1>6. \A y \in Sessions \ {x} : sess[y].id # i
  BY DEF LockOrder, LockedByOther
<1> HIDE DEF r
<1>7. SessionOK(r)
  BY <1>1, <1>2, <1>3 DEF SessionOK, Filling, JobKinds
<1>8. MayFill(r) \subseteq MayFill(s)
  BY <1>2, <1>3 DEF MayFill
<1>9. r.kind = "execute" => \A y \in Sessions \ {x} : sess[y].kind # "execute"
  BY <1>3 DEF SessionsInv, LocksExclude
<1>10. MayBe(x, r)
  BY <1>3, <1>4, <1>6, <1>7, <1>8, <1>9, MayFillUnfilled DEF MayBe
<1> QED
  BY <1>5, <1>10, QuietStep

LEMMA CancelKeeps ==
  ASSUME SessionsInv, NEW x \in Sessions, NEW i \in DOMAIN orders, Cancel(x, i)
  PROVE  SessionsInv'
<1> DEFINE rec == [Idle EXCEPT !.pc = "release", !.kind = "cancel"]
<1>1. /\ rec.pc = "release" /\ rec.kind = "cancel" /\ rec.todo = {}
      /\ IsSession(rec)
      /\ rec.pf = NoRow /\ rec.row = 0 /\ rec.h = EmptyHolding
  BY DEF IsSession, Idle, Pcs, Kinds, IsHolding, EmptyHolding
<1>2. LockOrder(x, i, rec) /\ Pending(i)
  BY DEF Cancel, Pending
<1> QED
  BY <1>1, <1>2, LockKeeps

LEMMA ResetListKeeps ==
  ASSUME SessionsInv, NEW x \in Sessions, NEW u \in Users, ResetList(x, u)
  PROVE  SessionsInv'
<1> DEFINE r == [Idle EXCEPT !.pc = "next", !.kind = "reset", !.user = u,
                             !.todo = Serial!PendingOf(u)]
<1>1. /\ r.pc = "next" /\ r.kind = "reset" /\ r.id = 0 /\ r.user = u
      /\ r.todo = Serial!PendingOf(u)
      /\ r.pf = NoRow /\ r.row = 0 /\ r.h = EmptyHolding
  BY DEF Idle
<1>2. IsSession(r)
  BY DEF IsSession, Idle, Pcs, Kinds, IsHolding, EmptyHolding
<1>3. Goto(x, r) /\ UNCHANGED <<tables, subscription, clock>>
  BY DEF ResetList
<1>4. Serial!PendingOf(u) \subseteq DOMAIN orders
  BY DEF Serial!PendingOf, Serial!Ids
<1> HIDE DEF r
<1>5. MayBe(x, r)
  BY <1>1, <1>2, <1>4 DEF MayBe, SessionOK, Filling, MayFill
<1> QED
  BY <1>3, <1>5, QuietStep

LEMMA ResetCancelKeeps ==
  ASSUME SessionsInv, NEW x \in Sessions, NEW i \in sess[x].todo, ResetCancel(x, i)
  PROVE  SessionsInv'
<1>1. IsSession(sess[x]) /\ SessionOK(sess[x]) /\ sess[x].kind = "reset"
  BY DEF SessionsInv, Typed, ResetCancel
<1>2. i \in DOMAIN orders
  BY <1>1 DEF SessionOK
<1>3. CASE Pending(i)
  <2> DEFINE rec == [sess[x] EXCEPT !.pc = "release", !.todo = @ \ {i}]
  <2>1. /\ rec.pc = "release" /\ rec.kind = "reset" /\ rec.todo = sess[x].todo \ {i}
        /\ IsSession(rec) /\ rec.user = sess[x].user
        /\ rec.pf = NoRow /\ rec.row = 0 /\ rec.h = EmptyHolding
    BY <1>1 DEF IsSession, Idle, Pcs, ResetCancel, SessionOK
  <2>2. LockOrder(x, i, rec)
    BY <1>3 DEF ResetCancel, Pending
  <2> HIDE DEF rec
  <2> QED
    BY <1>1, <1>2, <1>3, <2>1, <2>2, LockKeeps
<1>4. CASE ~Pending(i)
  <2>1. Goto(x, Aborted(x)) /\ UNCHANGED <<tables, subscription, clock>> /\ sess[x].pc # "idle"
    BY <1>4 DEF ResetCancel, Pending
  <2> QED
    BY <2>1, ContinuedMayBe, QuietStep
<1> QED
  BY <1>3, <1>4

LEMMA WipeDeleteKeeps ==
  ASSUME SessionsInv, NEW x \in Sessions, WipeDelete(x)
  PROVE  SessionsInv'
<1> DEFINE s == sess[x]
           mine == {r \in DOMAIN rows : rows[r].user_id = s.user}
           r == [s EXCEPT !.pc = "wipe", !.doomed = mine, !.pf = portfolio[s.user]]
<1>1. IsSession(s) /\ SessionOK(s) /\ s.kind = "reset" /\ s.pc = "next" /\ s.todo = {}
  BY DEF SessionsInv, Typed, WipeDelete
<1>2. /\ s.user \in Users
      /\ portfolio[s.user] = NoRow \/ IsPortfolio(portfolio[s.user])
  BY <1>1 DEF SessionsInv, Typed, SessionOK
<1>3. IsSession(r)
  BY <1>1, <1>2 DEF IsSession, Idle, Pcs
<1>4. r.pc = "wipe" /\ r.kind = "reset" /\ r.id = 0 /\ r.todo = {} /\ r.user = s.user
      /\ r.row = 0 /\ r.h = EmptyHolding /\ r.pf = portfolio[s.user]
  BY <1>1 DEF IsSession, Idle, SessionOK
<1>5. Goto(x, r) /\ UNCHANGED <<tables, subscription, clock>>
  BY DEF WipeDelete
<1> HIDE DEF r
<1>6. MayBe(x, r)
  BY <1>2, <1>3, <1>4 DEF MayBe, SessionOK, Filling, MayFill
<1> QED
  BY <1>5, <1>6, QuietStep

LEMMA ExecuteTickKeeps ==
  ASSUME SessionsInv, NEW x \in Sessions, NEW quote \in [Symbols -> Prices],
         ExecuteTick(x, quote)
  PROVE  SessionsInv'
<1> DEFINE worth == {i \in Oldest(PendingLimit, ExecutionBatch) :
                       IsLimitFillable(orders[i].trade_type, orders[i].limit_price,
                                       quote[orders[i].symbol])}
           r == [Idle EXCEPT !.pc = "next", !.kind = "execute", !.quote = quote,
                             !.todo = worth, !.loaded = worth]
<1>1. worth \subseteq DOMAIN orders /\ \A i \in worth : Pending(i)
  BY DEF Oldest, PendingLimit, Pending
<1>2. Goto(x, r) /\ UNCHANGED <<tables, subscription, clock>> /\ LockFree("execute")
  BY DEF ExecuteTick
<1> HIDE DEF worth
<1>3. r.pc = "next" /\ r.kind = "execute" /\ r.id = 0 /\ r.todo = worth /\ r.quote = quote
      /\ r.pf = NoRow /\ r.row = 0 /\ r.h = EmptyHolding
  BY DEF Idle
<1>4. IsSession(r)
  BY DEF IsSession, Idle, Pcs, Kinds, JobKinds, IsHolding, EmptyHolding
<1> HIDE DEF r
<1>5. \A i \in worth : trades[i] = 0
  BY <1>1, OrderIds DEF SessionsInv, FilledIsSettled
<1>6. MayBe(x, r)
  BY <1>1, <1>2, <1>3, <1>4, <1>5
     DEF MayBe, SessionOK, Filling, JobKinds, MayFill, LockFree
<1> QED
  BY <1>2, <1>6, QuietStep

LEMMA ExpiryQueryKeeps ==
  ASSUME SessionsInv, NEW x \in Sessions, ExpiryQuery(x)
  PROVE  SessionsInv'
<1> DEFINE batch == Oldest(Stale, ExpiryBatch)
           r == [Idle EXCEPT !.pc = "next", !.kind = "expire", !.todo = batch,
                             !.loaded = batch, !.full = Cardinality(batch) = ExpiryBatch]
<1>1. batch \subseteq DOMAIN orders
  BY DEF Oldest, Stale
<1>2. Goto(x, Idle) \/ Goto(x, r)
  BY DEF ExpiryQuery
<1>3. UNCHANGED <<tables, subscription, clock>>
  BY DEF ExpiryQuery
<1> HIDE DEF batch
<1>4. r.pc = "next" /\ r.kind = "expire" /\ r.id = 0 /\ r.todo = batch
      /\ r.pf = NoRow /\ r.row = 0 /\ r.h = EmptyHolding
  BY DEF Idle
<1>5. IsSession(r)
  BY DEF IsSession, Idle, Pcs, Kinds, JobKinds, IsHolding, EmptyHolding
<1> HIDE DEF r
<1>6. MayBe(x, r)
  BY <1>1, <1>4, <1>5 DEF MayBe, SessionOK, Filling, JobKinds, MayFill
<1> QED
  BY <1>2, <1>3, <1>6, IdleMayBe, QuietStep

LEMMA ReloadKeeps ==
  ASSUME SessionsInv, NEW x \in Sessions, Reload(x)
  PROVE  SessionsInv'
<1> DEFINE s == sess[x]
<1>1. IsSession(s) /\ SessionOK(s) /\ s.pc = "next" /\ s.kind \in JobKinds
  BY DEF SessionsInv, Typed, Reload, AtOrder
<1>2. PICK i \in s.todo :
        \/ Goto(x, [s EXCEPT !.loaded = @ \cup {i}])
        \/ Goto(x, [s EXCEPT !.todo = @ \ {i}])
  BY DEF Reload
<1>3. PICK r : /\ Goto(x, r) /\ IsSession(r) /\ r.pc = "next" /\ r.kind = s.kind
               /\ r.id = s.id /\ r.todo \subseteq s.todo /\ r.quote = s.quote
               /\ r.pf = s.pf /\ r.row = s.row /\ r.h = s.h
  <2>1. CASE Goto(x, [s EXCEPT !.loaded = @ \cup {i}])
    <3> DEFINE r == [s EXCEPT !.loaded = @ \cup {i}]
    <3>1. /\ IsSession(r) /\ r.pc = s.pc /\ r.kind = s.kind
          /\ r.id = s.id /\ r.todo = s.todo /\ r.quote = s.quote
          /\ r.pf = s.pf /\ r.row = s.row /\ r.h = s.h
      BY <1>1 DEF IsSession, Idle
    <3> QED
      BY <1>1, <2>1, <3>1
  <2>2. CASE Goto(x, [s EXCEPT !.todo = @ \ {i}])
    <3> DEFINE r == [s EXCEPT !.todo = @ \ {i}]
    <3>1. /\ IsSession(r) /\ r.pc = s.pc /\ r.kind = s.kind
          /\ r.id = s.id /\ r.todo = s.todo \ {i} /\ r.quote = s.quote
          /\ r.pf = s.pf /\ r.row = s.row /\ r.h = s.h
      BY <1>1 DEF IsSession, Idle
    <3> QED
      BY <1>1, <2>2, <3>1
  <2> QED
    BY <1>2, <2>1, <2>2
<1>4. SessionOK(r)
  BY <1>1, <1>3 DEF SessionOK, Filling, JobKinds
<1>5. MayFill(r) \subseteq MayFill(s)
  BY <1>3 DEF MayFill
<1>6. r.kind = "execute" => \A y \in Sessions \ {x} : sess[y].kind # "execute"
  BY <1>3 DEF SessionsInv, LocksExclude
<1>7. MayBe(x, r)
  BY <1>1, <1>3, <1>4, <1>5, <1>6, MayFillUnfilled DEF MayBe, SessionOK
<1>8. UNCHANGED <<tables, subscription, clock>>
  BY DEF Reload
<1> QED
  BY <1>3, <1>7, <1>8, QuietStep

LEMMA TakeOrderKeeps ==
  ASSUME SessionsInv, NEW x \in Sessions, TakeOrder(x)
  PROVE  SessionsInv'
<1> DEFINE s == sess[x]
<1>1. IsSession(s) /\ SessionOK(s) /\ s.pc = "next" /\ s.kind \in JobKinds
  BY DEF SessionsInv, Typed, TakeOrder, AtOrder
<1>2. PICK i \in s.todo :
        LockOrder(x, i,
          [s EXCEPT !.todo = @ \ {i},
                    !.pc = IF s.kind = "execute" /\ ~Serial!Expired(orders[i])
                           THEN "portfolio" ELSE "release"])
  BY DEF TakeOrder
<1> DEFINE rec == [s EXCEPT !.todo = @ \ {i},
                    !.pc = IF s.kind = "execute" /\ ~Serial!Expired(orders[i])
                           THEN "portfolio" ELSE "release"]
<1>3. /\ IsSession(rec) /\ rec.kind = s.kind /\ rec.todo = s.todo \ {i}
      /\ rec.quote = s.quote /\ rec.pc \in {"release", "portfolio"}
      /\ rec.pc = "portfolio" => s.kind = "execute"
      /\ rec.pf = NoRow /\ rec.row = 0 /\ rec.h = EmptyHolding
  BY <1>1 DEF IsSession, Idle, Pcs, SessionOK
<1> HIDE DEF rec
<1>4. i \in DOMAIN orders /\ LockOrder(x, i, rec)
  BY <1>1, <1>2 DEF SessionOK, rec
<1> QED
  BY <1>1, <1>3, <1>4, LockKeeps DEF JobKinds

-----------------------------------------------------------------------------
(* The steps that write. *)

\* The operations on a row keep its columns.
LEMMA ColumnsKept ==
  /\ \A b : IsPortfolio(FreshPortfolio(b))
  /\ \A pf, a : IsPortfolio(pf) => IsPortfolio(ReserveFunds(pf, a))
  /\ \A pf, o : IsPortfolio(pf) => IsPortfolio(ReleaseFunds(pf, o))
  /\ \A pf, h, t, q, p : IsPortfolio(pf) => IsPortfolio(FillPortfolio(pf, h, t, q, p))
  /\ \A h, t, q : IsHolding(h) => IsHolding(ReserveShares(h, t, q))
  /\ \A h, o : IsHolding(h) => IsHolding(ReleaseShares(h, o))
  /\ \A h, t, q, p : IsHolding(h) => IsHolding(FillHolding(h, t, q, p))
<1>1. \A b : IsPortfolio(FreshPortfolio(b))
  BY DEF IsPortfolio, FreshPortfolio
<1>2. \A pf, a : IsPortfolio(pf) => IsPortfolio(ReserveFunds(pf, a))
  BY DEF IsPortfolio, FreshPortfolio, ReserveFunds
<1>3. \A pf, o : IsPortfolio(pf) => IsPortfolio(ReleaseFunds(pf, o))
  BY DEF IsPortfolio, FreshPortfolio, ReleaseFunds
<1>4. \A pf, h, t, q, p : IsPortfolio(pf) => IsPortfolio(FillPortfolio(pf, h, t, q, p))
  <2> TAKE pf, h, t, q, p
  <2>1. \A a, b, c : IsPortfolio(pf) =>
          /\ IsPortfolio([pf EXCEPT !.available_balance = a, !.invested_amount = b])
          /\ IsPortfolio([pf EXCEPT !.available_balance = a, !.realized_pnl = c,
                                    !.invested_amount = b])
    BY DEF IsPortfolio, FreshPortfolio
  <2> QED
    BY <2>1, Zenon DEF FillPortfolio
<1>5. \A h, t, q : IsHolding(h) => IsHolding(ReserveShares(h, t, q))
  BY DEF IsHolding, EmptyHolding, ReserveShares
<1>6. \A h, o : IsHolding(h) => IsHolding(ReleaseShares(h, o))
  BY DEF IsHolding, EmptyHolding, ReleaseShares
<1>7. \A h, t, q, p : IsHolding(h) => IsHolding(FillHolding(h, t, q, p))
  <2> TAKE h, t, q, p
  <2>1. \A a, b : IsHolding(h) => IsHolding([h EXCEPT !.quantity = a, !.avg_price = b])
    BY DEF IsHolding, EmptyHolding
  <2> QED
    BY <2>1, Zenon DEF FillHolding
<1> QED
  BY <1>1, <1>2, <1>3, <1>4, <1>5, <1>6, <1>7

\* What a session computes from images of rows has their columns.
LEMMA ComputedRows ==
  ASSUME NEW s, s.pf = NoRow \/ IsPortfolio(s.pf), IsHolding(s.h)
  PROVE  /\ IsPortfolio(ReservedPortfolio(s)) /\ IsPortfolio(NewPortfolio(s))
         /\ IsHolding(ReservedHolding(s)) /\ IsHolding(NewHolding(s))
<1>1. IsPortfolio(ImagePortfolio(s))
  BY ColumnsKept DEF ImagePortfolio
<1>2. IsPortfolio(ReservedPortfolio(s)) /\ IsHolding(ReservedHolding(s))
  BY <1>1, ColumnsKept DEF ReservedPortfolio, ReservedHolding
<1>3. IsPortfolio(ReleasedPortfolio(s)) /\ IsHolding(ReleasedHolding(s))
  BY <1>2, ColumnsKept DEF ReleasedPortfolio, ReleasedHolding
<1> QED
  BY <1>2, <1>3, ColumnsKept DEF NewPortfolio, NewHolding

\* A flush writes columns of the row that is there.
LEMMA MergeColumns ==
  ASSUME NEW current, NEW read, NEW mid, NEW new
  PROVE  /\ IsPortfolio(current) => /\ IsPortfolio(Merge(current, read, new))
                                    /\ IsPortfolio(MergeTwice(current, read, mid, new))
         /\ IsHolding(current) => IsHolding(MergeTwice(current, read, mid, new))
BY DEF Merge, MergeTwice, IsPortfolio, IsHolding, FreshPortfolio, EmptyHolding

\* A step that writes at most the order its session holds and appends at most
\* one, and ends the transaction.
LEMMA WriteStep ==
  ASSUME SessionsInv, NEW x \in Sessions, NEW r, Goto(x, r), MayBe(x, r),
         r.pc \in {"idle", "next"}, Typed',
         DOMAIN orders \subseteq DOMAIN orders',
         \A i \in DOMAIN orders : i # sess[x].id => orders'[i] = orders[i],
         \A u \in Users : portfolio[u] # NoRow => portfolio'[u] # NoRow,
         \A i \in DOMAIN orders : orders'[i].user_id = orders[i].user_id,
         \A i \in DOMAIN orders' \ DOMAIN orders : portfolio'[orders'[i].user_id] # NoRow,
         FilledIsSettled'
  PROVE  SessionsInv'
<1>1. /\ sess'[x] = r
      /\ \A y \in Sessions \ {x} : sess'[y] = sess[y]
      /\ sess' = [y \in Sessions |-> sess'[y]]
  BY Moved DEF SessionsInv
<1>2. r.id = 0
  BY DEF MayBe, SessionOK, Idle
<1>3. \A i \in DOMAIN orders : orders[i].user_id \in Users
  BY OrderIds DEF SessionsInv, Serial!Order
<1>4. ASSUME NEW y \in Sessions PROVE SessionOK(sess[y])'
  <2>1. CASE y = x
    <3>1. SessionOK(r) /\ r.pf = NoRow
      BY DEF MayBe, SessionOK
    <3> QED
      BY <1>1, <1>2, <2>1, <3>1 DEF SessionOK
  <2>2. CASE y # x
    <3> DEFINE s == sess[y]
    <3>1. sess'[y] = s /\ SessionOK(s)
      BY <1>1, <2>2 DEF SessionsInv
    <3>2. s.id # 0 => s.id # sess[x].id
      BY <2>2 DEF SessionsInv, LocksExclude
    <3>3. s.id # 0 => s.id \in DOMAIN orders' /\ orders'[s.id] = orders[s.id]
      BY <3>1, <3>2 DEF SessionOK
    <3>4. s.pc \in Filling => s.o.user_id \in Users
      BY <3>1 DEF SessionOK, Serial!Order
    <3>5. /\ s.pc \in Filling /\ portfolio[s.o.user_id] # NoRow =>
                portfolio'[s.o.user_id] # NoRow
          /\ s.kind = "reset" /\ portfolio[s.user] # NoRow => portfolio'[s.user] # NoRow
      BY <3>1, <3>4 DEF SessionOK
    <3> QED
      BY <3>1, <3>3, <3>5 DEF SessionOK, Filling
  <2> QED
    BY <2>1, <2>2
<1>5. LocksExclude'
  BY <1>1, <1>2 DEF SessionsInv, LocksExclude, MayBe
<1>6. CancelsArePending'
  <2> SUFFICES ASSUME NEW y \in Sessions, sess'[y].pc = "release",
                      sess'[y].kind \in {"cancel", "reset"}
               PROVE  Pending(sess[y].id)'
    BY DEF CancelsArePending
  <2>1. y # x /\ sess'[y] = sess[y]
    BY <1>1
  <2>2. Pending(sess[y].id) /\ sess[y].id # 0 /\ sess[y].id \in DOMAIN orders
    BY <2>1 DEF SessionsInv, CancelsArePending, SessionOK
  <2>3. sess[y].id # sess[x].id
    BY <2>1, <2>2 DEF SessionsInv, LocksExclude
  <2> QED
    BY <2>1, <2>2, <2>3 DEF Pending
<1>7. AccountsExist'
  BY <1>3 DEF SessionsInv, AccountsExist
<1> QED
  BY <1>4, <1>5, <1>6, <1>7 DEF SessionsInv

\* The orders table after an update, and after an insert.
LEMMA OrderUpdated ==
  ASSUME Typed, NEW i \in DOMAIN orders, NEW o \in Serial!Order,
         orders' = [orders EXCEPT ![i] = o]
  PROVE  /\ orders' \in Seq(Serial!Order) /\ Len(orders') = Len(orders)
         /\ DOMAIN orders' = DOMAIN orders
         /\ orders'[i] = o
         /\ \A j \in DOMAIN orders : j # i => orders'[j] = orders[j]
<1>1. orders \in Seq(Serial!Order) /\ i \in 1 .. Len(orders)
  BY OrderIds DEF Typed
<1>2. orders' \in Seq(Serial!Order) /\ Len(orders') = Len(orders)
  BY <1>1, ExceptSeq
<1> QED
  BY <1>1, <1>2

LEMMA OrderAppended ==
  ASSUME Typed, NEW o \in Serial!Order, orders' = Append(orders, o)
  PROVE  /\ orders' \in Seq(Serial!Order) /\ Len(orders') = Len(orders) + 1
         /\ Len(orders) \in Nat
         /\ DOMAIN orders' = DOMAIN orders \cup {Len(orders) + 1}
         /\ Len(orders) + 1 \notin DOMAIN orders
         /\ orders'[Len(orders) + 1] = o
         /\ \A j \in DOMAIN orders : orders'[j] = orders[j]
<1>1. orders \in Seq(Serial!Order) /\ Len(orders) \in Nat /\ DOMAIN orders = 1 .. Len(orders)
  BY OrderIds DEF Typed
<1>2. /\ orders' \in Seq(Serial!Order) /\ Len(orders') = Len(orders) + 1
      /\ \A j \in 1 .. Len(orders) : orders'[j] = orders[j]
      /\ orders'[Len(orders) + 1] = o
  BY <1>1, AppendProperties
<1>3. DOMAIN orders' = 1 .. (Len(orders) + 1)
  BY <1>2, LenProperties
<1> QED
  BY <1>1, <1>2, <1>3

\* A status, and a price, is set on an order.
LEMMA OrderSet ==
  ASSUME NEW o \in Serial!Order, NEW st \in Statuses, NEW p \in Prices
  PROVE  /\ [o EXCEPT !.status = st] \in Serial!Order
         /\ [o EXCEPT !.status = st].status = st
         /\ [o EXCEPT !.status = st].user_id = o.user_id
         /\ [o EXCEPT !.status = st, !.executed_price = p] \in Serial!Order
         /\ [o EXCEPT !.status = st, !.executed_price = p].status = st
         /\ [o EXCEPT !.status = st, !.executed_price = p].user_id = o.user_id
BY DEF Serial!Order, Statuses, Serial!Statuses

\* A holding row gets new values.
LEMMA RowSet ==
  ASSUME NEW row, NEW h, IsRow(row), IsHolding(h)
  PROVE  /\ IsRow([row EXCEPT !.h = h])
         /\ [row EXCEPT !.h = h].user_id = row.user_id
         /\ [row EXCEPT !.h = h].symbol = row.symbol
         /\ [row EXCEPT !.h = h].h = h
<1> DEFINE new == [row EXCEPT !.h = h]
<1>1. new.user_id = row.user_id /\ new.symbol = row.symbol /\ new.h = h
  BY DEF IsRow
<1>2. new = [user_id |-> row.user_id, symbol |-> row.symbol, h |-> h]
  BY DEF IsRow
<1> QED
  BY <1>1, <1>2 DEF IsRow

LEMMA ReleaseKeeps ==
  ASSUME SessionsInv, NEW x \in Sessions, Release(x)
  PROVE  SessionsInv'
<1> DEFINE s == sess[x]
           st == StatusGiven(s.kind)
<1>1. IsSession(s) /\ SessionOK(s) /\ s.pc = "release"
  BY DEF SessionsInv, Typed, Release
<1>2. /\ s.id \in DOMAIN orders /\ s.o = orders[s.id] /\ s.o \in Serial!Order
      /\ s.o.user_id \in Users /\ portfolio[s.o.user_id] # NoRow
  BY <1>1, OrderIds DEF SessionOK, SessionsInv, AccountsExist, Serial!Order
<1>3. st \in Statuses /\ st # "PENDING"
  BY <1>1 DEF SessionOK, StatusGiven, Statuses, JobKinds
<1>4. orders' = [orders EXCEPT ![s.id] = [s.o EXCEPT !.status = st]]
  BY <1>2 DEF Release
<1>5. /\ [s.o EXCEPT !.status = st] \in Serial!Order
      /\ [s.o EXCEPT !.status = st].status = st
      /\ [s.o EXCEPT !.status = st].user_id = s.o.user_id
  <2>1. ASSUME NEW p \in Prices PROVE [s.o EXCEPT !.status = st] \in Serial!Order
    BY <1>2, <1>3, OrderSet
  <2> QED
    BY <1>2, <1>3 DEF Serial!Order, Statuses, Serial!Statuses
<1> HIDE DEF st
<1>6. /\ orders' \in Seq(Serial!Order) /\ Len(orders') = Len(orders)
      /\ DOMAIN orders' = DOMAIN orders
      /\ orders'[s.id].status = st /\ orders'[s.id].user_id = s.o.user_id
      /\ \A j \in DOMAIN orders : j # s.id => orders'[j] = orders[j]
  BY <1>2, <1>4, <1>5, OrderUpdated DEF SessionsInv
<1>7. /\ Goto(x, Continued(x)) /\ MayBe(x, Continued(x))
      /\ Continued(x).pc \in {"idle", "next"}
      /\ UNCHANGED <<trades, resetAt, subscription, clock>>
  BY <1>1, ContinuedMayBe DEF Release, Continued, Idle
<1>8. /\ portfolio' = [portfolio EXCEPT ![s.o.user_id] = ReleaseFunds(@, s.o)]
      /\ \A u \in Users : portfolio'[u] = NoRow \/ IsPortfolio(portfolio'[u])
      /\ \A u \in Users : portfolio[u] # NoRow => portfolio'[u] # NoRow
  <2>1. portfolio' = [portfolio EXCEPT ![s.o.user_id] = ReleaseFunds(@, s.o)]
    BY DEF Release
  <2>2. IsPortfolio(portfolio'[s.o.user_id])
    BY <1>2, <2>1, ColumnsKept DEF SessionsInv, Typed
  <2>3. \A pf : IsPortfolio(pf) => pf # NoRow
    BY DEF IsPortfolio, NoRow, FreshPortfolio
  <2> QED
    BY <1>2, <2>1, <2>2, <2>3 DEF SessionsInv, Typed
<1>9. /\ rows' = [r \in DOMAIN rows |-> rows'[r]] /\ DOMAIN rows' = DOMAIN rows
      /\ \A r \in DOMAIN rows : IsRow(rows'[r])
  <2>1. PICK k \in FirstRow(s.o.user_id, s.o.symbol) :
          rows' = IF k = 0 THEN rows
                  ELSE [rows EXCEPT ![k].h = ReleaseShares(@, s.o)]
    BY DEF Release
  <2>2. k = 0 \/ k \in DOMAIN rows
    BY <2>1 DEF FirstRow, RowsOf
  <2>3. CASE k = 0
    BY <2>1, <2>3 DEF SessionsInv, Typed
  <2>4. CASE k # 0
    <3> DEFINE row == [rows[k] EXCEPT !.h = ReleaseShares(@, s.o)]
    <3>1. IsRow(rows[k]) /\ IsHolding(rows[k].h)
      BY <2>2, <2>4 DEF SessionsInv, Typed, IsRow
    <3>2. IsRow(row)
      BY <3>1, ColumnsKept, RowSet
    <3>3. rows' = [rows EXCEPT ![k] = row]
      BY <2>1, <2>4
    <3> HIDE DEF row
    <3> QED
      BY <2>2, <2>4, <3>2, <3>3 DEF SessionsInv, Typed
  <2> QED
    BY <2>3, <2>4
<1>10. Typed'
  <2>1. sess' = [y \in Sessions |-> sess'[y]] /\ \A y \in Sessions : IsSession(sess'[y])
    BY <1>7, MovedTyped
  <2> QED
    BY <1>6, <1>7, <1>8, <1>9, <2>1 DEF SessionsInv, Typed, clock
<1>11. FilledIsSettled'
  <2>1. \A y \in Sessions : MayFill(sess'[y]) \subseteq MayFill(sess[y])
    <3>1. MayFill(Continued(x)) \subseteq MayFill(s)
      BY DEF MayFill, Continued, Idle
    <3> QED
      BY <1>7, <3>1, Moved DEF SessionsInv
  <2>2. \A i \in DOMAIN orders : ~Pending(i) => ~(orders'[i].status = "PENDING")
    BY <1>3, <1>6 DEF Pending
  <2> QED
    BY <1>6, <1>7, <2>1, <2>2 DEF SessionsInv, FilledIsSettled, Pending
<1>12. \A i \in DOMAIN orders : orders'[i].user_id = orders[i].user_id
  BY <1>2, <1>6
<1> HIDE DEF s
<1> QED
  BY <1>6, <1>7, <1>8, <1>10, <1>11, <1>12, WriteStep DEF s

LEMMA WipeCommitKeeps ==
  ASSUME SessionsInv, NEW x \in Sessions, WipeCommit(x)
  PROVE  SessionsInv'
<1> DEFINE s == sess[x]
           u == s.user
<1>1. IsSession(s) /\ SessionOK(s) /\ s.pc = "wipe" /\ s.kind = "reset" /\ u \in Users
  BY DEF SessionsInv, Typed, WipeCommit, SessionOK
<1>2. /\ Goto(x, Idle) /\ MayBe(x, Idle)
      /\ UNCHANGED <<orders, trades, subscription, clock>>
  BY IdleMayBe DEF WipeCommit, tables
<1>3. \A pf : IsPortfolio(pf) => pf # NoRow
  BY DEF IsPortfolio, NoRow, FreshPortfolio
<1>4. \/ UNCHANGED <<portfolio, rows, resetAt>>
      \/ /\ portfolio' = [portfolio EXCEPT ![u] =
                IF s.pf = NoRow THEN FreshPortfolio(InitialBalance)
                                ELSE Merge(@, s.pf, FreshPortfolio(InitialBalance))]
         /\ rows' = Restrict(rows, DOMAIN rows \ s.doomed)
         /\ resetAt' = [resetAt EXCEPT ![u] = Len(orders)]
  BY DEF WipeCommit, tables
<1>5. /\ portfolio' = [v \in Users |-> portfolio'[v]]
      /\ \A v \in Users : portfolio'[v] = NoRow \/ IsPortfolio(portfolio'[v])
      /\ \A v \in Users : portfolio[v] # NoRow => portfolio'[v] # NoRow
  <2> DEFINE new == IF s.pf = NoRow THEN FreshPortfolio(InitialBalance)
                    ELSE Merge(portfolio[u], s.pf, FreshPortfolio(InitialBalance))
  <2>1. s.pf # NoRow => IsPortfolio(portfolio[u])
    BY <1>1 DEF SessionOK, SessionsInv, Typed
  <2>2. IsPortfolio(new)
    BY <2>1, ColumnsKept, MergeColumns
  <2>3. UNCHANGED portfolio \/ portfolio' = [portfolio EXCEPT ![u] = new]
    BY <1>4
  <2> HIDE DEF new
  <2> QED
    BY <1>1, <1>3, <2>2, <2>3 DEF SessionsInv, Typed
<1>6. /\ rows' = [r \in DOMAIN rows' |-> rows'[r]] /\ DOMAIN rows' \subseteq DOMAIN rows
      /\ \A r \in DOMAIN rows' : IsRow(rows'[r])
  BY <1>4 DEF SessionsInv, Typed, Restrict
<1>7. resetAt' \in [Users -> Nat]
  BY <1>1, <1>4, OrderIds DEF SessionsInv, Typed
<1>8. Typed'
  <2>1. sess' = [y \in Sessions |-> sess'[y]] /\ \A y \in Sessions : IsSession(sess'[y])
    BY <1>2, MovedTyped
  <2> QED
    BY <1>2, <1>5, <1>6, <1>7, <2>1 DEF SessionsInv, Typed, clock
<1>9. FilledIsSettled'
  <2>1. \A y \in Sessions : MayFill(sess'[y]) \subseteq MayFill(sess[y])
    BY <1>2, Moved DEF SessionsInv, MayFill, Idle
  <2> QED
    BY <1>2, <2>1 DEF SessionsInv, FilledIsSettled, Pending
<1>10. Idle.pc = "idle"
  BY DEF Idle
<1> HIDE DEF s, u
<1> QED
  BY <1>2, <1>5, <1>8, <1>9, <1>10, WriteStep

\* The image a commit works on is the session's, with the holding as read at
\* the latest then.
LEMMA ImageFacts ==
  ASSUME SessionsInv, NEW x \in Sessions, sess[x].pc \in Filling,
         NEW r \in FirstRow(sess[x].o.user_id, sess[x].o.symbol), NEW s,
         s = CommitImage(sess[x], r)
  PROVE  /\ s.o = sess[x].o /\ s.kind = sess[x].kind /\ s.id = sess[x].id
         /\ s.pf = sess[x].pf /\ s.quote = sess[x].quote
         /\ s.pf = NoRow \/ IsPortfolio(s.pf)
         /\ IsHolding(s.h) /\ s.row \in Nat
         /\ s.row = 0 => s.h = EmptyHolding
<1>1. IsSession(sess[x]) /\ SessionOK(sess[x])
  BY DEF SessionsInv, Typed
<1>2. r \in Nat /\ IsHolding(HoldingAt(r)) /\ (r = 0 => HoldingAt(r) = EmptyHolding)
  BY FirstRowFacts DEF SessionsInv, Typed, HoldingAt
<1> DEFINE again == /\ sess[x].kind = "LIMIT" /\ sess[x].o.trade_type = "BUY"
                    /\ r # sess[x].row
<1>3. CASE again
  <2>1. s = [sess[x] EXCEPT !.row = r, !.h = HoldingAt(r)]
    BY <1>3 DEF CommitImage
  <2>2. /\ s.o = sess[x].o /\ s.kind = sess[x].kind /\ s.id = sess[x].id
        /\ s.pf = sess[x].pf /\ s.quote = sess[x].quote /\ s.row = r /\ s.h = HoldingAt(r)
    BY <1>1, <2>1 DEF IsSession, Idle
  <2> QED
    BY <1>1, <1>2, <2>2 DEF IsSession
<1>4. CASE ~again
  <2>1. s = sess[x]
    BY <1>4 DEF CommitImage
  <2> QED
    BY <1>1, <2>1 DEF IsSession, SessionOK
<1> QED
  BY <1>3, <1>4

LEMMA CommitKeeps ==
  ASSUME SessionsInv, NEW x \in Sessions, Commit(x)
  PROVE  SessionsInv'
<1> DEFINE z == sess[x]
<1>1. IsSession(z) /\ SessionOK(z) /\ z.pc = "commit" /\ z.pc \in Filling
  BY DEF SessionsInv, Typed, Commit, Filling
<1>2. PICK k \in FirstRow(z.o.user_id, z.o.symbol) :
        LET s == CommitImage(z, k)
            u == s.o.user_id
            id == IF s.id = 0 THEN Len(orders) + 1 ELSE s.id
        IN /\ Flushable(s)
           /\ id <= MaxOrders
           /\ portfolio' = [portfolio EXCEPT ![u] =
                IF s.pf = NoRow THEN NewPortfolio(s)
                ELSE MergeTwice(@, s.pf, ReservedPortfolio(s), NewPortfolio(s))]
           /\ WriteHolding(s, id)
           /\ orders' =
                IF s.id # 0
                THEN [orders EXCEPT ![id] = [@ EXCEPT !.status = "EXECUTED",
                                                      !.executed_price = Quote(s)]]
                ELSE Append(orders,
                       IF Fills(s) THEN [s.o EXCEPT !.status = "EXECUTED",
                                                    !.executed_price = Quote(s)]
                                   ELSE s.o)
           /\ trades' = IF Fills(s) THEN [trades EXCEPT ![id] = @ + 1] ELSE trades
  BY DEF Commit
<1> DEFINE s == CommitImage(z, k)
           u == s.o.user_id
           id == IF s.id = 0 THEN Len(orders) + 1 ELSE s.id
           filled == [s.o EXCEPT !.status = "EXECUTED", !.executed_price = Quote(s)]
<1>3. /\ s.o = z.o /\ s.kind = z.kind /\ s.id = z.id /\ s.pf = z.pf /\ s.quote = z.quote
      /\ s.pf = NoRow \/ IsPortfolio(s.pf)
      /\ IsHolding(s.h) /\ s.row \in Nat
  BY <1>1, ImageFacts
<1>4. /\ Flushable(s) /\ id <= MaxOrders
      /\ portfolio' = [portfolio EXCEPT ![u] =
           IF s.pf = NoRow THEN NewPortfolio(s)
           ELSE MergeTwice(@, s.pf, ReservedPortfolio(s), NewPortfolio(s))]
      /\ WriteHolding(s, id)
      /\ orders' = IF s.id # 0 THEN [orders EXCEPT ![id] = [@ EXCEPT !.status = "EXECUTED",
                                                                !.executed_price = Quote(s)]]
                   ELSE Append(orders, IF Fills(s) THEN filled ELSE s.o)
      /\ trades' = IF Fills(s) THEN [trades EXCEPT ![id] = @ + 1] ELSE trades
  BY <1>2
<1> HIDE DEF s
<1>5. s.o \in Serial!Order /\ u \in Users /\ s.o.symbol \in Symbols /\ Quote(s) \in Prices
  BY <1>1, <1>3 DEF SessionOK, Serial!Order, Quote
<1>6. /\ filled \in Serial!Order /\ filled.status = "EXECUTED" /\ filled.user_id = u
  <2>1. \A o \in Serial!Order, p \in Prices :
          /\ [o EXCEPT !.status = "EXECUTED", !.executed_price = p] \in Serial!Order
          /\ [o EXCEPT !.status = "EXECUTED", !.executed_price = p].status = "EXECUTED"
          /\ [o EXCEPT !.status = "EXECUTED", !.executed_price = p].user_id = o.user_id
    BY DEF Serial!Order, Serial!Statuses
  <2> QED
    BY <1>5, <2>1
<1>7. Len(orders) \in Nat /\ DOMAIN orders = 1 .. Len(orders)
      /\ DOMAIN orders \subseteq 1 .. MaxOrders
  BY OrderIds DEF SessionsInv
<1>8. /\ id \in Nat \ {0} /\ id \in 1 .. MaxOrders
      /\ s.id # 0 => id = s.id /\ id \in DOMAIN orders /\ s.o = orders[id] /\ s.kind = "execute"
      /\ s.id = 0 => id = Len(orders) + 1 /\ id \notin DOMAIN orders
  BY <1>1, <1>3, <1>4, <1>7 DEF SessionOK, Placements, Filling
<1> HIDE DEF filled
<1>9. /\ orders' \in Seq(Serial!Order) /\ Len(orders') <= MaxOrders
      /\ DOMAIN orders' = DOMAIN orders \cup {id}
      /\ \A i \in DOMAIN orders : i # s.id => orders'[i] = orders[i]
      /\ \A i \in DOMAIN orders : orders'[i].user_id = orders[i].user_id
      /\ orders'[id].user_id = u
      /\ orders'[id].status = "EXECUTED" \/ (s.id = 0 /\ ~Fills(s))
  <2>1. CASE s.id # 0
    <3>1. orders' = [orders EXCEPT ![id] = filled]
      BY <1>4, <1>8, <2>1 DEF filled
    <3>2. /\ orders' \in Seq(Serial!Order) /\ Len(orders') = Len(orders)
          /\ DOMAIN orders' = DOMAIN orders /\ orders'[id] = filled
          /\ \A j \in DOMAIN orders : j # id => orders'[j] = orders[j]
      BY <1>6, <1>8, <2>1, <3>1, OrderUpdated DEF SessionsInv
    <3>3. Len(orders) <= MaxOrders
      BY DEF SessionsInv, Typed
    <3> QED
      BY <1>6, <1>8, <2>1, <3>2, <3>3
  <2>2. CASE s.id = 0
    <3> DEFINE o == IF Fills(s) THEN filled ELSE s.o
    <3>1. orders' = Append(orders, o)
      BY <1>4, <2>2
    <3>2. o \in Serial!Order /\ o.user_id = u /\ (Fills(s) => o.status = "EXECUTED")
      BY <1>5, <1>6
    <3> HIDE DEF o
    <3>3. /\ orders' \in Seq(Serial!Order) /\ Len(orders') = Len(orders) + 1
          /\ DOMAIN orders' = DOMAIN orders \cup {id} /\ orders'[id] = o
          /\ \A j \in DOMAIN orders : orders'[j] = orders[j]
      BY <1>8, <2>2, <3>1, <3>2, OrderAppended DEF SessionsInv
    <3> QED
      BY <1>4, <1>8, <2>2, <3>2, <3>3
  <2> QED
    BY <2>1, <2>2
<1>10. \A pf : IsPortfolio(pf) => pf # NoRow
  BY DEF IsPortfolio, NoRow, FreshPortfolio
<1>11. /\ portfolio' = [v \in Users |-> portfolio'[v]]
       /\ \A v \in Users : portfolio'[v] = NoRow \/ IsPortfolio(portfolio'[v])
       /\ \A v \in Users : portfolio[v] # NoRow => portfolio'[v] # NoRow
       /\ portfolio'[u] # NoRow
  <2> DEFINE new == IF s.pf = NoRow THEN NewPortfolio(s)
                    ELSE MergeTwice(portfolio[u], s.pf, ReservedPortfolio(s), NewPortfolio(s))
  <2>1. s.pf # NoRow => IsPortfolio(portfolio[u])
    BY <1>1, <1>3, <1>5 DEF SessionOK, SessionsInv, Typed
  <2>2. IsPortfolio(new)
    BY <1>3, <2>1, ComputedRows, MergeColumns
  <2>3. portfolio' = [portfolio EXCEPT ![u] = new]
    BY <1>4
  <2> HIDE DEF new
  <2> QED
    BY <1>5, <1>10, <2>2, <2>3 DEF SessionsInv, Typed
<1>12. /\ rows' = [r \in DOMAIN rows' |-> rows'[r]] /\ DOMAIN rows' \subseteq Nat \ {0}
       /\ \A r \in DOMAIN rows' : IsRow(rows'[r])
  <2>1. CASE NewHolding(s) = s.h
    BY <1>4, <2>1 DEF WriteHolding, SessionsInv, Typed
  <2>2. CASE NewHolding(s) # s.h
    <3> DEFINE r == IF s.row = 0 THEN id ELSE s.row
               h == IF s.row = 0 THEN NewHolding(s)
                    ELSE MergeTwice(rows[r].h, s.h, ReservedHolding(s), NewHolding(s))
               row == [user_id |-> s.o.user_id, symbol |-> s.o.symbol, h |-> h]
    <3>1. rows' = [j \in DOMAIN rows \cup {r} |-> IF j = r THEN row ELSE rows[j]]
      BY <1>4, <2>2 DEF WriteHolding
    <3>2. r \in Nat \ {0} /\ (s.row # 0 => r \in DOMAIN rows)
      BY <1>3, <1>4, <1>8, <2>2 DEF Flushable
    <3>3. IsHolding(h)
      BY <1>3, <3>2, ComputedRows, MergeColumns DEF SessionsInv, Typed, IsRow
    <3> HIDE DEF h, r
    <3>4. IsRow(row)
      BY <3>3 DEF IsRow
    <3> HIDE DEF row
    <3> QED
      BY <3>1, <3>2, <3>4 DEF SessionsInv, Typed
  <2> QED
    BY <2>1, <2>2
<1>13. trades' \in [1 .. MaxOrders -> Nat]
  <2>1. trades \in [1 .. MaxOrders -> Nat]
    BY DEF SessionsInv, Typed
  <2>2. trades[id] + 1 \in Nat
    BY <1>8, <2>1
  <2>3. trades' = trades \/ trades' = [trades EXCEPT ![id] = trades[id] + 1]
    BY <1>4
  <2> HIDE DEF id
  <2> QED
    BY <2>1, <2>2, <2>3
<1>14. /\ Goto(x, Continued(x)) /\ MayBe(x, Continued(x))
       /\ Continued(x).pc \in {"idle", "next"}
       /\ UNCHANGED <<resetAt, subscription, clock>>
  BY <1>1, ContinuedMayBe DEF Commit, Continued, Idle
<1>15. Typed'
  <2>1. sess' = [y \in Sessions |-> sess'[y]] /\ \A y \in Sessions : IsSession(sess'[y])
    BY <1>14, MovedTyped
  <2> QED
    BY <1>9, <1>11, <1>12, <1>13, <1>14, <2>1 DEF SessionsInv, Typed, clock
<1>16. FilledIsSettled'
  <2>1. \A y \in Sessions : MayFill(sess'[y]) \subseteq MayFill(sess[y]) /\ id \notin MayFill(sess'[y])
    <3>1. sess'[x] = Continued(x) /\ \A y \in Sessions \ {x} : sess'[y] = sess[y]
      BY <1>14, Moved DEF SessionsInv
    <3>2. MayFill(Continued(x)) \subseteq z.todo /\ MayFill(Continued(x)) \subseteq MayFill(z)
      BY DEF MayFill, Continued, Idle
    <3>3. id \notin z.todo
      BY <1>1, <1>3, <1>8 DEF SessionOK
    <3>4. ASSUME NEW y \in Sessions \ {x} PROVE id \notin MayFill(sess[y])
      <4>1. CASE s.id # 0
        BY <1>3, <1>8, <4>1 DEF SessionsInv, LocksExclude, MayFill
      <4>2. CASE s.id = 0
        BY <1>8, <4>2, MayFillUnfilled
      <4> QED
        BY <4>1, <4>2
    <3> QED
      BY <3>1, <3>2, <3>3, <3>4
  <2>2. trades[id] = 0
    <3>1. CASE s.id # 0
      <4>1. id \in MayFill(z)
        BY <1>3, <1>8, <3>1 DEF MayFill
      <4> QED
        BY <4>1, MayFillUnfilled
    <3>2. CASE s.id = 0
      BY <1>8, <3>2 DEF SessionsInv, FilledIsSettled
    <3> QED
      BY <3>1, <3>2
  <2>3. \A i \in 1 .. MaxOrders : i # id => trades'[i] = trades[i]
    BY <1>4 DEF SessionsInv, Typed
  <2>4. trades'[id] = (IF Fills(s) THEN 1 ELSE 0)
    BY <1>4, <1>8, <2>2 DEF SessionsInv, Typed
  <2>5. ASSUME NEW i \in 1 .. MaxOrders, trades'[i] # 0
        PROVE  trades'[i] = 1 /\ i \in DOMAIN orders' /\ orders'[i].status # "PENDING"
    <3>1. CASE i = id
      BY <1>9, <2>4, <2>5, <3>1
    <3>2. CASE i # id
      BY <1>8, <1>9, <2>3, <2>5, <3>2 DEF SessionsInv, FilledIsSettled, Pending
    <3> QED
      BY <3>1, <3>2
  <2>6. ASSUME NEW i \in 1 .. MaxOrders, trades'[i] # 0, NEW y \in Sessions
        PROVE  i \notin MayFill(sess'[y])
    <3>1. i # id => trades[i] # 0
      BY <2>3, <2>6
    <3> QED
      BY <2>1, <3>1 DEF SessionsInv, FilledIsSettled
  <2> QED
    BY <2>5, <2>6 DEF FilledIsSettled, Pending
<1>17. \A i \in DOMAIN orders' \ DOMAIN orders : portfolio'[orders'[i].user_id] # NoRow
  BY <1>9, <1>11
<1> HIDE DEF z, u, id
<1> QED
  BY <1>3, <1>9, <1>11, <1>14, <1>15, <1>16, <1>17, WriteStep DEF z

-----------------------------------------------------------------------------
(* The invariant of any interleaving. *)

LEMMA SessionsInit == Init => SessionsInv
<1> SUFFICES ASSUME Init PROVE SessionsInv
  OBVIOUS
<1> USE DEF Init
<1>1. orders \in Seq(Serial!Order) /\ Len(orders) = 0 /\ DOMAIN orders = {}
  OBVIOUS
<1>2. \A x \in Sessions : sess[x] = Idle
  OBVIOUS
<1>3. IsSession(Idle) /\ Idle.id = 0 /\ Idle.kind = "none" /\ Idle.pc = "idle"
  BY DEF IsSession, Idle, Pcs, Kinds, IsHolding, EmptyHolding
<1>4. DOMAIN rows = {}
  OBVIOUS
<1>5. Typed
  BY <1>1, <1>2, <1>3, <1>4, LedgerAssumption DEF Typed, NoRow
<1>6. SessionOK(Idle)
  BY DEF SessionOK, Idle, Filling, EmptyHolding, NoRow
<1>7. LocksExclude /\ CancelsArePending
  BY <1>2, <1>3 DEF LocksExclude, CancelsArePending
<1>8. FilledIsSettled /\ AccountsExist
  BY <1>1 DEF FilledIsSettled, AccountsExist
<1> QED
  BY <1>2, <1>5, <1>6, <1>7, <1>8 DEF SessionsInv

\* The subscription and the clock are nobody's image.
LEMMA WorldKeeps ==
  ASSUME SessionsInv, UNCHANGED <<tables, sess>>,
         subscription' \in [Users -> {"FREE", "PRO"}],
         day' \in Nat, market' \in {"OPEN", "CLOSED"}
  PROVE  SessionsInv'
BY DEF tables, SessionsInv, Typed, SessionOK, LocksExclude, FilledIsSettled, CancelsArePending,
       AccountsExist, MayFill, Pending

LEMMA SessionsStep == SessionsInv /\ [Next]_vars => SessionsInv'
<1> SUFFICES ASSUME SessionsInv, [Next]_vars PROVE SessionsInv'
  OBVIOUS
<1>1. subscription \in [Users -> {"FREE", "PRO"}] /\ day \in Nat /\ market \in {"OPEN", "CLOSED"}
  BY DEF SessionsInv, Typed
<1>2. ASSUME NEW x \in Sessions, Start(x) PROVE SessionsInv'
  BY <1>2, CheckKeeps, CancelKeeps, ResetListKeeps DEF Start
<1>3. ASSUME NEW x \in Sessions, Proceed(x) PROVE SessionsInv'
  <2>1. CASE ReadPortfolio(x) \/ ReadHolding(x)
    BY <2>1, ReadKeeps
  <2>2. CASE Commit(x)
    BY <2>2, CommitKeeps
  <2>3. CASE Refuse(x)
    BY <2>3, RefuseKeeps
  <2>4. CASE Release(x)
    BY <2>4, ReleaseKeeps
  <2>5. CASE \E i \in sess[x].todo : ResetCancel(x, i)
    BY <2>5, ResetCancelKeeps
  <2>6. CASE WipeDelete(x) \/ WipeCommit(x)
    BY <2>6, WipeDeleteKeeps, WipeCommitKeeps
  <2>7. CASE Reload(x) \/ TakeOrder(x)
    BY <2>7, ReloadKeeps, TakeOrderKeeps
  <2>8. CASE ExpireAgain(x) \/ JobDone(x)
    BY <2>8, ExpiryQueryKeeps, JobDoneKeeps DEF ExpireAgain
  <2> QED
    BY <1>3, <2>1, <2>2, <2>3, <2>4, <2>5, <2>6, <2>7, <2>8 DEF Proceed
<1>4. ASSUME NEW x \in Sessions, Fault(x) PROVE SessionsInv'
  BY <1>4, FaultKeeps
<1>5. ASSUME NEW x \in Executors, NEW quote \in [Symbols -> Prices], ExecuteTick(x, quote)
      PROVE  SessionsInv'
  BY <1>5, ExecuteTickKeeps DEF Sessions
<1>6. ASSUME NEW x \in Expirers, ExpireSweep(x) PROVE SessionsInv'
  BY <1>6, ExpiryQueryKeeps DEF Sessions, ExpireSweep
<1>7. ASSUME NEW u \in Users, Upgrade(u) PROVE SessionsInv'
  BY <1>1, <1>7, WorldKeeps DEF Upgrade, clock
<1>8. CASE CloseMarket \/ OpenNextDay
  BY <1>1, <1>8, WorldKeeps DEF CloseMarket, OpenNextDay
<1>9. CASE UNCHANGED vars
  BY <1>1, <1>9, WorldKeeps DEF vars, clock
<1> QED
  BY <1>2, <1>3, <1>4, <1>5, <1>6, <1>7, <1>8, <1>9 DEF Next

\* However the sessions interleave, abort and die: what each knows of the order
\* it holds is the row, no two hold one, and an account with orders is there.
THEOREM SessionsInvariant == Spec => []SessionsInv
BY SessionsInit, SessionsStep, PTL DEF Spec

\* An order is filled at most once, whatever runs beside its fill: the tick
\* that takes an order holds the row lock and the advisory lock, and has left
\* behind what it filled (execute_pending_order, execute_pending_orders_job).
THEOREM FilledOnce == Spec => []FilledAtMostOnce
<1>1. SessionsInv => FilledAtMostOnce
  BY DEF SessionsInv, Typed, FilledIsSettled, FilledAtMostOnce
<1> QED
  BY <1>1, SessionsInvariant, PTL

\* What a cancel finds.
LEMMA CancelFindsPending ==
  ASSUME SessionsInv, [Next]_vars, NEW i \in DOMAIN orders,
         orders'[i].status = "CANCELLED", orders[i].status # "CANCELLED"
  PROVE  orders[i].status = "PENDING"
<1>1. orders' # orders
  OBVIOUS
<1>2. PICK x \in Sessions : Commit(x) \/ Release(x)
  <2> USE DEF tables
  <2>1. ASSUME NEW x \in Sessions, Start(x) \/ Fault(x) PROVE FALSE
    <3>1. ~Fault(x)
      BY <1>1 DEF Fault
    <3>2. ASSUME NEW kind, NEW u, NEW s, NEW t, NEW q, NEW l, NEW p,
                 Check(x, kind, u, s, t, q, l, p)
          PROVE  FALSE
      BY <1>1, <3>2 DEF Check
    <3>3. ASSUME NEW j, Cancel(x, j) PROVE FALSE
      BY <1>1, <3>3 DEF Cancel, LockOrder
    <3>4. ASSUME NEW u, ResetList(x, u) PROVE FALSE
      BY <1>1, <3>4 DEF ResetList
    <3> QED
      BY <2>1, <3>1, <3>2, <3>3, <3>4, Zenon DEF Start
  <2>2. ASSUME NEW x \in Sessions, Proceed(x) PROVE Commit(x) \/ Release(x)
    BY <1>1, <2>2 DEF Proceed, ReadPortfolio, ReadHolding, Refuse, ResetCancel, LockOrder,
       WipeDelete, WipeCommit, Reload, TakeOrder, ExpireAgain, ExpiryQuery, JobDone
  <2>3. ASSUME NEW x, NEW quote, ExecuteTick(x, quote) PROVE FALSE
    BY <1>1, <2>3 DEF ExecuteTick
  <2>4. ASSUME NEW x, ExpireSweep(x) PROVE FALSE
    BY <1>1, <2>4 DEF ExpireSweep, ExpiryQuery
  <2>5. ASSUME NEW u, Upgrade(u) PROVE FALSE
    BY <1>1, <2>5 DEF Upgrade
  <2>6. ~CloseMarket /\ ~OpenNextDay /\ ~UNCHANGED vars
    BY <1>1 DEF CloseMarket, OpenNextDay, vars
  <2> QED
    BY <2>1, <2>2, <2>3, <2>4, <2>5, <2>6 DEF Next
<1> DEFINE s == sess[x]
<1>3. SessionOK(s) /\ orders \in Seq(Serial!Order)
  BY DEF SessionsInv, Typed
<1>4. CASE Release(x)
  <2>1. orders' = [orders EXCEPT ![s.id] = [@ EXCEPT !.status = StatusGiven(s.kind)]]
        /\ s.pc = "release"
    BY <1>4 DEF Release
  <2>2. i = s.id
    BY <2>1
  <2>3. i \in DOMAIN orders /\ orders[i] \in Serial!Order
    BY OrderIds DEF SessionsInv
  <2>4. StatusGiven(s.kind) = "CANCELLED"
    BY <2>1, <2>2, <2>3 DEF Serial!Order
  <2>5. s.kind \in JobKinds \cup {"cancel", "reset"}
    BY <1>3, <2>1 DEF SessionOK
  <2>6. s.kind \in {"cancel", "reset"}
    BY <2>4, <2>5 DEF StatusGiven, JobKinds
  <2> QED
    BY <2>1, <2>2, <2>6 DEF SessionsInv, CancelsArePending, Pending
<1>5. CASE Commit(x)
  <2>1. PICK id, p, o :
          \/ orders' = [orders EXCEPT ![id] = [@ EXCEPT !.status = "EXECUTED",
                                                        !.executed_price = p]]
          \/ orders' = Append(orders, o)
    BY <1>5 DEF Commit
  <2>2. i \in 1 .. Len(orders) /\ orders[i] \in Serial!Order
    BY OrderIds DEF SessionsInv
  <2>3. CASE orders' = Append(orders, o)
    BY <1>3, <2>2, <2>3
  <2>4. CASE orders' = [orders EXCEPT ![id] = [@ EXCEPT !.status = "EXECUTED",
                                                        !.executed_price = p]]
    BY <2>2, <2>4 DEF Serial!Order
  <2> QED
    BY <2>1, <2>3, <2>4
<1> QED
  BY <1>2, <1>4, <1>5

\* cancel_order, called by the user or by a reset, acts on the order it locked
\* only while it is PENDING: its query FOR UPDATE is its first use of the row,
\* so nothing it read before can be stale.
THEOREM CancelsOnlyPending == Spec => CancelOnlyPending
<1>1. SessionsInv /\ [Next]_vars =>
        [\A i \in DOMAIN orders :
           orders'[i].status = "CANCELLED" /\ orders[i].status # "CANCELLED"
             => orders[i].status = "PENDING"]_vars
  BY CancelFindsPending
<1> QED
  BY <1>1, SessionsInvariant, PTL DEF Spec, CancelOnlyPending

-----------------------------------------------------------------------------
(* The invariant of a serial schedule: steps that write nothing. *)

\* A handler that loses updates when it is interrupted runs alone.
LEMMA AloneHere ==
  ASSUME SerialInv, NEW x \in Sessions, sess[x].pc # "idle", sess[x].kind \notin Benign
  PROVE  \A y \in Sessions \ {x} : sess[y] = Idle
<1>1. \A y \in Sessions \ {x} : sess[y].pc = "idle"
  BY DEF SerialInv, Alone, Active
<1> QED
  BY <1>1 DEF SerialInv, SessionsInv, SessionOK

LEMMA IdleSerialOK == SerialOK(Idle)
BY DEF SerialOK, Idle, Filling, JobKinds

\* What a session knows stays true while the tables, the subscriptions and the
\* clock stay as they are.
LEMMA StillOK ==
  ASSUME SerialInv, UNCHANGED <<tables, subscription, clock>>,
         NEW y \in Sessions, sess'[y] = sess[y]
  PROVE  SerialOK(sess[y])'
<1>1. SerialOK(sess[y])
  BY DEF SerialInv
<1> QED
  BY <1>1 DEF tables, clock, SerialOK, FillingOK, PlacementOK, JobOK, ReleaseOK, ResetOK,
     Pending, FillableAt, Quote, FirstRow, RowsOf, HoldingAt,
     Serial!UnderBuyCap, Serial!BuysOn, Serial!Expired, Serial!LimitOrder,
     Serial!MarketOrder, Serial!PendingOf, Serial!Ids

LEMMA QuietSerial ==
  ASSUME SerialInv, SessionsInv', NEW x \in Sessions, NEW r, Goto(x, r),
         UNCHANGED <<tables, subscription, clock>>,
         SerialOK(sess[x])',
         \/ r = Idle
         \/ sess[x].pc # "idle" /\ r.kind = sess[x].kind
         \/ Overlapping \subseteq Benign /\ MayStart(r.kind)
  PROVE  SerialInv'
<1>1. /\ sess'[x] = r
      /\ \A y \in Sessions \ {x} : sess'[y] = sess[y]
  BY Moved DEF SerialInv, SessionsInv
<1>2. \A y \in Sessions : SerialOK(sess[y])'
  BY <1>1, StillOK
<1>3. Alone'
  BY <1>1 DEF SerialInv, Alone, Active, MayStart, Idle
<1>4. OneRow' /\ RowsFromFills' /\ OrdersBacked'
  BY DEF SerialInv, OneRow, RowsFromFills, OrdersBacked, Pending, RowsOf, tables
<1> QED
  BY <1>2, <1>3, <1>4 DEF SerialInv

LEMMA CheckSerial ==
  ASSUME SerialInv, SessionsInv', Overlapping \subseteq Benign,
         NEW x \in Sessions, NEW kind \in Placements, NEW u \in Users,
         NEW s \in Symbols, NEW t \in TradeTypes, NEW q \in Quantities,
         NEW l \in Prices, NEW p \in Prices, Check(x, kind, u, s, t, q, l, p)
  PROVE  SerialInv'
<1> DEFINE o == IF kind = "LIMIT" THEN Serial!LimitOrder(u, s, t, q, l)
                                  ELSE Serial!MarketOrder(u, s, t, q, p)
           r == [Idle EXCEPT !.pc = "portfolio", !.kind = kind,
                             !.quote = [z \in Symbols |-> p], !.o = o]
<1>1. /\ o.user_id = u /\ o.symbol = s /\ o.trade_type = t /\ o.quantity = q
      /\ kind = "LIMIT" => o.limit_price = l
  BY DEF Serial!LimitOrder, Serial!MarketOrder
<1>2. o = IF kind = "LIMIT" THEN Serial!LimitOrder(u, s, t, q, l)
                            ELSE Serial!MarketOrder(u, s, t, q, p)
  OBVIOUS
<1>3. Goto(x, r) /\ UNCHANGED <<tables, subscription, clock>>
  BY DEF Check
<1> HIDE DEF o
<1>4. /\ r.pc = "portfolio" /\ r.kind = kind /\ r.o = o
      /\ r.quote = [z \in Symbols |-> p]
  BY DEF Idle
<1> HIDE DEF r
<1>5. sess'[x] = r
  BY <1>3, Moved DEF SerialInv, SessionsInv
<1>6. /\ market = "OPEN" /\ Len(orders) < MaxOrders
      /\ kind # "trade" => Serial!UnderBuyCap(u, t)
      /\ kind = "LIMIT" => WithinBand(l, p)
  BY DEF Check
<1>7. UNCHANGED <<orders, subscription, day, market>>
  BY <1>3 DEF tables, clock
<1>8. PlacementOK(sess[x])'
  BY <1>1, <1>2, <1>4, <1>5, <1>6, <1>7
     DEF PlacementOK, Quote, Serial!LimitOrder, Serial!MarketOrder, Serial!UnderBuyCap,
         Serial!BuysOn, Serial!Ids
<1>9. SerialOK(sess[x])'
  BY <1>4, <1>5, <1>6, <1>7, <1>8
     DEF SerialOK, FillingOK, Filling, JobKinds, Placements
<1>10. MayStart(r.kind)
  BY <1>4 DEF Check
<1> QED
  BY <1>3, <1>9, <1>10, QuietSerial

LEMMA ReadPortfolioSerial ==
  ASSUME SerialInv, SessionsInv', NEW x \in Sessions, ReadPortfolio(x)
  PROVE  SerialInv'
<1> DEFINE s == sess[x]
           r == [s EXCEPT !.pf = portfolio[s.o.user_id],
                          !.pc = "holding"]
<1>1. IsSession(s) /\ SessionOK(s) /\ SerialOK(s) /\ s.pc = "portfolio"
  BY DEF SerialInv, SessionsInv, Typed, ReadPortfolio
<1>2. /\ r.kind = s.kind /\ r.id = s.id /\ r.todo = s.todo /\ r.o = s.o
      /\ r.quote = s.quote /\ r.user = s.user /\ r.loaded = s.loaded
      /\ r.pf = portfolio[s.o.user_id]
      /\ r.pc = "holding"
  BY <1>1 DEF IsSession, Idle
<1>3. Goto(x, r) /\ UNCHANGED <<tables, subscription, clock>>
  BY DEF ReadPortfolio
<1> HIDE DEF r
<1>4. sess'[x] = r
  BY <1>3, Moved DEF SerialInv, SessionsInv
<1>5. UNCHANGED <<portfolio, rows, orders, subscription, day, market>>
  BY <1>3 DEF tables, clock
<1>6. FillingOK(s) /\ (s.kind \in JobKinds => JobOK(s)) /\ s.kind \in Placements \cup {"execute"}
  BY <1>1 DEF SerialOK, SessionOK, Filling
<1>7. s.kind \in Placements => PlacementOK(sess[x])'
  BY <1>2, <1>4, <1>5, <1>6
     DEF FillingOK, PlacementOK, Quote, Serial!LimitOrder,
         Serial!MarketOrder, Serial!UnderBuyCap, Serial!BuysOn, Serial!Ids
<1>8. FillingOK(sess[x])'
  BY <1>2, <1>4, <1>5, <1>6, <1>7
     DEF FillingOK, Pending, FillableAt, Serial!Expired
<1>9. s.kind \in JobKinds => JobOK(sess[x])'
  BY <1>2, <1>4, <1>5, <1>6 DEF JobOK, FillableAt, Pending, Serial!Expired
<1>10. SerialOK(sess[x])'
  BY <1>2, <1>4, <1>6, <1>8, <1>9 DEF SerialOK, Placements
<1> QED
  BY <1>1, <1>2, <1>3, <1>10, QuietSerial

LEMMA ReadHoldingSerial ==
  ASSUME SerialInv, SessionsInv', NEW x \in Sessions, ReadHolding(x)
  PROVE  SerialInv'
<1> DEFINE s == sess[x]
<1>1. /\ IsSession(s) /\ SessionOK(s) /\ SerialOK(s) /\ s.pc = "holding"
      /\ BuyCapPassed(s)
  BY DEF SerialInv, SessionsInv, Typed, ReadHolding
<1>2. PICK k \in FirstRow(s.o.user_id, s.o.symbol) :
        Goto(x, [s EXCEPT !.pc = "commit", !.row = k, !.h = HoldingAt(k)])
  BY DEF ReadHolding
<1> DEFINE r == [s EXCEPT !.pc = "commit", !.row = k, !.h = HoldingAt(k)]
<1>3. /\ r.kind = s.kind /\ r.id = s.id /\ r.todo = s.todo /\ r.o = s.o
      /\ r.quote = s.quote /\ r.user = s.user /\ r.loaded = s.loaded
      /\ r.pf = s.pf /\ r.pc = "commit" /\ r.row = k /\ r.h = HoldingAt(k)
  BY <1>1 DEF IsSession, Idle
<1>4. Goto(x, r) /\ UNCHANGED <<tables, subscription, clock>>
  BY <1>2 DEF ReadHolding
<1> HIDE DEF r
<1>5. sess'[x] = r
  BY <1>4, Moved DEF SerialInv, SessionsInv
<1>6. UNCHANGED <<portfolio, rows, orders, subscription, day, market>>
  BY <1>4 DEF tables, clock
<1>7. FillingOK(s) /\ (s.kind \in JobKinds => JobOK(s)) /\ s.kind \in Placements \cup {"execute"}
  BY <1>1 DEF SerialOK, SessionOK, Filling
<1>8. s.kind \in Placements => PlacementOK(sess[x])'
  BY <1>1, <1>3, <1>5, <1>6, <1>7
     DEF FillingOK, PlacementOK, BuyCapPassed, Quote, Serial!LimitOrder,
         Serial!MarketOrder, Serial!UnderBuyCap, Serial!BuysOn, Serial!Ids
<1>9. s.pf = portfolio[s.o.user_id]
  BY <1>1, <1>7 DEF FillingOK
<1>10. FillingOK(sess[x])'
  BY <1>2, <1>3, <1>5, <1>6, <1>7, <1>8, <1>9
     DEF FillingOK, Pending, FillableAt, Serial!Expired, FirstRow, RowsOf, HoldingAt
<1>11. s.kind \in JobKinds => JobOK(sess[x])'
  BY <1>3, <1>5, <1>6, <1>7 DEF JobOK, FillableAt, Pending, Serial!Expired
<1>12. SerialOK(sess[x])'
  BY <1>3, <1>5, <1>7, <1>10, <1>11 DEF SerialOK, Placements
<1> QED
  BY <1>1, <1>3, <1>4, <1>12, QuietSerial

LEMMA IdleSerial ==
  ASSUME SerialInv, SessionsInv', NEW x \in Sessions, Goto(x, Idle),
         UNCHANGED <<tables, subscription, clock>>
  PROVE  SerialInv'
<1>1. sess'[x] = Idle
  BY Moved DEF SerialInv, SessionsInv
<1>2. SerialOK(sess[x])'
  BY <1>1 DEF SerialOK, Idle, Filling, JobKinds
<1>3. \E r : r = Idle
  OBVIOUS
<1>4. PICK r : r = Idle
  BY <1>3
<1>5. Goto(x, r)
  BY <1>4
<1> QED
  BY <1>2, <1>4, <1>5, QuietSerial

LEMMA AbortedSerial ==
  ASSUME SerialInv, SessionsInv', NEW x \in Sessions, sess[x].pc # "idle",
         Goto(x, Aborted(x)), UNCHANGED <<tables, subscription, clock>>
  PROVE  SerialInv'
<1> DEFINE s == sess[x]
<1>1. CASE s.kind \notin JobKinds
  <2>1. Goto(x, Idle)
    BY <1>1 DEF Aborted
  <2> QED
    BY <2>1, IdleSerial
<1>2. CASE s.kind \in JobKinds
  <2> DEFINE r == [Idle EXCEPT !.pc = "next", !.kind = s.kind, !.user = s.user,
                    !.quote = s.quote, !.todo = s.todo, !.full = s.full]
  <2>1. Goto(x, r)
    BY <1>2 DEF Aborted, Continued
  <2>2. /\ r.pc = "next" /\ r.kind = s.kind /\ r.quote = s.quote
        /\ r.todo = s.todo /\ r.loaded = {}
    BY DEF Idle
  <2> HIDE DEF r
  <2>3. sess'[x] = r
    BY <2>1, Moved DEF SerialInv, SessionsInv
  <2>4. UNCHANGED <<orders, day, market>>
    BY DEF tables, clock
  <2>5. JobOK(s)
    BY <1>2 DEF SerialInv, SerialOK
  <2>6. JobOK(sess[x])'
    BY <2>2, <2>3, <2>4, <2>5 DEF JobOK, FillableAt, Pending, Serial!Expired
  <2>7. SerialOK(sess[x])'
    BY <1>2, <2>2, <2>3, <2>6 DEF SerialOK, Filling, JobKinds
  <2> QED
    BY <2>1, <2>2, <2>7, QuietSerial
<1> QED
  BY <1>1, <1>2

\* Taking a row lock.
LEMMA LockSerial ==
  ASSUME SerialInv, SessionsInv', NEW x \in Sessions, NEW i \in DOMAIN orders, NEW rec,
         IsSession(rec), LockOrder(x, i, rec),
         \/ sess[x].pc # "idle" /\ rec.kind = sess[x].kind
         \/ Overlapping \subseteq Benign /\ MayStart(rec.kind),
         rec.pc \in {"release", "portfolio"},
         Pending(i),
         rec.kind \in {"cancel"} \cup JobKinds \cup {"reset"},
         rec.pc = "portfolio" => rec.kind = "execute" /\ ~Serial!Expired(orders[i]),
         rec.pc = "release" /\ rec.kind \in JobKinds => Serial!Expired(orders[i]),
         rec.kind = "execute" => market = "OPEN" /\ FillableAt(orders[i], rec.quote),
         rec.kind \in JobKinds => /\ JobOK(sess[x]) /\ rec.quote = sess[x].quote
                                  /\ rec.kind = sess[x].kind,
         rec.kind = "reset" => /\ ResetOK(sess[x]) /\ sess[x].id = 0
                               /\ rec.user = sess[x].user
                               /\ i \in sess[x].todo,
         rec.todo = sess[x].todo \ {i},
         rec.loaded = sess[x].loaded
  PROVE  SerialInv'
<1> DEFINE r == [rec EXCEPT !.id = i, !.o = orders[i]]
<1>1. /\ r.pc = rec.pc /\ r.kind = rec.kind /\ r.id = i /\ r.todo = rec.todo
      /\ r.o = orders[i] /\ r.quote = rec.quote /\ r.user = rec.user
      /\ r.loaded = rec.loaded
  BY DEF IsSession, Idle
<1>2. Goto(x, r) /\ UNCHANGED <<tables, subscription, clock>>
  BY DEF LockOrder
<1> HIDE DEF r
<1>3. sess'[x] = r
  BY <1>2, Moved DEF SerialInv, SessionsInv
<1>4. UNCHANGED <<portfolio, rows, orders, subscription, day, market>>
  BY <1>2 DEF tables, clock
<1>5. r.pc = "portfolio" => FillingOK(sess[x])'
  BY <1>1, <1>3, <1>4 DEF FillingOK, Placements, Pending, FillableAt, Serial!Expired
<1>6. r.kind \in JobKinds => JobOK(sess[x])'
  <2> SUFFICES ASSUME r.kind \in JobKinds PROVE JobOK(sess[x])'
    OBVIOUS
  <2>1. /\ r.kind = "execute" =>
             /\ market = "OPEN"
             /\ \A j \in r.todo : orders[j].order_type = "LIMIT" /\ FillableAt(orders[j], r.quote)
        /\ r.kind = "expire" => \A j \in r.todo : Serial!Expired(orders[j])
        /\ \A j \in r.todo \cap r.loaded : Pending(j)
    <3>1. JobOK(sess[x]) /\ r.quote = sess[x].quote /\ r.todo \subseteq sess[x].todo
          /\ r.loaded = sess[x].loaded
      BY <1>1
    <3>2. sess[x].kind = r.kind
      BY <1>1
    <3> QED
      BY <1>1, <3>1, <3>2 DEF JobOK
  <2> QED
    BY <1>3, <1>4, <2>1 DEF JobOK, FillableAt, Pending, Serial!Expired
<1>7. r.pc = "release" => ReleaseOK(sess[x])'
  BY <1>1, <1>3, <1>4 DEF ReleaseOK, FillableAt, Pending, Serial!Expired
<1>8. r.kind = "reset" => ResetOK(sess[x])'
  <2> SUFFICES ASSUME r.kind = "reset" PROVE ResetOK(sess[x])'
    OBVIOUS
  <2>1. Serial!PendingOf(r.user) \subseteq r.todo \cup {r.id}
    BY <1>1, OrderIds DEF ResetOK, SerialInv, SessionsInv, Serial!PendingOf, Serial!Ids
  <2> QED
    BY <1>1, <1>3, <1>4, <2>1 DEF ResetOK, Serial!PendingOf, Serial!Ids
<1>9. SerialOK(sess[x])'
  BY <1>1, <1>3, <1>5, <1>6, <1>7, <1>8 DEF SerialOK, Filling
<1> QED
  BY <1>1, <1>2, <1>9, QuietSerial

LEMMA CancelSerial ==
  ASSUME SerialInv, SessionsInv', Overlapping \subseteq Benign,
         NEW x \in Sessions, NEW i \in DOMAIN orders, Cancel(x, i)
  PROVE  SerialInv'
<1> DEFINE rec == [Idle EXCEPT !.pc = "release", !.kind = "cancel"]
<1>1. /\ rec.pc = "release" /\ rec.kind = "cancel" /\ rec.todo = {} /\ rec.loaded = {}
      /\ IsSession(rec)
  BY DEF IsSession, Idle, Pcs, Kinds, IsHolding, EmptyHolding
<1>2. LockOrder(x, i, rec) /\ Pending(i) /\ MayStart("cancel") /\ sess[x] = Idle
  BY DEF Cancel, Pending, SerialInv, SessionsInv, SessionOK
<1>3. sess[x].todo = {} /\ sess[x].loaded = {}
  BY <1>2 DEF Idle
<1> HIDE DEF rec
<1> QED
  BY <1>1, <1>2, <1>3, LockSerial DEF JobKinds

LEMMA ResetCancelSerial ==
  ASSUME SerialInv, SessionsInv', NEW x \in Sessions, NEW i \in sess[x].todo,
         ResetCancel(x, i)
  PROVE  SerialInv'
<1>1. /\ IsSession(sess[x]) /\ SessionOK(sess[x]) /\ ResetOK(sess[x])
      /\ sess[x].kind = "reset" /\ sess[x].pc = "next"
  BY DEF SerialInv, SerialOK, SessionsInv, Typed, ResetCancel
<1>2. i \in DOMAIN orders /\ sess[x].id = 0
  BY <1>1 DEF SessionOK
<1>3. CASE Pending(i)
  <2> DEFINE rec == [sess[x] EXCEPT !.pc = "release", !.todo = @ \ {i}]
  <2>1. /\ rec.pc = "release" /\ rec.kind = "reset" /\ rec.todo = sess[x].todo \ {i}
        /\ rec.loaded = sess[x].loaded
        /\ IsSession(rec) /\ rec.user = sess[x].user
    BY <1>1 DEF IsSession, Idle, Pcs
  <2>2. LockOrder(x, i, rec)
    BY <1>3 DEF ResetCancel, Pending
  <2> HIDE DEF rec
  <2> QED
    BY <1>1, <1>2, <1>3, <2>1, <2>2, LockSerial DEF JobKinds
<1>4. CASE ~Pending(i)
  BY <1>1, <1>4, AbortedSerial DEF ResetCancel, Pending
<1> QED
  BY <1>3, <1>4

LEMMA TakeOrderSerial ==
  ASSUME SerialInv, SessionsInv', NEW x \in Sessions, TakeOrder(x)
  PROVE  SerialInv'
<1> DEFINE s == sess[x]
<1>1. IsSession(s) /\ SessionOK(s) /\ JobOK(s) /\ s.pc = "next" /\ s.kind \in JobKinds
  BY DEF SerialInv, SerialOK, SessionsInv, Typed, TakeOrder, AtOrder
<1>2. PICK i \in s.todo :
        /\ i \in s.loaded
        /\ LockOrder(x, i,
             [s EXCEPT !.todo = @ \ {i},
                       !.pc = IF s.kind = "execute" /\ ~Serial!Expired(orders[i])
                              THEN "portfolio" ELSE "release"])
  BY DEF TakeOrder
<1> DEFINE rec == [s EXCEPT !.todo = @ \ {i},
                    !.pc = IF s.kind = "execute" /\ ~Serial!Expired(orders[i])
                           THEN "portfolio" ELSE "release"]
<1>3. /\ IsSession(rec) /\ rec.kind = s.kind /\ rec.todo = s.todo \ {i}
      /\ rec.quote = s.quote /\ rec.loaded = s.loaded
      /\ rec.pc = IF s.kind = "execute" /\ ~Serial!Expired(orders[i])
                  THEN "portfolio" ELSE "release"
  BY <1>1 DEF IsSession, Idle, Pcs
<1>4. LockOrder(x, i, rec)
  BY <1>2
<1> HIDE DEF rec
<1>5. i \in DOMAIN orders /\ Pending(i)
  BY <1>1, <1>2 DEF SessionOK, JobOK
<1>6. /\ s.kind = "execute" => market = "OPEN" /\ FillableAt(orders[i], s.quote)
      /\ s.kind = "expire" => Serial!Expired(orders[i])
  BY <1>1 DEF JobOK
<1>7. rec.pc = "portfolio" => rec.kind = "execute" /\ ~Serial!Expired(orders[i])
  BY <1>3
<1>8. rec.pc = "release" /\ rec.kind \in JobKinds => Serial!Expired(orders[i])
  BY <1>3, <1>6 DEF JobKinds
<1> QED
  BY <1>1, <1>3, <1>4, <1>5, <1>6, <1>7, <1>8, LockSerial DEF JobKinds

LEMMA ResetListSerial ==
  ASSUME SerialInv, SessionsInv', Overlapping \subseteq Benign,
         NEW x \in Sessions, NEW u \in Users, ResetList(x, u)
  PROVE  SerialInv'
<1> DEFINE r == [Idle EXCEPT !.pc = "next", !.kind = "reset", !.user = u,
                             !.todo = Serial!PendingOf(u)]
<1>1. /\ r.pc = "next" /\ r.kind = "reset" /\ r.id = 0 /\ r.user = u
      /\ r.todo = Serial!PendingOf(u)
  BY DEF Idle
<1>2. Goto(x, r) /\ UNCHANGED <<tables, subscription, clock>> /\ MayStart("reset")
  BY DEF ResetList
<1> HIDE DEF r
<1>3. sess'[x] = r
  BY <1>2, Moved DEF SerialInv, SessionsInv
<1>4. UNCHANGED <<portfolio, rows, orders>>
  BY <1>2 DEF tables
<1>5. ResetOK(sess[x])'
  BY <1>1, <1>3, <1>4 DEF ResetOK, Serial!PendingOf, Serial!Ids
<1>6. SerialOK(sess[x])'
  BY <1>1, <1>3, <1>5 DEF SerialOK, Filling, JobKinds
<1> QED
  BY <1>1, <1>2, <1>6, QuietSerial

LEMMA WipeDeleteSerial ==
  ASSUME SerialInv, SessionsInv', NEW x \in Sessions, WipeDelete(x)
  PROVE  SerialInv'
<1> DEFINE s == sess[x]
           mine == {r \in DOMAIN rows : rows[r].user_id = s.user}
           r == [s EXCEPT !.pc = "wipe", !.doomed = mine, !.pf = portfolio[s.user]]
<1>1. /\ IsSession(s) /\ ResetOK(s) /\ s.kind = "reset" /\ s.pc = "next" /\ s.todo = {}
      /\ s.id = 0
  BY DEF SerialInv, SerialOK, SessionsInv, Typed, SessionOK, WipeDelete
<1>2. /\ r.pc = "wipe" /\ r.kind = "reset" /\ r.id = 0 /\ r.todo = {} /\ r.user = s.user
      /\ r.doomed = mine /\ r.pf = portfolio[s.user]
  BY <1>1 DEF IsSession, Idle
<1>3. Goto(x, r) /\ UNCHANGED <<tables, subscription, clock>>
  BY DEF WipeDelete
<1> HIDE DEF r
<1>4. sess'[x] = r
  BY <1>3, Moved DEF SerialInv, SessionsInv
<1>5. UNCHANGED <<portfolio, rows, orders>>
  BY <1>3 DEF tables
<1>6. ResetOK(sess[x])'
  BY <1>1, <1>2, <1>4, <1>5 DEF ResetOK, Serial!PendingOf, Serial!Ids
<1>7. SerialOK(sess[x])'
  BY <1>2, <1>4, <1>6 DEF SerialOK, Filling, JobKinds
<1> QED
  BY <1>1, <1>2, <1>3, <1>7, QuietSerial

LEMMA ExecuteTickSerial ==
  ASSUME SerialInv, SessionsInv', Overlapping \subseteq Benign,
         NEW x \in Sessions, NEW quote \in [Symbols -> Prices], ExecuteTick(x, quote)
  PROVE  SerialInv'
<1> DEFINE worth == {i \in Oldest(PendingLimit, ExecutionBatch) :
                       IsLimitFillable(orders[i].trade_type, orders[i].limit_price,
                                       quote[orders[i].symbol])}
           r == [Idle EXCEPT !.pc = "next", !.kind = "execute", !.quote = quote,
                             !.todo = worth, !.loaded = worth]
<1>1. \A i \in worth : /\ Pending(i) /\ orders[i].order_type = "LIMIT"
                       /\ FillableAt(orders[i], quote)
  BY DEF Oldest, PendingLimit, Pending, FillableAt
<1>2. /\ Goto(x, r) /\ UNCHANGED <<tables, subscription, clock>>
      /\ MayStart("execute") /\ market = "OPEN"
  BY DEF ExecuteTick
<1> HIDE DEF worth
<1>3. r.pc = "next" /\ r.kind = "execute" /\ r.todo = worth /\ r.loaded = worth
      /\ r.quote = quote
  BY DEF Idle
<1> HIDE DEF r
<1>4. sess'[x] = r
  BY <1>2, Moved DEF SerialInv, SessionsInv
<1>5. UNCHANGED <<orders, market>>
  BY <1>2 DEF tables, clock
<1>6. JobOK(sess[x])'
  BY <1>1, <1>2, <1>3, <1>4, <1>5 DEF JobOK, FillableAt, Pending
<1>7. SerialOK(sess[x])'
  BY <1>3, <1>4, <1>6 DEF SerialOK, Filling, JobKinds
<1> QED
  BY <1>2, <1>3, <1>7, QuietSerial

LEMMA ExpiryQuerySerial ==
  ASSUME SerialInv, SessionsInv', NEW x \in Sessions, ExpiryQuery(x),
         \/ sess[x].pc # "idle" /\ sess[x].kind = "expire"
         \/ Overlapping \subseteq Benign /\ MayStart("expire")
  PROVE  SerialInv'
<1> DEFINE batch == Oldest(Stale, ExpiryBatch)
           r == [Idle EXCEPT !.pc = "next", !.kind = "expire", !.todo = batch,
                             !.loaded = batch, !.full = Cardinality(batch) = ExpiryBatch]
<1>1. \A i \in batch : Pending(i) /\ Serial!Expired(orders[i])
  BY DEF Oldest, Stale, Pending
<1>2. Goto(x, Idle) \/ Goto(x, r)
  BY DEF ExpiryQuery
<1>3. UNCHANGED <<tables, subscription, clock>>
  BY DEF ExpiryQuery
<1> HIDE DEF batch
<1>4. r.pc = "next" /\ r.kind = "expire" /\ r.todo = batch /\ r.loaded = batch
  BY DEF Idle
<1> HIDE DEF r
<1>5. CASE Goto(x, Idle)
  BY <1>3, <1>5, IdleSerial
<1>6. CASE Goto(x, r)
  <2>1. sess'[x] = r
    BY <1>6, Moved DEF SerialInv, SessionsInv
  <2>2. UNCHANGED <<orders, day, market>>
    BY <1>3 DEF tables, clock
  <2>3. JobOK(sess[x])'
    BY <1>1, <1>4, <2>1, <2>2 DEF JobOK, Pending, Serial!Expired
  <2>4. SerialOK(sess[x])'
    BY <1>4, <2>1, <2>3 DEF SerialOK, Filling, JobKinds
  <2> QED
    BY <1>3, <1>4, <1>6, <2>4, QuietSerial
<1> QED
  BY <1>2, <1>5, <1>6

LEMMA ReloadSerial ==
  ASSUME SerialInv, SessionsInv', NEW x \in Sessions, Reload(x)
  PROVE  SerialInv'
<1> DEFINE s == sess[x]
<1>1. IsSession(s) /\ JobOK(s) /\ s.pc = "next" /\ s.kind \in JobKinds
  BY DEF SerialInv, SerialOK, SessionsInv, Typed, Reload, AtOrder
<1>2. PICK i \in s.todo :
        Goto(x, IF orders[i].status = "PENDING"
                THEN [s EXCEPT !.loaded = @ \cup {i}]
                ELSE [s EXCEPT !.todo = @ \ {i}])
  BY DEF Reload
<1> DEFINE r == IF orders[i].status = "PENDING" THEN [s EXCEPT !.loaded = @ \cup {i}]
                                                 ELSE [s EXCEPT !.todo = @ \ {i}]
<1>3. /\ Goto(x, r) /\ r.pc = "next" /\ r.kind = s.kind /\ r.quote = s.quote
      /\ r.todo \subseteq s.todo
      /\ r.loaded \subseteq s.loaded \cup {i}
      /\ i \in r.loaded /\ i \notin s.loaded => Pending(i)
  BY <1>1, <1>2 DEF IsSession, Idle, Pending
<1> HIDE DEF r
<1>4. UNCHANGED <<tables, subscription, clock>>
  BY DEF Reload
<1>5. sess'[x] = r
  BY <1>3, Moved DEF SerialInv, SessionsInv
<1>6. UNCHANGED <<orders, day, market>>
  BY <1>4 DEF tables, clock
<1>7. JobOK(sess[x])'
  BY <1>1, <1>3, <1>5, <1>6 DEF JobOK, FillableAt, Pending, Serial!Expired
<1>8. SerialOK(sess[x])'
  BY <1>1, <1>3, <1>5, <1>7 DEF SerialOK, Filling, JobKinds
<1> QED
  BY <1>1, <1>3, <1>4, <1>8, QuietSerial

\* What cancels and resets rely on is neither the clock nor the subscription.
LEMMA WorldSerial ==
  ASSUME SerialInv, SessionsInv', Overlapping \subseteq Benign,
         NEW kind \in {"clock", "upgrade"}, MayStart(kind), UNCHANGED <<tables, sess>>
  PROVE  SerialInv'
<1>1. \A x \in Sessions : sess[x].pc = "idle" \/ sess[x].kind \in Benign
  BY DEF MayStart, Active
<1>2. ASSUME NEW x \in Sessions PROVE SerialOK(sess[x])'
  <2> DEFINE s == sess[x]
  <2>1. SerialOK(s) /\ SessionOK(s) /\ sess'[x] = s
    BY DEF SerialInv, SessionsInv
  <2>2. CASE s.pc = "idle"
    BY <2>1, <2>2 DEF SessionOK, SerialOK, Idle, Filling, JobKinds
  <2>3. CASE s.pc # "idle"
    <3>1. s.kind \in Benign /\ s.pc \notin Filling
      BY <1>1, <2>1, <2>3 DEF SessionOK, Benign, Placements
    <3>2. UNCHANGED <<portfolio, rows, orders>>
      BY DEF tables
    <3>3. s.pc = "release" => ReleaseOK(sess[x])'
      BY <2>1, <3>1, <3>2 DEF SerialOK, ReleaseOK, Pending, Benign, JobKinds
    <3>4. s.kind = "reset" => ResetOK(sess[x])'
      BY <2>1, <3>2 DEF SerialOK, ResetOK, Serial!PendingOf, Serial!Ids
    <3> QED
      BY <2>1, <3>1, <3>3, <3>4 DEF SerialOK, Benign, JobKinds
  <2> QED
    BY <2>2, <2>3
<1>3. Alone' /\ OneRow' /\ RowsFromFills' /\ OrdersBacked'
  BY DEF SerialInv, Alone, Active, OneRow, RowsFromFills, OrdersBacked, Pending, RowsOf, tables
<1> QED
  BY <1>2, <1>3 DEF SerialInv

-----------------------------------------------------------------------------
(* The invariant of a serial schedule: steps that write. *)

LEMMA AloneKept ==
  ASSUME SerialInv, NEW x \in Sessions, NEW r, Goto(x, r), sess[x].pc # "idle",
         r = Idle \/ r.kind = sess[x].kind
  PROVE  Alone'
<1>1. /\ sess'[x] = r
      /\ \A y \in Sessions \ {x} : sess'[y] = sess[y]
  BY Moved DEF SerialInv, SessionsInv
<1> QED
  BY <1>1 DEF SerialInv, Alone, Active, Idle

\* After a commit a job or a reset goes on with the orders it has left.
LEMMA ContinuedFacts ==
  ASSUME NEW x \in Sessions
  PROVE  \/ /\ Continued(x) = Idle
            /\ sess[x].kind \notin JobKinds \cup {"reset"}
         \/ LET s == sess[x]
                r == Continued(x)
            IN /\ s.kind \in JobKinds \cup {"reset"}
               /\ r.pc = "next" /\ r.kind = s.kind /\ r.id = 0 /\ r.user = s.user
               /\ r.todo = s.todo /\ r.quote = s.quote /\ r.loaded = {}
<1> DEFINE s == sess[x]
           r == [Idle EXCEPT !.pc = "next", !.kind = s.kind, !.user = s.user,
                    !.quote = s.quote, !.todo = s.todo, !.full = s.full]
<1>1. /\ r.pc = "next" /\ r.kind = s.kind /\ r.id = 0 /\ r.user = s.user
      /\ r.todo = s.todo /\ r.quote = s.quote /\ r.loaded = {}
  BY DEF Idle
<1>2. CASE s.kind \in JobKinds \cup {"reset"}
  <2>1. Continued(x) = r
    BY <1>2 DEF Continued
  <2> HIDE DEF r
  <2> QED
    BY <1>1, <1>2, <2>1
<1>3. CASE s.kind \notin JobKinds \cup {"reset"}
  BY <1>3 DEF Continued
<1> QED
  BY <1>2, <1>3

\* The holding o was promised from, if there is one, gets its shares back.
SharesReleased(o) ==
  \/ /\ RowsOf(o.user_id, o.symbol) = {} /\ o.trade_type # "SELL"
     /\ rows' = rows
  \/ \E k \in RowsOf(o.user_id, o.symbol) :
       rows' = [rows EXCEPT ![k].h = ReleaseShares(@, o)]

\* What leaves PENDING without a fill, and what it gives back.
LEMMA ReleaseEffect ==
  ASSUME SerialInv, NEW x \in Sessions, Release(x), NEW i, i = sess[x].id, NEW o, o = sess[x].o
  PROVE  /\ i \in DOMAIN orders /\ i # 0 /\ o = orders[i] /\ o \in Serial!Order
         /\ Pending(i) /\ o.order_type = "LIMIT"
         /\ portfolio[o.user_id] # NoRow
         /\ portfolio' = [portfolio EXCEPT ![o.user_id] = ReleaseFunds(@, o)]
         /\ orders' = [orders EXCEPT ![i] = [@ EXCEPT !.status = StatusGiven(sess[x].kind)]]
         /\ SharesReleased(o)
         /\ sess[x].kind \in JobKinds \cup {"cancel", "reset"}
         /\ ReleaseOK(sess[x])
<1>1. SessionOK(sess[x]) /\ SerialOK(sess[x]) /\ sess[x].pc = "release"
  BY DEF SerialInv, SessionsInv, Release
<1>2. /\ i \in DOMAIN orders /\ i # 0 /\ o = orders[i] /\ o \in Serial!Order
      /\ sess[x].kind \in JobKinds \cup {"cancel", "reset"}
  BY <1>1, OrderIds DEF SessionOK, SerialInv, SessionsInv
<1>3. ReleaseOK(sess[x]) /\ Pending(i)
  BY <1>1 DEF SerialOK, ReleaseOK
<1>4. o.order_type = "LIMIT" /\ (o.trade_type = "SELL" => RowsOf(o.user_id, o.symbol) # {})
  BY <1>2, <1>3 DEF SerialInv, OrdersBacked
<1>5. portfolio[o.user_id] # NoRow
  BY <1>2 DEF SerialInv, SessionsInv, AccountsExist
<1>6. PICK k \in FirstRow(o.user_id, o.symbol) :
        rows' = IF k = 0 THEN rows ELSE [rows EXCEPT ![k].h = ReleaseShares(@, o)]
  BY DEF Release
<1>7. 0 \notin RowsOf(o.user_id, o.symbol)
  BY DEF RowsOf, SerialInv, SessionsInv, Typed
<1>8. SharesReleased(o)
  BY <1>4, <1>6, <1>7 DEF FirstRow, SharesReleased
<1>9. /\ portfolio' = [portfolio EXCEPT ![o.user_id] = ReleaseFunds(@, o)]
      /\ orders' = [orders EXCEPT ![i] = [@ EXCEPT !.status = StatusGiven(sess[x].kind)]]
  BY DEF Release
<1> QED
  BY <1>2, <1>3, <1>4, <1>5, <1>8, <1>9

LEMMA ReleaseSerial ==
  ASSUME SerialInv, SessionsInv', NEW x \in Sessions, Release(x)
  PROVE  SerialInv'
<1> DEFINE s == sess[x]
           i == s.id
           o == s.o
           st == StatusGiven(s.kind)
<1>1. /\ i \in DOMAIN orders /\ i # 0 /\ o = orders[i] /\ o \in Serial!Order /\ Pending(i)
      /\ portfolio' = [portfolio EXCEPT ![o.user_id] = ReleaseFunds(@, o)]
      /\ orders' = [orders EXCEPT ![i] = [@ EXCEPT !.status = st]]
      /\ SharesReleased(o)
      /\ s.kind \in JobKinds \cup {"cancel", "reset"}
  BY ReleaseEffect
<1>2. /\ Goto(x, Continued(x)) /\ UNCHANGED <<trades, subscription, clock>> /\ s.pc = "release"
  BY DEF Release
<1>3. sess'[x] = Continued(x) /\ \A y \in Sessions \ {x} : sess'[y] = sess[y]
  BY <1>2, Moved DEF SerialInv, SessionsInv
<1>4. st \in Statuses /\ st # "PENDING"
  BY <1>1 DEF StatusGiven, Statuses, JobKinds
<1>5. /\ DOMAIN orders' = DOMAIN orders
      /\ \A j \in DOMAIN orders :
           /\ j # i => orders'[j] = orders[j]
           /\ orders'[j].user_id = orders[j].user_id
           /\ orders'[j].symbol = orders[j].symbol
           /\ orders'[j].trade_type = orders[j].trade_type
           /\ orders'[j].order_type = orders[j].order_type
           /\ orders'[j].limit_price = orders[j].limit_price
           /\ orders'[j].created_day = orders[j].created_day
           /\ orders'[j].status = IF j = i THEN st ELSE orders[j].status
  <2>1. orders' = [orders EXCEPT ![i] = [o EXCEPT !.status = st]]
    BY <1>1
  <2>2. /\ [o EXCEPT !.status = st].user_id = o.user_id
        /\ [o EXCEPT !.status = st].symbol = o.symbol
        /\ [o EXCEPT !.status = st].trade_type = o.trade_type
        /\ [o EXCEPT !.status = st].order_type = o.order_type
        /\ [o EXCEPT !.status = st].limit_price = o.limit_price
        /\ [o EXCEPT !.status = st].created_day = o.created_day
        /\ [o EXCEPT !.status = st].status = st
    BY <1>1 DEF Serial!Order
  <2>3. orders \in Seq(Serial!Order) /\ DOMAIN orders = 1 .. Len(orders)
    BY OrderIds DEF SerialInv, SessionsInv, Typed
  <2> HIDE DEF o, i, st
  <2> QED
    BY <1>1, <2>1, <2>2, <2>3
<1>6. /\ DOMAIN rows' = DOMAIN rows
      /\ \A r \in DOMAIN rows :
           rows'[r].user_id = rows[r].user_id /\ rows'[r].symbol = rows[r].symbol
  <2>1. \A r \in DOMAIN rows : \A h :
          /\ [rows[r] EXCEPT !.h = h].user_id = rows[r].user_id
          /\ [rows[r] EXCEPT !.h = h].symbol = rows[r].symbol
    BY DEF SerialInv, SessionsInv, Typed, IsRow
  <2>2. ASSUME NEW k \in RowsOf(o.user_id, o.symbol),
               rows' = [rows EXCEPT ![k].h = ReleaseShares(@, o)]
        PROVE  /\ DOMAIN rows' = DOMAIN rows
               /\ \A r \in DOMAIN rows :
                    /\ rows'[r].user_id = rows[r].user_id
                    /\ rows'[r].symbol = rows[r].symbol
    <3>1. PICK h : rows' = [rows EXCEPT ![k] = [rows[k] EXCEPT !.h = h]]
      BY <2>2
    <3>2. k \in DOMAIN rows
      BY DEF RowsOf
    <3>3. rows = [r \in DOMAIN rows |-> rows[r]]
      BY DEF SerialInv, SessionsInv, Typed
    <3> QED
      BY <2>1, <3>1, <3>2, <3>3
  <2> QED
    BY <1>1, <2>2 DEF SharesReleased
<1>7. \A u, z : RowsOf(u, z)' = RowsOf(u, z)
  BY <1>6 DEF RowsOf
<1>8. OneRow' /\ RowsFromFills'
  BY <1>2, <1>6 DEF SerialInv, OneRow, RowsFromFills
<1>9. OrdersBacked'
  BY <1>4, <1>5, <1>6 DEF SerialInv, OrdersBacked, Pending, RowsOf
<1>10. Alone'
  <2>1. Continued(x) = Idle \/ Continued(x).kind = s.kind
    BY ContinuedFacts
  <2> QED
    BY <1>2, <2>1, AloneKept
<1>11. SerialOK(sess[x])'
  <2>1. CASE Continued(x) = Idle
    BY <1>3, <2>1 DEF SerialOK, Idle, Filling, JobKinds
  <2>2. CASE s.kind \in JobKinds
    <3>1. JobOK(s) /\ s.todo \subseteq DOMAIN orders
      BY <2>2 DEF SerialInv, SerialOK, SessionsInv, SessionOK
    <3>2. LET r == Continued(x) IN /\ r.pc = "next" /\ r.kind = s.kind /\ r.loaded = {}
                                   /\ r.todo = s.todo /\ r.quote = s.quote
      BY <2>2, ContinuedFacts
    <3>3. JobOK(sess[x])'
      BY <1>2, <1>3, <1>5, <3>1, <3>2 DEF JobOK, FillableAt, Serial!Expired, clock
    <3> QED
      BY <1>3, <2>2, <3>2, <3>3 DEF SerialOK, Filling, JobKinds
  <2>3. CASE s.kind = "reset"
    <3>1. ResetOK(s) /\ s.todo \subseteq DOMAIN orders
      BY <2>3 DEF SerialInv, SerialOK, SessionsInv, SessionOK
    <3>2. LET r == Continued(x) IN /\ r.pc = "next" /\ r.kind = "reset" /\ r.user = s.user
                                   /\ r.todo = s.todo
      BY <2>3, ContinuedFacts
    <3>3. ResetOK(sess[x])'
      BY <1>3, <1>4, <1>5, <3>1, <3>2 DEF ResetOK, Serial!PendingOf, Serial!Ids
    <3> QED
      BY <1>3, <3>2, <3>3 DEF SerialOK, Filling, JobKinds
  <2> QED
    BY <2>1, <2>2, <2>3, ContinuedFacts
<1>12. ASSUME NEW y \in Sessions \ {x} PROVE SerialOK(sess[y])'
  <2> DEFINE w == sess[y]
  <2>1. SessionOK(w) /\ SerialOK(w) /\ sess'[y] = w
    BY <1>3 DEF SerialInv, SessionsInv
  <2>2. CASE w.pc = "idle"
    BY <2>1, <2>2 DEF SessionOK, SerialOK, Idle, Filling, JobKinds
  <2>3. CASE w.pc # "idle"
    <3>1. w.kind \in Benign /\ w.pc \notin Filling
      BY <1>2, <2>1, <2>3 DEF SerialInv, Alone, Active, SessionOK, Benign, Placements
    <3>2. w.id # 0 => w.id # i /\ w.id \in DOMAIN orders
      BY <2>1 DEF SerialInv, SessionsInv, LocksExclude, SessionOK
    <3>3. w.pc = "release" => ReleaseOK(sess[y])'
      <4> SUFFICES ASSUME w.pc = "release" PROVE ReleaseOK(sess[y])'
        OBVIOUS
      <4>1. Pending(w.id) /\ w.id # 0
        BY <2>1 DEF SerialOK, ReleaseOK, SessionOK
      <4> QED
        BY <1>5, <2>1, <3>1, <3>2, <4>1 DEF ReleaseOK, Pending, Benign, JobKinds
    <3>4. w.kind = "reset" => ResetOK(sess[y])'
      <4> SUFFICES ASSUME w.kind = "reset" PROVE ResetOK(sess[y])'
        OBVIOUS
      <4>1. ResetOK(w) /\ w.todo \subseteq DOMAIN orders /\ w.user \in Users
        BY <2>1 DEF SerialOK, SessionOK
      <4>2. Serial!PendingOf(w.user)' \subseteq Serial!PendingOf(w.user)
        BY <1>4, <1>5, <2>1 DEF Serial!PendingOf, Serial!Ids
      <4>3. w.pc = "wipe" => portfolio'[w.user] = portfolio[w.user]
        <5> SUFFICES ASSUME w.pc = "wipe" PROVE portfolio'[w.user] = portfolio[w.user]
          OBVIOUS
        <5>1. Serial!PendingOf(w.user) \subseteq {0}
          BY <2>1, <4>1 DEF ResetOK, SessionOK
        <5>2. o.user_id # w.user
          BY <1>1, <5>1 DEF Serial!PendingOf, Serial!Ids, Pending
        <5>3. portfolio = [u \in Users |-> portfolio[u]]
          BY DEF SerialInv, SessionsInv, Typed
        <5> QED
          BY <1>1, <4>1, <5>2, <5>3
      <4> QED
        BY <1>5, <1>6, <2>1, <4>1, <4>2, <4>3 DEF ResetOK, Serial!PendingOf, Serial!Ids
    <3> QED
      BY <2>1, <3>1, <3>3, <3>4 DEF SerialOK, Benign, JobKinds
  <2> QED
    BY <2>2, <2>3
<1> QED
  BY <1>8, <1>9, <1>10, <1>11, <1>12 DEF SerialInv

\* A fresh portfolio, and no holding of the user.
AccountWiped(u) ==
  /\ portfolio' = [portfolio EXCEPT ![u] = FreshPortfolio(InitialBalance)]
  /\ resetAt' = [resetAt EXCEPT ![u] = Len(orders)]
  /\ DOMAIN rows' = {r \in DOMAIN rows : rows[r].user_id # u}
  /\ \A r \in DOMAIN rows' : rows'[r] = rows[r]

\* What a wipe writes.
LEMMA WipeEffect ==
  ASSUME SerialInv, NEW x \in Sessions, WipeCommit(x), NEW u, u = sess[x].user
  PROVE  /\ u \in Users /\ Serial!PendingOf(u) = {}
         /\ sess[x].kind = "reset" /\ sess[x].pc = "wipe" /\ Goto(x, Idle)
         /\ UNCHANGED <<orders, trades, subscription, clock>>
         /\ AccountWiped(u) \/ UNCHANGED <<portfolio, rows, resetAt>>
<1> DEFINE s == sess[x]
           fresh == FreshPortfolio(InitialBalance)
<1>1. SessionOK(s) /\ ResetOK(s) /\ s.pc = "wipe" /\ s.kind = "reset" /\ u \in Users
  BY DEF SerialInv, SerialOK, SessionsInv, SessionOK, WipeCommit
<1>2. Serial!PendingOf(u) = {}
  <2>1. Serial!PendingOf(u) \subseteq {0}
    BY <1>1 DEF ResetOK, SessionOK
  <2>2. 0 \notin DOMAIN orders
    BY OrderIds DEF SerialInv, SessionsInv
  <2> QED
    BY <2>1, <2>2 DEF Serial!PendingOf, Serial!Ids
<1>3. /\ Goto(x, Idle)
      /\ UNCHANGED <<orders, trades, subscription, clock>>
  BY DEF WipeCommit, tables
<1>4. \/ UNCHANGED <<portfolio, rows, resetAt>>
      \/ /\ portfolio' = [portfolio EXCEPT ![u] =
                IF s.pf = NoRow THEN fresh ELSE Merge(@, s.pf, fresh)]
         /\ rows' = Restrict(rows, DOMAIN rows \ s.doomed)
         /\ resetAt' = [resetAt EXCEPT ![u] = Len(orders)]
  BY DEF WipeCommit, tables
<1>5. s.pf # NoRow => Merge(portfolio[u], s.pf, fresh) = fresh
  <2> SUFFICES ASSUME s.pf # NoRow PROVE Merge(portfolio[u], s.pf, fresh) = fresh
    OBVIOUS
  <2>1. portfolio[u] \in {s.pf, fresh}
    BY <1>1 DEF ResetOK
  <2>2. IsPortfolio(s.pf) /\ IsPortfolio(fresh)
    BY ColumnsKept DEF SerialInv, SessionsInv, Typed, IsSession
  <2> HIDE DEF fresh, s
  <2>3. \A p, q, c : IsPortfolio(p) /\ IsPortfolio(q) /\ c \in {p, q} => Merge(c, p, q) = q
    BY DEF IsPortfolio, FreshPortfolio, Merge
  <2> QED
    BY <2>1, <2>2, <2>3
<1>6. \A D : /\ DOMAIN Restrict(rows, D) = D
             /\ \A r \in D : Restrict(rows, D)[r] = rows[r]
  BY DEF Restrict
<1>7. DOMAIN rows \ s.doomed = {r \in DOMAIN rows : rows[r].user_id # u}
  BY <1>1 DEF ResetOK
<1>8. ASSUME rows' = Restrict(rows, DOMAIN rows \ s.doomed)
      PROVE  /\ DOMAIN rows' = {r \in DOMAIN rows : rows[r].user_id # u}
             /\ \A r \in DOMAIN rows' : rows'[r] = rows[r]
  BY <1>6, <1>7, <1>8
<1>9. ASSUME portfolio' = [portfolio EXCEPT ![u] =
                            IF s.pf = NoRow THEN fresh ELSE Merge(@, s.pf, fresh)]
      PROVE  portfolio' = [portfolio EXCEPT ![u] = fresh]
  BY <1>5, <1>9
<1> QED
  BY <1>1, <1>2, <1>3, <1>4, <1>8, <1>9 DEF AccountWiped

LEMMA WipeCommitSerial ==
  ASSUME SerialInv, SessionsInv', NEW x \in Sessions, WipeCommit(x)
  PROVE  SerialInv'
<1> DEFINE u == sess[x].user
<1>1. /\ u \in Users /\ Serial!PendingOf(u) = {}
      /\ sess[x].kind = "reset" /\ sess[x].pc = "wipe" /\ Goto(x, Idle)
      /\ UNCHANGED <<orders, trades, subscription, clock>>
      /\ AccountWiped(u) \/ UNCHANGED <<portfolio, rows, resetAt>>
  BY WipeEffect
<1>2. CASE UNCHANGED <<portfolio, rows, resetAt>>
  BY <1>1, <1>2, IdleSerial DEF tables
<1>3. CASE /\ portfolio' = [portfolio EXCEPT ![u] = FreshPortfolio(InitialBalance)]
           /\ DOMAIN rows' = {r \in DOMAIN rows : rows[r].user_id # u}
           /\ \A r \in DOMAIN rows' : rows'[r] = rows[r]
  <2>1. sess'[x] = Idle /\ \A y \in Sessions \ {x} : sess'[y] = sess[y]
    BY <1>1, Moved DEF SerialInv, SessionsInv
  <2>2. OneRow' /\ RowsFromFills'
    BY <1>1, <1>3 DEF SerialInv, OneRow, RowsFromFills
  <2>3. OrdersBacked'
    <3> SUFFICES ASSUME NEW i \in DOMAIN orders, Pending(i)
                 PROVE  /\ orders[i].order_type = "LIMIT"
                        /\ orders[i].trade_type = "SELL" =>
                             RowsOf(orders[i].user_id, orders[i].symbol)' # {}
      BY <1>1 DEF OrdersBacked, Pending, RowsOf
    <3>1. orders[i].user_id # u
      BY <1>1 DEF Serial!PendingOf, Serial!Ids, Pending
    <3>2. RowsOf(orders[i].user_id, orders[i].symbol) \subseteq
            RowsOf(orders[i].user_id, orders[i].symbol)'
      BY <1>1, <1>3, <3>1 DEF RowsOf
    <3> QED
      BY <3>2 DEF SerialInv, OrdersBacked
  <2>4. Alone'
    <3>1. PICK r : r = Idle
      OBVIOUS
    <3> QED
      BY <1>1, <3>1, AloneKept
  <2>5. SerialOK(sess[x])'
    BY <2>1 DEF SerialOK, Idle, Filling, JobKinds
  <2>6. ASSUME NEW y \in Sessions \ {x} PROVE SerialOK(sess[y])'
    <3> DEFINE w == sess[y]
    <3>1. SessionOK(w) /\ SerialOK(w) /\ sess'[y] = w
      BY <2>1 DEF SerialInv, SessionsInv
    <3>2. CASE w.pc = "idle"
      BY <3>1, <3>2 DEF SessionOK, SerialOK, Idle, Filling, JobKinds
    <3>3. CASE w.pc # "idle"
      <4>1. w.kind \in Benign /\ w.pc \notin Filling
        BY <1>1, <3>1, <3>3 DEF SerialInv, Alone, Active, SessionOK, Benign, Placements
      <4>2. w.pc = "release" => ReleaseOK(sess[y])'
        BY <1>1, <3>1, <4>1 DEF SerialOK, ReleaseOK, Pending, Benign, JobKinds
      <4>3. w.kind = "reset" => ResetOK(sess[y])'
        <5> SUFFICES ASSUME w.kind = "reset" PROVE ResetOK(sess[y])'
          OBVIOUS
        <5>1. ResetOK(w) /\ w.user \in Users
          BY <3>1 DEF SerialOK, SessionOK
        <5>2. portfolio'[w.user] \in {portfolio[w.user], FreshPortfolio(InitialBalance)}
          BY <1>3, <5>1 DEF SerialInv, SessionsInv, Typed
        <5>3. Serial!PendingOf(w.user)' = Serial!PendingOf(w.user)
          BY <1>1, <3>1 DEF Serial!PendingOf, Serial!Ids
        <5>4. /\ w.pc = "release" => w.o.user_id = w.user
              /\ \A i \in w.todo : orders'[i].user_id = w.user
              /\ w.pc = "wipe" =>
                   /\ w.todo = {}
                   /\ \A r \in DOMAIN rows' : r \in w.doomed <=> rows'[r].user_id = w.user
                   /\ w.pf # NoRow =>
                        portfolio'[w.user] \in {w.pf, FreshPortfolio(InitialBalance)}
          BY <1>1, <1>3, <5>1, <5>2 DEF ResetOK
        <5> QED
          BY <1>1, <3>1, <5>1, <5>4 DEF ResetOK, Serial!PendingOf, Serial!Ids
      <4> QED
        BY <3>1, <4>1, <4>2, <4>3 DEF SerialOK, Benign, JobKinds
    <3> QED
      BY <3>2, <3>3
  <2> QED
    BY <2>2, <2>3, <2>4, <2>5, <2>6 DEF SerialInv
<1> QED
  BY <1>1, <1>2, <1>3 DEF AccountWiped

\* A flush of what was computed from the row as it still is writes just that.
LEMMA MergeOwn ==
  /\ \A c, m, n : IsPortfolio(c) /\ IsPortfolio(m) /\ IsPortfolio(n)
                    => MergeTwice(c, c, m, n) = n
  /\ \A c, m, n : IsHolding(c) /\ IsHolding(m) /\ IsHolding(n)
                    => MergeTwice(c, c, m, n) = n
<1>1. \A c, n : IsPortfolio(c) /\ IsPortfolio(n) => Merge(c, c, n) = n
  BY DEF IsPortfolio, FreshPortfolio, Merge
<1>2. \A c, n : IsHolding(c) /\ IsHolding(n) => Merge(c, c, n) = n
  BY DEF IsHolding, EmptyHolding, Merge
<1> QED
  BY <1>1, <1>2 DEF MergeTwice

\* What a session that fills or reserves alone writes: s is what it knows, and
\* id the order it settles or inserts.
CommitsAs(x, s, id) ==
  LET u   == s.o.user_id
      z   == s.o.symbol
      r   == IF s.row = 0 THEN id ELSE s.row
      row == [user_id |-> u, symbol |-> z, h |-> NewHolding(s)]
      filled == [s.o EXCEPT !.status = "EXECUTED", !.executed_price = Quote(s)]
  IN /\ s.o = sess[x].o /\ s.kind = sess[x].kind /\ s.id = sess[x].id
     /\ s.quote = sess[x].quote
     /\ s.pf = portfolio[u] /\ (s.pf = NoRow \/ IsPortfolio(s.pf))
     /\ s.row \in FirstRow(u, z) /\ s.h = HoldingAt(s.row) /\ IsHolding(s.h)
     /\ Affordable(s)
     /\ id = (IF s.id = 0 THEN Len(orders) + 1 ELSE s.id) /\ id \in 1 .. MaxOrders
     /\ portfolio' = [portfolio EXCEPT ![u] = NewPortfolio(s)]
     /\ rows' = IF NewHolding(s) = s.h THEN rows
                ELSE [k \in DOMAIN rows \cup {r} |-> IF k = r THEN row ELSE rows[k]]
     /\ orders' = IF s.id # 0 THEN [orders EXCEPT ![id] = filled]
                  ELSE Append(orders, IF Fills(s) THEN filled ELSE s.o)
     /\ trades' = IF Fills(s) THEN [trades EXCEPT ![id] = @ + 1] ELSE trades

LEMMA CommitAlone ==
  ASSUME SerialInv, NEW x \in Sessions, Commit(x)
  PROVE  \E s, id : CommitsAs(x, s, id)
<1> DEFINE w == sess[x]
<1>1. IsSession(w) /\ SessionOK(w) /\ FillingOK(w) /\ w.pc = "commit" /\ w.pc \in Filling
  BY DEF SerialInv, SerialOK, SessionsInv, Typed, Commit, Filling
<1>2. PICK k \in FirstRow(w.o.user_id, w.o.symbol) :
        LET s == CommitImage(w, k)
            u == s.o.user_id
            id == IF s.id = 0 THEN Len(orders) + 1 ELSE s.id
        IN /\ Affordable(s)
           /\ Flushable(s)
           /\ id <= MaxOrders
           /\ portfolio' = [portfolio EXCEPT ![u] =
                IF s.pf = NoRow THEN NewPortfolio(s)
                ELSE MergeTwice(@, s.pf, ReservedPortfolio(s), NewPortfolio(s))]
           /\ WriteHolding(s, id)
           /\ orders' =
                IF s.id # 0
                THEN [orders EXCEPT ![id] = [@ EXCEPT !.status = "EXECUTED",
                                                      !.executed_price = Quote(s)]]
                ELSE Append(orders,
                       IF Fills(s) THEN [s.o EXCEPT !.status = "EXECUTED",
                                                    !.executed_price = Quote(s)]
                                   ELSE s.o)
           /\ trades' = IF Fills(s) THEN [trades EXCEPT ![id] = @ + 1] ELSE trades
  BY DEF Commit
<1>3. PICK s : s = CommitImage(w, k)
  OBVIOUS
<1> DEFINE u == s.o.user_id
           z == s.o.symbol
<1>4. PICK id : id = IF s.id = 0 THEN Len(orders) + 1 ELSE s.id
  OBVIOUS
<1>5. /\ s.o = w.o /\ s.kind = w.kind /\ s.id = w.id /\ s.pf = w.pf /\ s.quote = w.quote
      /\ s.pf = NoRow \/ IsPortfolio(s.pf)
      /\ IsHolding(s.h) /\ s.row \in Nat
  BY <1>1, <1>3, ImageFacts DEF SerialInv
<1>6. s.row \in FirstRow(u, z) /\ s.h = HoldingAt(s.row)
  <2>1. CASE w.kind = "LIMIT" /\ w.o.trade_type = "BUY" /\ k # w.row
    <3>1. s = [w EXCEPT !.row = k, !.h = HoldingAt(k)]
      BY <1>3, <2>1 DEF CommitImage
    <3>2. s.row = k /\ s.h = HoldingAt(k)
      BY <1>1, <3>1 DEF IsSession, Idle
    <3> QED
      BY <1>5, <3>2
  <2>2. CASE ~(w.kind = "LIMIT" /\ w.o.trade_type = "BUY" /\ k # w.row)
    <3>1. s = w
      BY <1>3, <2>2 DEF CommitImage
    <3> QED
      BY <1>1, <2>2, <3>1 DEF FillingOK
  <2> QED
    BY <2>1, <2>2
<1>7. s.pf = portfolio[u]
  BY <1>1, <1>5 DEF FillingOK
<1>8. /\ Affordable(s) /\ id <= MaxOrders
      /\ portfolio' = [portfolio EXCEPT ![u] =
           IF s.pf = NoRow THEN NewPortfolio(s)
           ELSE MergeTwice(@, s.pf, ReservedPortfolio(s), NewPortfolio(s))]
      /\ WriteHolding(s, id)
      /\ orders' = IF s.id # 0
                   THEN [orders EXCEPT ![id] = [@ EXCEPT !.status = "EXECUTED",
                                                         !.executed_price = Quote(s)]]
                   ELSE Append(orders,
                          IF Fills(s) THEN [s.o EXCEPT !.status = "EXECUTED",
                                                       !.executed_price = Quote(s)]
                                      ELSE s.o)
      /\ trades' = IF Fills(s) THEN [trades EXCEPT ![id] = @ + 1] ELSE trades
  BY <1>2, <1>3, <1>4
<1>9. id \in 1 .. MaxOrders /\ (s.id # 0 => s.o = orders[id])
  <2>1. Len(orders) \in Nat /\ DOMAIN orders \subseteq 1 .. MaxOrders
    BY OrderIds DEF SerialInv, SessionsInv
  <2> QED
    BY <1>1, <1>4, <1>5, <1>8, <2>1, LedgerAssumption DEF SessionOK
<1>10. /\ IsPortfolio(ReservedPortfolio(s)) /\ IsPortfolio(NewPortfolio(s))
       /\ IsHolding(ReservedHolding(s)) /\ IsHolding(NewHolding(s))
  BY <1>5, ComputedRows
<1>11. portfolio' = [portfolio EXCEPT ![u] = NewPortfolio(s)]
  <2>1. s.pf # NoRow =>
          MergeTwice(portfolio[u], s.pf, ReservedPortfolio(s), NewPortfolio(s)) = NewPortfolio(s)
    BY <1>5, <1>7, <1>10, MergeOwn
  <2> QED
    BY <1>8, <2>1
<1> DEFINE r == IF s.row = 0 THEN id ELSE s.row
           row == [user_id |-> u, symbol |-> z, h |-> NewHolding(s)]
<1>12. rows' = IF NewHolding(s) = s.h THEN rows
               ELSE [j \in DOMAIN rows \cup {r} |-> IF j = r THEN row ELSE rows[j]]
  <2>1. CASE NewHolding(s) = s.h
    BY <1>8, <2>1 DEF WriteHolding
  <2>2. CASE NewHolding(s) # s.h
    <3>1. s.row # 0 => rows[s.row].h = s.h
      BY <1>6 DEF FirstRow, RowsOf, HoldingAt
    <3>2. s.row # 0 =>
            MergeTwice(rows[s.row].h, s.h, ReservedHolding(s), NewHolding(s)) = NewHolding(s)
      BY <1>5, <1>10, <3>1, MergeOwn
    <3> DEFINE h == IF s.row = 0 THEN NewHolding(s)
                    ELSE MergeTwice(rows[r].h, s.h, ReservedHolding(s), NewHolding(s))
    <3>3. h = NewHolding(s)
      BY <3>2
    <3>4. rows' = [j \in DOMAIN rows \cup {r} |->
                     IF j = r THEN [user_id |-> u, symbol |-> z, h |-> h] ELSE rows[j]]
      BY <1>8, <2>2 DEF WriteHolding
    <3> QED
      BY <2>2, <3>3, <3>4
  <2> QED
    BY <2>1, <2>2
<1>13. orders' = IF s.id # 0 THEN [orders EXCEPT ![id] =
                                    [s.o EXCEPT !.status = "EXECUTED",
                                                !.executed_price = Quote(s)]]
                 ELSE Append(orders,
                        IF Fills(s) THEN [s.o EXCEPT !.status = "EXECUTED",
                                                     !.executed_price = Quote(s)]
                                    ELSE s.o)
  BY <1>8, <1>9
<1> WITNESS s, id
<1> QED
  BY <1>4, <1>5, <1>6, <1>7, <1>8, <1>9, <1>11, <1>12, <1>13 DEF CommitsAs

\* The row it writes is the one of its user and symbol, or a new one.
LEMMA CommitRows ==
  ASSUME SerialInv, NEW x \in Sessions, sess[x].pc = "commit", NEW s, NEW id,
         CommitsAs(x, s, id)
  PROVE  /\ s.o \in Serial!Order /\ s.o.user_id \in Users /\ s.o.symbol \in Symbols
         /\ Quote(s) \in Prices
         /\ s.id = 0 => s.kind \in Placements /\ id \notin DOMAIN orders
         /\ s.id # 0 => s.kind = "execute" /\ id = s.id /\ id \in DOMAIN orders /\ s.o = orders[id]
         /\ FillingOK(sess[x])
         /\ trades[id] = 0 /\ id \notin DOMAIN rows /\ id # 0
         /\ s.row = 0 => RowsOf(s.o.user_id, s.o.symbol) = {} /\ s.h = EmptyHolding
         /\ s.row # 0 => s.row \in RowsOf(s.o.user_id, s.o.symbol) /\ s.h = rows[s.row].h
         /\ s.row = 0 /\ ~Fills(s) => s.o.trade_type = "BUY" /\ NewHolding(s) = s.h
<1> DEFINE w == sess[x]
           u == s.o.user_id
           z == s.o.symbol
<1>1. SessionOK(w) /\ FillingOK(w) /\ w.pc \in Filling
  BY DEF SerialInv, SerialOK, SessionsInv, Filling
<1>2. /\ s.o = w.o /\ s.kind = w.kind /\ s.id = w.id /\ s.quote = w.quote
      /\ s.row \in FirstRow(u, z) /\ s.h = HoldingAt(s.row)
      /\ id = (IF s.id = 0 THEN Len(orders) + 1 ELSE s.id) /\ id \in 1 .. MaxOrders
      /\ Affordable(s)
  BY DEF CommitsAs
<1>3. /\ s.o \in Serial!Order /\ u \in Users /\ z \in Symbols /\ Quote(s) \in Prices
      /\ s.o.quantity \in Nat \ {0} /\ s.o.trade_type \in {"BUY", "SELL"}
  BY <1>1, <1>2, LedgerAssumption
     DEF SessionOK, Serial!Order, Quote, Serial!TradeTypes, TradeTypes
<1>4. /\ s.id = 0 => s.kind \in Placements
      /\ s.id # 0 => s.kind = "execute" /\ id = s.id /\ id \in DOMAIN orders /\ s.o = orders[id]
  BY <1>1, <1>2 DEF SessionOK
<1>5. s.id = 0 => id \notin DOMAIN orders
  BY <1>2, OrderIds DEF SerialInv, SessionsInv
<1>6. trades[id] = 0
  <2>1. s.id = 0 => trades[id] = 0
    BY <1>2, <1>5 DEF SerialInv, SessionsInv, FilledIsSettled
  <2>2. s.id # 0 => id \in MayFill(w)
    BY <1>2, <1>4 DEF MayFill
  <2> QED
    BY <2>1, <2>2, MayFillUnfilled DEF SerialInv
<1>7. id \notin DOMAIN rows /\ id # 0
  BY <1>2, <1>6 DEF SerialInv, RowsFromFills
<1>8. 0 \notin DOMAIN rows
  BY DEF SerialInv, SessionsInv, Typed
<1>9. /\ s.row = 0 => RowsOf(u, z) = {} /\ s.h = EmptyHolding
      /\ s.row # 0 => s.row \in RowsOf(u, z) /\ s.h = rows[s.row].h
  BY <1>2, <1>8 DEF FirstRow, RowsOf, HoldingAt
<1>10. s.row = 0 /\ ~Fills(s) => s.o.trade_type = "BUY" /\ NewHolding(s) = s.h
  <2> SUFFICES ASSUME s.row = 0, ~Fills(s)
               PROVE  s.o.trade_type = "BUY" /\ NewHolding(s) = s.h
    OBVIOUS
  <2>1. s.kind = "LIMIT"
    BY DEF Fills
  <2>2. CanReserve(ImagePortfolio(s), s.h, s.o.trade_type, s.o.quantity, s.o.limit_price)
    BY <1>2, <2>1 DEF Affordable
  <2>3. AvailableQuantity(s.h) = 0
    BY <1>9 DEF AvailableQuantity, EmptyHolding
  <2>4. s.o.trade_type = "BUY"
    BY <1>3, <2>2, <2>3 DEF CanReserve
  <2> QED
    BY <2>1, <2>4 DEF NewHolding, ReservedHolding, ReserveShares
<1> QED
  BY <1>1, <1>3, <1>4, <1>5, <1>6, <1>7, <1>9, <1>10

LEMMA CommitSerial ==
  ASSUME SerialInv, SessionsInv', NEW x \in Sessions, Commit(x)
  PROVE  SerialInv'
<1>1. PICK s, id : CommitsAs(x, s, id)
  BY CommitAlone
<1> DEFINE w == sess[x]
           u == s.o.user_id
           z == s.o.symbol
           r == IF s.row = 0 THEN id ELSE s.row
           row == [user_id |-> u, symbol |-> z, h |-> NewHolding(s)]
           filled == [s.o EXCEPT !.status = "EXECUTED", !.executed_price = Quote(s)]
<1>2. /\ w.pc = "commit" /\ Goto(x, Continued(x)) /\ UNCHANGED <<subscription, clock>>
      /\ SessionOK(w)
  BY DEF Commit, SerialInv, SessionsInv
<1>3. /\ s.o \in Serial!Order /\ Quote(s) \in Prices
      /\ s.id = 0 => s.kind \in Placements /\ id \notin DOMAIN orders
      /\ s.id # 0 => s.kind = "execute" /\ id = s.id /\ id \in DOMAIN orders /\ s.o = orders[id]
      /\ trades[id] = 0 /\ id \notin DOMAIN rows /\ id # 0
      /\ s.row = 0 => RowsOf(u, z) = {}
      /\ s.row # 0 => s.row \in RowsOf(u, z)
      /\ s.row = 0 /\ ~Fills(s) => s.o.trade_type = "BUY" /\ NewHolding(s) = s.h
  BY <1>1, <1>2, CommitRows
<1>4. /\ s.o = w.o /\ s.kind = w.kind /\ s.id = w.id
      /\ id = (IF s.id = 0 THEN Len(orders) + 1 ELSE s.id) /\ id \in 1 .. MaxOrders
      /\ rows' = IF NewHolding(s) = s.h THEN rows
                 ELSE [k \in DOMAIN rows \cup {r} |-> IF k = r THEN row ELSE rows[k]]
      /\ orders' = IF s.id # 0 THEN [orders EXCEPT ![id] = filled]
                   ELSE Append(orders, IF Fills(s) THEN filled ELSE s.o)
      /\ trades' = IF Fills(s) THEN [trades EXCEPT ![id] = @ + 1] ELSE trades
  BY <1>1 DEF CommitsAs
<1>5. w.kind \in Placements \cup {"execute"} /\ w.kind \notin Benign
  BY <1>3, <1>4 DEF Placements, Benign
<1>6. /\ sess'[x] = Continued(x)
      /\ \A y \in Sessions \ {x} : sess'[y] = Idle
  <2>1. \A y \in Sessions \ {x} : sess[y] = Idle
    BY <1>2, <1>5, AloneHere
  <2> QED
    BY <1>2, <2>1, Moved DEF SerialInv, SessionsInv
<1>7. filled \in Serial!Order /\ filled.status = "EXECUTED"
  <2>1. \A o \in Serial!Order, p \in Prices :
          /\ [o EXCEPT !.status = "EXECUTED", !.executed_price = p] \in Serial!Order
          /\ [o EXCEPT !.status = "EXECUTED", !.executed_price = p].status = "EXECUTED"
    BY DEF Serial!Order, Serial!Statuses
  <2> QED
    BY <1>3, <2>1
<1> HIDE DEF filled
<1>8. /\ DOMAIN orders' = DOMAIN orders \cup {id}
      /\ \A j \in DOMAIN orders : j # id => orders'[j] = orders[j]
      /\ orders'[id].status = "EXECUTED" \/ (s.id = 0 /\ ~Fills(s) /\ orders'[id] = s.o)
  <2>1. CASE s.id # 0
    <3>1. orders' = [orders EXCEPT ![id] = filled]
      BY <1>4, <2>1
    <3>2. /\ DOMAIN orders' = DOMAIN orders /\ orders'[id] = filled
          /\ \A j \in DOMAIN orders : j # id => orders'[j] = orders[j]
      BY <1>3, <1>7, <2>1, <3>1, OrderUpdated DEF SerialInv, SessionsInv
    <3> QED
      BY <1>3, <1>7, <2>1, <3>2
  <2>2. CASE s.id = 0
    <3> DEFINE o == IF Fills(s) THEN filled ELSE s.o
    <3>1. orders' = Append(orders, o) /\ o \in Serial!Order
      BY <1>3, <1>4, <1>7, <2>2
    <3>3. Fills(s) \/ o = s.o
      OBVIOUS
    <3> HIDE DEF o
    <3>4. /\ DOMAIN orders' = DOMAIN orders \cup {id} /\ orders'[id] = o
          /\ \A j \in DOMAIN orders : orders'[j] = orders[j]
      BY <1>4, <2>2, <3>1, OrderAppended DEF SerialInv, SessionsInv
    <3>5. Fills(s) => o.status = "EXECUTED"
      BY <1>7, <2>2 DEF o
    <3> QED
      BY <2>2, <3>3, <3>4, <3>5
  <2> QED
    BY <2>1, <2>2
<1>9. trades \in [1 .. MaxOrders -> Nat] /\ trades'[id] = (IF Fills(s) THEN 1 ELSE 0)
      /\ \A j \in 1 .. MaxOrders : trades[j] # 0 => trades'[j] # 0
  BY <1>3, <1>4 DEF SerialInv, SessionsInv, Typed
<1>10. /\ \A k \in DOMAIN rows : /\ k \in DOMAIN rows'
                                 /\ rows'[k].user_id = rows[k].user_id
                                 /\ rows'[k].symbol = rows[k].symbol
       /\ \A k \in DOMAIN rows' \ DOMAIN rows :
            /\ k = id /\ Fills(s) /\ RowsOf(u, z) = {}
            /\ rows'[k].user_id = u /\ rows'[k].symbol = z
  <2>1. CASE NewHolding(s) = s.h
    BY <1>4, <2>1
  <2>2. CASE NewHolding(s) # s.h
    <3>1. /\ DOMAIN rows' = DOMAIN rows \cup {r}
          /\ rows'[r] = row
          /\ \A k \in DOMAIN rows : k # r => rows'[k] = rows[k]
      BY <1>4, <2>2
    <3>2. row.user_id = u /\ row.symbol = z
      OBVIOUS
    <3> HIDE DEF row
    <3>3. CASE s.row = 0
      BY <1>3, <2>2, <3>1, <3>2, <3>3
    <3>4. CASE s.row # 0
      BY <1>3, <3>1, <3>2, <3>4 DEF RowsOf
    <3> QED
      BY <3>3, <3>4
  <2> QED
    BY <2>1, <2>2
<1>11. OneRow'
  BY <1>10 DEF SerialInv, OneRow, RowsOf
<1>12. RowsFromFills'
  <2> SUFFICES ASSUME NEW k \in DOMAIN rows' PROVE k \in 1 .. MaxOrders /\ trades'[k] # 0
    BY DEF RowsFromFills
  <2>1. CASE k \in DOMAIN rows
    BY <1>9, <2>1 DEF SerialInv, RowsFromFills
  <2>2. CASE k \notin DOMAIN rows
    <3>1. k = id /\ Fills(s)
      BY <1>10, <2>2
    <3> QED
      BY <1>4, <1>9, <3>1
  <2> QED
    BY <2>1, <2>2
<1>13. OrdersBacked'
  <2> SUFFICES ASSUME NEW j \in DOMAIN orders', orders'[j].status = "PENDING"
               PROVE  /\ orders'[j].order_type = "LIMIT"
                      /\ orders'[j].trade_type = "SELL" =>
                           RowsOf(orders[j].user_id, orders[j].symbol)' # {}
    BY DEF OrdersBacked, Pending
  <2>1. CASE j # id
    <3>1. /\ j \in DOMAIN orders /\ orders'[j] = orders[j] /\ orders[j].order_type = "LIMIT"
          /\ orders[j].trade_type = "SELL" => RowsOf(orders[j].user_id, orders[j].symbol) # {}
      BY <1>8, <2>1 DEF SerialInv, OrdersBacked, Pending
    <3> QED
      BY <1>10, <3>1 DEF RowsOf
  <2>2. CASE j = id
    <3>1. s.id = 0 /\ ~Fills(s) /\ orders'[j] = s.o
      BY <1>8, <2>2
    <3>2. s.kind = "LIMIT"
      BY <3>1 DEF Fills
    <3>3. s.o.order_type = "LIMIT"
      <4>1. PlacementOK(w)
        BY <1>1, <1>2, <1>4, <3>2, CommitRows DEF FillingOK, Placements
      <4> QED
        BY <1>4, <3>2, <4>1 DEF PlacementOK, Serial!LimitOrder
    <3>4. s.o.trade_type = "SELL" => RowsOf(u, z) # {}
      BY <1>3, <3>1
    <3> QED
      BY <1>10, <3>1, <3>3, <3>4 DEF RowsOf
  <2> QED
    BY <2>1, <2>2
<1>14. Alone'
  <2>1. Continued(x) = Idle \/ Continued(x).kind = w.kind
    BY ContinuedFacts
  <2> QED
    BY <1>2, <2>1, AloneKept
<1>15. SerialOK(sess[x])'
  <2>1. CASE Continued(x) = Idle
    BY <1>6, <2>1 DEF SerialOK, Idle, Filling, JobKinds
  <2>2. CASE Continued(x) # Idle
    <3>1. LET c == Continued(x) IN
          /\ w.kind \in JobKinds \cup {"reset"} /\ c.pc = "next" /\ c.kind = w.kind /\ c.loaded = {}
          /\ c.todo = w.todo /\ c.quote = w.quote
      BY <2>2, ContinuedFacts
    <3>2. w.kind = "execute"
      BY <1>5, <3>1 DEF Placements, JobKinds
    <3>3. JobOK(w)
      BY <3>2 DEF SerialInv, SerialOK, JobKinds
    <3>4. \A i \in w.todo : i \in DOMAIN orders /\ i # id
      BY <1>2, <1>3, <1>4, <3>2 DEF SessionOK, Placements
    <3>5. JobOK(sess[x])'
      BY <1>2, <1>6, <1>8, <3>1, <3>2, <3>3, <3>4 DEF JobOK, FillableAt, clock
    <3> QED
      BY <1>6, <3>1, <3>2, <3>5 DEF SerialOK, Filling, JobKinds
  <2> QED
    BY <2>1, <2>2
<1>16. \A y \in Sessions \ {x} : SerialOK(sess[y])'
  BY <1>6 DEF SerialOK, Idle, Filling, JobKinds
<1> QED
  BY <1>11, <1>12, <1>13, <1>14, <1>15, <1>16 DEF SerialInv

LEMMA SerialInit == Init => SerialInv
<1> SUFFICES ASSUME Init PROVE SerialInv
  OBVIOUS
<1>1. SessionsInv
  BY SessionsInit
<1>2. \A x \in Sessions : sess[x] = Idle
  BY DEF Init
<1>3. Alone /\ OneRow /\ RowsFromFills /\ OrdersBacked
  BY <1>2 DEF Init, Alone, Active, Idle, OneRow, RowsFromFills, OrdersBacked
<1> QED
  BY <1>1, <1>2, <1>3, IdleSerialOK DEF SerialInv

LEMMA SerialStep ==
  ASSUME SerialInv, [Next]_vars, Overlapping \subseteq Benign
  PROVE  SerialInv'
<1>1. SessionsInv'
  BY SessionsStep DEF SerialInv
<1>2. ASSUME NEW x \in Sessions, Start(x) PROVE SerialInv'
  BY <1>1, <1>2, CheckSerial, CancelSerial, ResetListSerial DEF Start
<1>3. ASSUME NEW x \in Sessions, Proceed(x) PROVE SerialInv'
  <2>1. CASE ReadPortfolio(x) \/ ReadHolding(x)
    BY <1>1, <2>1, ReadPortfolioSerial, ReadHoldingSerial
  <2>2. CASE Commit(x)
    BY <1>1, <2>2, CommitSerial
  <2>3. CASE Refuse(x)
    <3>1. sess[x].pc # "idle" /\ Goto(x, Aborted(x)) /\ UNCHANGED <<tables, subscription, clock>>
      BY <2>3 DEF Refuse
    <3> QED
      BY <1>1, <3>1, AbortedSerial
  <2>4. CASE Release(x)
    BY <1>1, <2>4, ReleaseSerial
  <2>5. CASE \E i \in sess[x].todo : ResetCancel(x, i)
    BY <1>1, <2>5, ResetCancelSerial
  <2>6. CASE WipeDelete(x) \/ WipeCommit(x)
    BY <1>1, <2>6, WipeDeleteSerial, WipeCommitSerial
  <2>7. CASE Reload(x) \/ TakeOrder(x)
    BY <1>1, <2>7, ReloadSerial, TakeOrderSerial
  <2>8. CASE ExpireAgain(x)
    BY <1>1, <2>8, ExpiryQuerySerial DEF ExpireAgain
  <2>9. CASE JobDone(x)
    BY <1>1, <2>9, IdleSerial DEF JobDone
  <2> QED
    BY <1>3, <2>1, <2>2, <2>3, <2>4, <2>5, <2>6, <2>7, <2>8, <2>9 DEF Proceed
<1>4. ASSUME NEW x \in Sessions, Fault(x) PROVE SerialInv'
  <2>1. sess[x].pc # "idle" /\ UNCHANGED <<tables, subscription, clock>>
        /\ (Goto(x, Idle) \/ Goto(x, Aborted(x)))
    BY <1>4 DEF Fault
  <2> QED
    BY <1>1, <2>1, IdleSerial, AbortedSerial
<1>5. ASSUME NEW x \in Executors, NEW quote \in [Symbols -> Prices], ExecuteTick(x, quote)
      PROVE  SerialInv'
  BY <1>1, <1>5, ExecuteTickSerial DEF Sessions
<1>6. ASSUME NEW x \in Expirers, ExpireSweep(x) PROVE SerialInv'
  BY <1>1, <1>6, ExpiryQuerySerial DEF Sessions, ExpireSweep
<1>7. ASSUME NEW u \in Users, Upgrade(u) PROVE SerialInv'
  <2>1. MayStart("upgrade") /\ UNCHANGED <<tables, sess>>
    BY <1>7 DEF Upgrade
  <2> QED
    BY <1>1, <2>1, WorldSerial
<1>8. CASE CloseMarket \/ OpenNextDay
  <2>1. MayStart("clock") /\ UNCHANGED <<tables, sess>>
    BY <1>8 DEF CloseMarket, OpenNextDay
  <2> QED
    BY <1>1, <2>1, WorldSerial
<1>9. CASE UNCHANGED vars
  <2>1. UNCHANGED <<tables, subscription, clock, sess>>
    BY <1>9 DEF vars
  <2>2. \A x \in Sessions : SerialOK(sess[x])'
    BY <2>1, StillOK
  <2> QED
    BY <1>1, <2>1, <2>2
       DEF SerialInv, Alone, Active, OneRow, RowsFromFills, OrdersBacked, Pending, RowsOf, tables
<1> QED
  BY <1>2, <1>3, <1>4, <1>5, <1>6, <1>7, <1>8, <1>9 DEF Next

\* While only cancels, resets, upgrades and the clock run beside one another,
\* what a handler has read is still what the tables hold when it commits.
THEOREM SerialInvariant ==
  ASSUME Overlapping \subseteq Benign
  PROVE  Spec => []SerialInv
<1>1. SerialInv /\ [Next]_vars => SerialInv'
  BY SerialStep
<1> QED
  BY <1>1, SerialInit, PTL DEF Spec

\* A user then has one holding row for a symbol, though no constraint of the
\* schema makes the pair unique (Holding, trades/models.py).
THEOREM OneRowEach ==
  ASSUME Overlapping \subseteq Benign
  PROVE  Spec => []OneRowPerHolding
<1>1. SerialInv => OneRowPerHolding
  <2> SUFFICES ASSUME SerialInv, NEW u \in Users, NEW s \in Symbols
               PROVE  Cardinality(RowsOf(u, s)) <= 1
    BY DEF OneRowPerHolding
  <2>1. CASE RowsOf(u, s) = {}
    BY <2>1, FS_EmptySet
  <2>2. CASE RowsOf(u, s) # {}
    <3>1. PICK r : r \in RowsOf(u, s)
      BY <2>2
    <3>2. RowsOf(u, s) = {r}
      BY <3>1 DEF SerialInv, OneRow, RowsOf
    <3> QED
      BY <3>2, FS_Singleton
  <2> QED
    BY <2>1, <2>2
<1> QED
  BY <1>1, SerialInvariant, PTL

-----------------------------------------------------------------------------
(* The serial ledger is implemented. *)

\* What the serial ledger shows of the holdings table.
HoldingShown ==
  \A u \in Users, z \in Symbols :
    /\ RowsOf(u, z) = {} => HoldingView[u][z] = EmptyHolding
    /\ \A k \in RowsOf(u, z) : HoldingView[u][z] = rows[k].h

LEMMA Shown == SerialInv => HoldingShown
<1> SUFFICES ASSUME SerialInv, NEW u \in Users, NEW z \in Symbols
             PROVE  /\ RowsOf(u, z) = {} => HoldingView[u][z] = EmptyHolding
                    /\ \A k \in RowsOf(u, z) : HoldingView[u][z] = rows[k].h
  BY DEF HoldingShown
<1>1. HoldingView[u][z] = HoldingAt(CHOOSE r \in FirstRow(u, z) : TRUE)
  BY DEF HoldingView
<1>2. 0 \notin DOMAIN rows
  BY DEF SerialInv, SessionsInv, Typed
<1>3. CASE RowsOf(u, z) = {}
  <2>1. FirstRow(u, z) = {0}
    BY <1>3 DEF FirstRow
  <2>2. (CHOOSE r \in FirstRow(u, z) : TRUE) = 0
    BY <2>1
  <2> QED
    BY <1>1, <1>2, <1>3, <2>2 DEF HoldingAt
<1>4. CASE RowsOf(u, z) # {}
  <2>1. FirstRow(u, z) = RowsOf(u, z)
    BY <1>4 DEF FirstRow
  <2>2. (CHOOSE r \in FirstRow(u, z) : TRUE) \in RowsOf(u, z)
    BY <1>4, <2>1
  <2>3. \A k \in RowsOf(u, z) : k = (CHOOSE r \in FirstRow(u, z) : TRUE) /\ k \in DOMAIN rows
    BY <2>2 DEF SerialInv, OneRow, RowsOf
  <2> QED
    BY <1>1, <1>4, <2>3 DEF HoldingAt
<1> QED
  BY <1>3, <1>4

LEMMA ShownNext == SerialInv' => HoldingShown'
BY Shown, PTL

\* A step that writes one user's portfolio row and one of his holdings is one
\* that sets his account.
LEMMA AccountSet ==
  ASSUME SerialInv, SerialInv', NEW u \in Users, NEW z \in Symbols, NEW pf, NEW h,
         IsPortfolio(pf), portfolio' = [portfolio EXCEPT ![u] = pf],
         \A v \in Users, y \in Symbols : v # u \/ y # z =>
           /\ RowsOf(v, y)' = RowsOf(v, y)
           /\ \A k \in RowsOf(v, y) : rows'[k] = rows[k],
         \/ RowsOf(u, z)' = {} /\ h = EmptyHolding
         \/ \E k \in RowsOf(u, z)' : rows'[k].h = h
  PROVE  Serial!SetAccount(u, z, pf, h)
<1>1. PortfolioView' = [PortfolioView EXCEPT ![u] = pf]
  <2>1. pf # NoRow
    BY DEF IsPortfolio, NoRow, FreshPortfolio
  <2>2. portfolio = [v \in Users |-> portfolio[v]]
    BY DEF SerialInv, SessionsInv, Typed
  <2> QED
    BY <2>1, <2>2 DEF PortfolioView
<1>2. HoldingView'[u][z] = h
  BY ShownNext DEF HoldingShown
<1>3. ASSUME NEW v \in Users, NEW y \in Symbols, v # u \/ y # z
      PROVE  HoldingView'[v][y] = HoldingView[v][y]
  <2>1. /\ RowsOf(v, y)' = RowsOf(v, y)
        /\ \A k \in RowsOf(v, y) : rows'[k] = rows[k]
    BY <1>3
  <2>2. CASE RowsOf(v, y) = {}
    BY <2>1, <2>2, Shown, ShownNext DEF HoldingShown
  <2>3. CASE RowsOf(v, y) # {}
    <3>1. PICK k : k \in RowsOf(v, y)
      BY <2>3
    <3>2. HoldingView[v][y] = rows[k].h
      BY <3>1, Shown DEF HoldingShown
    <3>3. HoldingView'[v][y] = rows'[k].h
      BY <2>1, <3>1, ShownNext DEF HoldingShown
    <3> QED
      BY <2>1, <3>1, <3>2, <3>3
  <2> QED
    BY <2>2, <2>3
<1>4. /\ HoldingView = [v \in Users |-> HoldingView[v]]
      /\ HoldingView' = [v \in Users |-> HoldingView'[v]]
      /\ \A v \in Users : /\ HoldingView[v] = [y \in Symbols |-> HoldingView[v][y]]
                          /\ HoldingView'[v] = [y \in Symbols |-> HoldingView'[v][y]]
  BY DEF HoldingView
<1> HIDE DEF HoldingView
<1>5. HoldingView' = [HoldingView EXCEPT ![u] = [@ EXCEPT ![z] = h]]
  <2>1. HoldingView'[u] = [HoldingView[u] EXCEPT ![z] = h]
    <3>1. \A y \in Symbols : HoldingView'[u][y] = (IF y = z THEN h ELSE HoldingView[u][y])
      BY <1>2, <1>3
    <3>2. [HoldingView[u] EXCEPT ![z] = h]
            = [y \in Symbols |-> IF y = z THEN h ELSE HoldingView[u][y]]
      BY <1>4
    <3>3. HoldingView'[u] = [y \in Symbols |-> IF y = z THEN h ELSE HoldingView[u][y]]
      BY <1>4, <3>1
    <3> QED
      BY <3>2, <3>3
  <2>2. ASSUME NEW v \in Users, v # u PROVE HoldingView'[v] = HoldingView[v]
    <3>1. \A y \in Symbols : HoldingView'[v][y] = HoldingView[v][y]
      BY <1>3, <2>2
    <3>2. /\ HoldingView[v] = [y \in Symbols |-> HoldingView[v][y]]
          /\ HoldingView'[v] = [y \in Symbols |-> HoldingView'[v][y]]
      BY <1>4
    <3> QED
      BY <3>1, <3>2
  <2> QED
    BY <1>4, <2>1, <2>2
<1> QED
  BY <1>1, <1>5 DEF Serial!SetAccount

LEMMA StillImplements ==
  ASSUME UNCHANGED <<portfolio, rows, orders, resetAt, subscription, clock>>
  PROVE  UNCHANGED Serial!vars
BY DEF Serial!vars, PortfolioView, HoldingView, HoldingAt, FirstRow, RowsOf, clock

\* Leaving PENDING without a fill is a cancel, an expiry or a rejection.
LEMMA ReleaseImplements ==
  ASSUME SerialInv, SerialInv', NEW x \in Sessions, Release(x)
  PROVE  Serial!Next
<1> DEFINE s == sess[x]
           st == StatusGiven(s.kind)
<1>1. PICK i, o : i = s.id /\ o = s.o
  OBVIOUS
<1> DEFINE u == o.user_id
           z == o.symbol
<1>2. /\ i \in DOMAIN orders /\ i # 0 /\ o = orders[i] /\ o \in Serial!Order
      /\ Pending(i) /\ o.order_type = "LIMIT"
      /\ portfolio[u] # NoRow
      /\ portfolio' = [portfolio EXCEPT ![u] = ReleaseFunds(@, o)]
      /\ orders' = [orders EXCEPT ![i] = [@ EXCEPT !.status = st]]
      /\ SharesReleased(o)
      /\ s.kind \in JobKinds \cup {"cancel", "reset"}
      /\ ReleaseOK(s)
  BY <1>1, ReleaseEffect
<1>3. u \in Users /\ z \in Symbols
  BY <1>2 DEF Serial!Order
<1> DEFINE pf == ReleaseFunds(PortfolioView[u], o)
           h == ReleaseShares(HoldingView[u][z], o)
<1>4. portfolio' = [portfolio EXCEPT ![u] = pf] /\ IsPortfolio(pf)
  <2>1. PortfolioView[u] = portfolio[u]
    BY <1>2, <1>3 DEF PortfolioView
  <2>2. IsPortfolio(portfolio[u])
    BY <1>2, <1>3 DEF SerialInv, SessionsInv, Typed
  <2> QED
    BY <1>2, <2>1, <2>2, ColumnsKept
<1>5. /\ \A v \in Users, y \in Symbols : v # u \/ y # z =>
           /\ RowsOf(v, y)' = RowsOf(v, y)
           /\ \A k \in RowsOf(v, y) : rows'[k] = rows[k]
      /\ \/ RowsOf(u, z)' = {} /\ h = EmptyHolding
         \/ \E k \in RowsOf(u, z)' : rows'[k].h = h
  <2>1. CASE RowsOf(u, z) = {} /\ o.trade_type # "SELL" /\ rows' = rows
    <3>1. h = HoldingView[u][z]
      BY <2>1 DEF ReleaseShares
    <3>2. HoldingView[u][z] = EmptyHolding
      BY <1>3, <2>1, Shown DEF HoldingShown
    <3>3. \A v, y : RowsOf(v, y)' = RowsOf(v, y)
      BY <2>1 DEF RowsOf
    <3> QED
      BY <2>1, <3>1, <3>2, <3>3
  <2>2. ASSUME NEW k \in RowsOf(u, z), rows' = [rows EXCEPT ![k].h = ReleaseShares(@, o)]
        PROVE  <1>5
    <3>1. k \in DOMAIN rows /\ IsRow(rows[k]) /\ IsHolding(rows[k].h)
          /\ rows[k].user_id = u /\ rows[k].symbol = z
      BY DEF RowsOf, SerialInv, SessionsInv, Typed, IsRow
    <3>2. HoldingView[u][z] = rows[k].h
      BY <1>3, Shown DEF HoldingShown
    <3> DEFINE row == [rows[k] EXCEPT !.h = h]
    <3>3. rows' = [rows EXCEPT ![k] = row]
      BY <2>2, <3>2
    <3>4. row.user_id = u /\ row.symbol = z /\ row.h = h
      BY <3>1 DEF IsRow
    <3> HIDE DEF row, h
    <3>5. /\ DOMAIN rows' = DOMAIN rows /\ rows'[k] = row
          /\ \A j \in DOMAIN rows : j # k => rows'[j] = rows[j]
      BY <3>1, <3>3
    <3>6. \A v, y : RowsOf(v, y)' = RowsOf(v, y)
      BY <3>1, <3>4, <3>5 DEF RowsOf
    <3>7. k \in RowsOf(u, z)' /\ rows'[k].h = h
      BY <3>4, <3>5, <3>6
    <3> QED
      BY <3>1, <3>5, <3>6, <3>7 DEF RowsOf
  <2> QED
    BY <1>2, <2>1, <2>2 DEF SharesReleased
<1>6. Serial!SetAccount(u, z, pf, h)
  <2>1. PICK a, b : a = pf /\ b = h
    OBVIOUS
  <2> HIDE DEF pf, h
  <2>2. Serial!SetAccount(u, z, a, b)
    BY <1>3, <1>4, <1>5, <2>1, AccountSet
  <2> QED
    BY <2>1, <2>2
<1>7. Serial!ReleaseAs(i, st)
  BY <1>2, <1>6 DEF Serial!ReleaseAs, Serial!ReleaseFunds, Serial!ReleaseShares,
     ReleaseFunds, ReleaseShares
<1>8. UNCHANGED <<subscription, day, market, resetAt>>
  BY DEF Release, clock
<1>9. i \in Serial!Ids /\ orders[i].status = "PENDING"
  BY <1>2 DEF Pending, Serial!Ids
<1>10. CASE s.kind \in {"cancel", "reset"}
  <2>1. Serial!CancelOrder(i)
    BY <1>7, <1>8, <1>9, <1>10 DEF Serial!CancelOrder, StatusGiven
  <2> QED
    BY <1>9, <2>1 DEF Serial!Next
<1>11. CASE s.kind = "expire"
  <2>1. Serial!ExpireOrder(i)
    BY <1>1, <1>2, <1>7, <1>8, <1>9, <1>11
       DEF Serial!ExpireOrder, StatusGiven, ReleaseOK, JobKinds
  <2> QED
    BY <1>9, <2>1 DEF Serial!Next
<1>12. CASE s.kind = "execute"
  <2>1. s.quote[z] \in Prices
    BY <1>3, <1>12 DEF SerialInv, SessionsInv, SessionOK
  <2>2. Serial!RejectOrder(i, s.quote[z])
    BY <1>1, <1>2, <1>7, <1>8, <1>9, <1>12
       DEF Serial!RejectOrder, StatusGiven, ReleaseOK, JobKinds, FillableAt,
           IsLimitFillable, Serial!IsLimitFillable
  <2> QED
    BY <1>9, <2>1, <2>2 DEF Serial!Next
<1> QED
  BY <1>2, <1>10, <1>11, <1>12 DEF JobKinds

\* A wipe that commits is the reset of the account.
LEMMA WipeImplements ==
  ASSUME SerialInv, SerialInv', NEW x \in Sessions, WipeCommit(x)
  PROVE  Serial!Next \/ UNCHANGED Serial!vars
<1>1. PICK u : u = sess[x].user
  OBVIOUS
<1>2. /\ u \in Users /\ Serial!PendingOf(u) = {}
      /\ UNCHANGED <<orders, trades, subscription, clock>>
      /\ AccountWiped(u) \/ UNCHANGED <<portfolio, rows, resetAt>>
  BY <1>1, WipeEffect
<1>3. CASE UNCHANGED <<portfolio, rows, resetAt>>
  BY <1>2, <1>3, StillImplements
<1>4. CASE /\ portfolio' = [portfolio EXCEPT ![u] = FreshPortfolio(InitialBalance)]
           /\ resetAt' = [resetAt EXCEPT ![u] = Len(orders)]
           /\ DOMAIN rows' = {r \in DOMAIN rows : rows[r].user_id # u}
           /\ \A r \in DOMAIN rows' : rows'[r] = rows[r]
  <2>1. PortfolioView' = [PortfolioView EXCEPT ![u] = FreshPortfolio(InitialBalance)]
    <3>1. portfolio = [v \in Users |-> portfolio[v]]
      BY DEF SerialInv, SessionsInv, Typed
    <3> QED
      BY <1>2, <1>4, <3>1 DEF PortfolioView
  <2>2. \A z \in Symbols : HoldingView'[u][z] = EmptyHolding
    <3>1. \A z \in Symbols : RowsOf(u, z)' = {}
      BY <1>4 DEF RowsOf
    <3> QED
      BY <1>2, <3>1, ShownNext DEF HoldingShown
  <2>3. ASSUME NEW v \in Users, v # u, NEW z \in Symbols
        PROVE  HoldingView'[v][z] = HoldingView[v][z]
    <3>1. RowsOf(v, z)' = RowsOf(v, z) /\ \A k \in RowsOf(v, z) : rows'[k] = rows[k]
      BY <1>4, <2>3 DEF RowsOf
    <3>2. CASE RowsOf(v, z) = {}
      BY <3>1, <3>2, Shown, ShownNext DEF HoldingShown
    <3>3. CASE RowsOf(v, z) # {}
      <4>1. PICK k : k \in RowsOf(v, z)
        BY <3>3
      <4>2. HoldingView[v][z] = rows[k].h /\ HoldingView'[v][z] = rows'[k].h
        BY <3>1, <4>1, Shown, ShownNext DEF HoldingShown
      <4> QED
        BY <3>1, <4>1, <4>2
    <3> QED
      BY <3>2, <3>3
  <2>4. /\ HoldingView = [v \in Users |-> HoldingView[v]]
        /\ HoldingView' = [v \in Users |-> HoldingView'[v]]
        /\ \A v \in Users : /\ HoldingView[v] = [y \in Symbols |-> HoldingView[v][y]]
                            /\ HoldingView'[v] = [y \in Symbols |-> HoldingView'[v][y]]
    BY DEF HoldingView
  <2> HIDE DEF HoldingView
  <2>5. HoldingView'[u] = [z \in Symbols |-> EmptyHolding]
    <3>1. HoldingView'[u] = [y \in Symbols |-> HoldingView'[u][y]]
      BY <1>2, <2>4
    <3> QED
      BY <2>2, <3>1
  <2>6. ASSUME NEW v \in Users, v # u PROVE HoldingView'[v] = HoldingView[v]
    <3>1. \A y \in Symbols : HoldingView'[v][y] = HoldingView[v][y]
      BY <2>3, <2>6
    <3>2. /\ HoldingView[v] = [y \in Symbols |-> HoldingView[v][y]]
          /\ HoldingView'[v] = [y \in Symbols |-> HoldingView'[v][y]]
      BY <2>4
    <3> QED
      BY <3>1, <3>2
  <2>7. HoldingView' = [HoldingView EXCEPT ![u] = [z \in Symbols |-> EmptyHolding]]
    BY <2>4, <2>5, <2>6
  <2>8. Serial!ResetPortfolio(u)
    BY <1>2, <1>4, <2>1, <2>7
       DEF Serial!ResetPortfolio, Serial!FreshPortfolio, FreshPortfolio,
           Serial!EmptyHolding, EmptyHolding, clock
  <2> QED
    BY <1>2, <2>8 DEF Serial!Next
<1> QED
  BY <1>2, <1>3, <1>4 DEF AccountWiped

\* The serial ledger has the same arithmetic.
LEMMA SameArithmetic ==
  /\ \A t, l, p : Serial!IsLimitFillable(t, l, p) <=> IsLimitFillable(t, l, p)
  /\ \A l, p : Serial!WithinBand(l, p) <=> WithinBand(l, p)
  /\ \A pf, h, t, q, l : Serial!CanReserve(pf, h, t, q, l) <=> CanReserve(pf, h, t, q, l)
  /\ \A pf, h, t, q, p : Serial!CanFill(pf, h, t, q, p) <=> CanFill(pf, h, t, q, p)
  /\ \A pf, a : Serial!ReserveFunds(pf, a) = ReserveFunds(pf, a)
  /\ \A h, t, q : Serial!ReserveShares(h, t, q) = ReserveShares(h, t, q)
  /\ \A pf, o : Serial!ReleaseFunds(pf, o) = ReleaseFunds(pf, o)
  /\ \A h, o : Serial!ReleaseShares(h, o) = ReleaseShares(h, o)
  /\ \A pf, h, t, q, p : Serial!FillPortfolio(pf, h, t, q, p) = FillPortfolio(pf, h, t, q, p)
  /\ \A h, t, q, p : Serial!FillHolding(h, t, q, p) = FillHolding(h, t, q, p)
<1>1. \A t, l, p : Serial!IsLimitFillable(t, l, p) <=> IsLimitFillable(t, l, p)
  BY DEF Serial!IsLimitFillable, IsLimitFillable
<1>2. \A l, p : Serial!WithinBand(l, p) <=> WithinBand(l, p)
  BY DEF Serial!WithinBand, WithinBand, Serial!LIMIT_PRICE_BAND_PERCENT,
     LIMIT_PRICE_BAND_PERCENT
<1>3. \A pf, h, t, q, l : Serial!CanReserve(pf, h, t, q, l) <=> CanReserve(pf, h, t, q, l)
  BY DEF Serial!CanReserve, CanReserve, Serial!AvailableQuantity, AvailableQuantity
<1>4. \A pf, h, t, q, p : Serial!CanFill(pf, h, t, q, p) <=> CanFill(pf, h, t, q, p)
  BY DEF Serial!CanFill, CanFill, Serial!AvailableQuantity, AvailableQuantity
<1>5. \A pf, a : Serial!ReserveFunds(pf, a) = ReserveFunds(pf, a)
  BY DEF Serial!ReserveFunds, ReserveFunds
<1>6. \A h, t, q : Serial!ReserveShares(h, t, q) = ReserveShares(h, t, q)
  BY DEF Serial!ReserveShares, ReserveShares
<1>7. \A pf, o : Serial!ReleaseFunds(pf, o) = ReleaseFunds(pf, o)
  BY DEF Serial!ReleaseFunds, ReleaseFunds
<1>8. \A h, o : Serial!ReleaseShares(h, o) = ReleaseShares(h, o)
  BY DEF Serial!ReleaseShares, ReleaseShares
<1>9. \A pf, h, t, q, p : Serial!FillPortfolio(pf, h, t, q, p) = FillPortfolio(pf, h, t, q, p)
  BY DEF Serial!FillPortfolio, FillPortfolio
<1>10. \A h, t, q, p : Serial!FillHolding(h, t, q, p) = FillHolding(h, t, q, p)
  BY DEF Serial!FillHolding, FillHolding, Serial!AverageAfterBuy, AverageAfterBuy
<1> QED
  BY <1>1, <1>2, <1>3, <1>4, <1>5, <1>6, <1>7, <1>8, <1>9, <1>10

\* A commit sets the account to what the session computed from its rows.
LEMMA CommitSetsAccount ==
  ASSUME SerialInv, SerialInv', NEW x \in Sessions, sess[x].pc = "commit",
         NEW s, NEW id, CommitsAs(x, s, id), NEW u, u = s.o.user_id, NEW z, z = s.o.symbol
  PROVE  /\ u \in Users /\ z \in Symbols
         /\ ImagePortfolio(s) = PortfolioView[u] /\ s.h = HoldingView[u][z]
         /\ Serial!SetAccount(u, z, NewPortfolio(s), NewHolding(s))
<1>1. /\ u \in Users /\ z \in Symbols
      /\ id \notin DOMAIN rows /\ id # 0
      /\ s.row = 0 => RowsOf(u, z) = {} /\ s.h = EmptyHolding
      /\ s.row # 0 => s.row \in RowsOf(u, z) /\ s.h = rows[s.row].h
  BY CommitRows
<1> DEFINE r == IF s.row = 0 THEN id ELSE s.row
           row == [user_id |-> u, symbol |-> z, h |-> NewHolding(s)]
<1>2. /\ s.pf = portfolio[u] /\ (s.pf = NoRow \/ IsPortfolio(s.pf)) /\ IsHolding(s.h)
      /\ portfolio' = [portfolio EXCEPT ![u] = NewPortfolio(s)]
      /\ rows' = IF NewHolding(s) = s.h THEN rows
                 ELSE [k \in DOMAIN rows \cup {r} |-> IF k = r THEN row ELSE rows[k]]
  BY DEF CommitsAs
<1>3. ImagePortfolio(s) = PortfolioView[u]
  BY <1>1, <1>2 DEF ImagePortfolio, PortfolioView
<1>4. s.h = HoldingView[u][z]
  BY <1>1, Shown DEF HoldingShown
<1>5. IsPortfolio(NewPortfolio(s))
  BY <1>2, ComputedRows
<1>6. PICK a, b : a = NewPortfolio(s) /\ b = NewHolding(s)
  OBVIOUS
<1>7. /\ \A v \in Users, y \in Symbols : v # u \/ y # z =>
           /\ RowsOf(v, y)' = RowsOf(v, y)
           /\ \A k \in RowsOf(v, y) : rows'[k] = rows[k]
      /\ \/ RowsOf(u, z)' = {} /\ b = EmptyHolding
         \/ \E k \in RowsOf(u, z)' : rows'[k].h = b
  <2>1. CASE NewHolding(s) = s.h
    <3>1. rows' = rows
      BY <1>2, <2>1
    <3>2. \A v, y : RowsOf(v, y)' = RowsOf(v, y)
      BY <3>1 DEF RowsOf
    <3> QED
      BY <1>1, <1>6, <2>1, <3>1, <3>2
  <2>2. CASE NewHolding(s) # s.h
    <3>1. /\ DOMAIN rows' = DOMAIN rows \cup {r}
          /\ rows'[r] = row
          /\ \A k \in DOMAIN rows : k # r => rows'[k] = rows[k]
      BY <1>2, <2>2
    <3>2. row.user_id = u /\ row.symbol = z /\ row.h = b
      BY <1>6
    <3>3. r \notin DOMAIN rows \/ (rows[r].user_id = u /\ rows[r].symbol = z)
      BY <1>1 DEF RowsOf
    <3> HIDE DEF row, r
    <3>4. r \in RowsOf(u, z)' /\ rows'[r].h = b
      BY <3>1, <3>2 DEF RowsOf
    <3>5. ASSUME NEW v \in Users, NEW y \in Symbols, v # u \/ y # z
          PROVE  /\ RowsOf(v, y)' = RowsOf(v, y)
                 /\ \A k \in RowsOf(v, y) : rows'[k] = rows[k]
      BY <3>1, <3>2, <3>3, <3>5 DEF RowsOf
    <3> QED
      BY <3>4, <3>5
  <2> QED
    BY <2>1, <2>2
<1>8. Serial!SetAccount(u, z, a, b)
  BY <1>1, <1>2, <1>5, <1>6, <1>7, AccountSet
<1> QED
  BY <1>1, <1>3, <1>4, <1>6, <1>8

\* A LIMIT order that is filled or reserved without a holding row is a BUY.
LEMMA NothingToRelease ==
  ASSUME SerialInv, NEW x \in Sessions, sess[x].pc = "commit", NEW s, NEW id,
         CommitsAs(x, s, id), s.o.order_type = "LIMIT", s.row = 0
  PROVE  s.o.trade_type = "BUY"
<1>1. /\ s.o \in Serial!Order /\ FillingOK(sess[x])
      /\ s.id = 0 => s.kind \in Placements
      /\ s.id # 0 => s.kind = "execute" /\ id = s.id /\ id \in DOMAIN orders /\ s.o = orders[id]
      /\ RowsOf(s.o.user_id, s.o.symbol) = {} /\ s.h = EmptyHolding
  BY CommitRows
<1>2. s.o = sess[x].o /\ s.kind = sess[x].kind /\ s.id = sess[x].id /\ Affordable(s)
  BY DEF CommitsAs
<1>3. s.o.quantity \in Nat \ {0} /\ s.o.trade_type \in {"BUY", "SELL"}
  BY <1>1, LedgerAssumption DEF Serial!Order, Serial!TradeTypes
<1>4. CASE s.id # 0
  BY <1>1, <1>2, <1>3, <1>4 DEF FillingOK, SerialInv, OrdersBacked
<1>5. CASE s.id = 0
  <2>1. PlacementOK(sess[x])
    BY <1>1, <1>2, <1>5 DEF FillingOK
  <2>2. s.kind = "LIMIT"
    BY <1>2, <2>1 DEF PlacementOK, Serial!MarketOrder
  <2>3. CanReserve(ImagePortfolio(s), s.h, s.o.trade_type, s.o.quantity, s.o.limit_price)
    BY <1>2, <2>2 DEF Affordable
  <2>4. AvailableQuantity(s.h) = 0
    BY <1>1 DEF AvailableQuantity, EmptyHolding
  <2> QED
    BY <1>3, <2>3, <2>4 DEF CanReserve
<1> QED
  BY <1>4, <1>5

\* So what it releases are the shares it holds.
LEMMA FillReleases ==
  ASSUME SerialInv, NEW x \in Sessions, sess[x].pc = "commit", NEW s, NEW id,
         CommitsAs(x, s, id), s.o.order_type = "LIMIT"
  PROVE  ReleasedHolding(s) = ReleaseShares(ReservedHolding(s), s.o)
<1>1. CASE s.row # 0
  BY <1>1 DEF ReleasedHolding
<1>2. CASE s.row = 0
  <2>1. s.o.trade_type = "BUY"
    BY <1>2, NothingToRelease
  <2>2. ReleaseShares(ReservedHolding(s), s.o) = ReservedHolding(s)
    BY <2>1 DEF ReleaseShares
  <2> QED
    BY <1>2, <2>2 DEF ReleasedHolding
<1> QED
  BY <1>1, <1>2

\* A commit is a placement or the fill of a pending order.
LEMMA CommitImplements ==
  ASSUME SerialInv, SerialInv', NEW x \in Sessions, Commit(x)
  PROVE  Serial!Next
<1>1. PICK s, id : CommitsAs(x, s, id)
  BY CommitAlone
<1>2. PICK u, z, t, q, l, p :
        /\ u = s.o.user_id /\ z = s.o.symbol /\ t = s.o.trade_type /\ q = s.o.quantity
        /\ l = s.o.limit_price /\ p = Quote(s)
  OBVIOUS
<1> DEFINE w == sess[x]
           filled == [s.o EXCEPT !.status = "EXECUTED", !.executed_price = p]
<1>3. w.pc = "commit" /\ UNCHANGED <<subscription, day, market, resetAt>>
  BY DEF Commit, clock
<1>4. /\ s.o \in Serial!Order /\ u \in Users /\ z \in Symbols /\ p \in Prices
      /\ t \in TradeTypes /\ q \in Quantities
      /\ s.id = 0 => s.kind \in Placements
      /\ s.id # 0 => s.kind = "execute" /\ id = s.id /\ id \in DOMAIN orders /\ s.o = orders[id]
      /\ FillingOK(w)
  BY <1>1, <1>2, <1>3, CommitRows DEF Serial!Order, Serial!TradeTypes, TradeTypes
<1>5. /\ s.o = w.o /\ s.kind = w.kind /\ s.id = w.id /\ Quote(w) = p
      /\ Affordable(s)
      /\ orders' = IF s.id # 0 THEN [orders EXCEPT ![id] = filled]
                   ELSE Append(orders, IF Fills(s) THEN filled ELSE s.o)
  BY <1>1, <1>2 DEF CommitsAs, Quote
<1> DEFINE pf == PortfolioView[u]
           h == HoldingView[u][z]
<1>6. /\ ImagePortfolio(s) = pf /\ s.h = h
      /\ Serial!SetAccount(u, z, NewPortfolio(s), NewHolding(s))
  BY <1>1, <1>2, <1>3, CommitSetsAccount
<1>7. market = "OPEN" /\ (s.kind \in Placements => PlacementOK(w))
  BY <1>4, <1>5 DEF FillingOK
<1>11. s.o.order_type = "LIMIT" =>
         ReleasedHolding(s) = ReleaseShares(ReservedHolding(s), s.o)
  BY <1>1, <1>3, FillReleases
<1> HIDE DEF w
<1>8. CASE s.kind \in Placements /\ s.kind # "LIMIT"
  <2>1. s.o = Serial!MarketOrder(u, z, t, q, p) /\ Len(orders) < MaxOrders
        /\ Serial!UnderBuyCap(u, t)
    BY <1>2, <1>3, <1>5, <1>7, <1>8 DEF PlacementOK
  <2>2. s.o.order_type = "MARKET" /\ filled = s.o
    <3>1. s.o.order_type = "MARKET" /\ s.o.status = "EXECUTED" /\ s.o.executed_price = p
      BY <2>1 DEF Serial!MarketOrder
    <3>2. \A o \in Serial!Order :
            [o EXCEPT !.status = o.status, !.executed_price = o.executed_price] = o
      BY DEF Serial!Order
    <3> QED
      BY <1>4, <3>1, <3>2
  <2>3. s.id = 0 /\ Fills(s)
    BY <1>4, <1>8 DEF Fills, Placements
  <2>4. ReleasedPortfolio(s) = pf /\ ReleasedHolding(s) = h
    BY <1>6, <1>8, <2>2
       DEF ReleasedPortfolio, ReleasedHolding, ReservedPortfolio, ReservedHolding
  <2>5. /\ NewPortfolio(s) = FillPortfolio(pf, h, t, q, p)
        /\ NewHolding(s) = FillHolding(h, t, q, p)
        /\ CanFill(pf, h, t, q, p)
    BY <1>2, <1>5, <2>3, <2>4 DEF NewPortfolio, NewHolding, Affordable
  <2>6. orders' = Append(orders, Serial!MarketOrder(u, z, t, q, p))
    BY <1>5, <2>1, <2>2, <2>3
  <2>7. Serial!ApplyFill(u, z, pf, h, t, q, p)
    BY <1>6, <2>5, SameArithmetic DEF Serial!ApplyFill
  <2>8. Serial!PlaceMarket(u, z, t, q, p)
    BY <1>3, <1>7, <2>1, <2>6, <2>7 DEF Serial!PlaceMarket
  <2> QED
    BY <1>4, <2>8 DEF Serial!Next, Serial!TradeTypes, TradeTypes
<1>9. CASE s.kind = "LIMIT"
  <2>1. /\ s.o = Serial!LimitOrder(u, z, t, q, l) /\ l \in Prices /\ Len(orders) < MaxOrders
        /\ Serial!UnderBuyCap(u, t) /\ WithinBand(l, p)
    BY <1>2, <1>3, <1>5, <1>7, <1>9 DEF PlacementOK, Placements
  <2>2. s.o.order_type = "LIMIT"
    BY <2>1 DEF Serial!LimitOrder
  <2>3. s.id = 0
    BY <1>4, <1>9
  <2>4. Fills(s) <=> IsLimitFillable(t, l, p)
    BY <1>2, <1>9 DEF Fills
  <2> DEFINE pf2 == ReserveFunds(pf, s.o.reserved_amount)
             h2 == ReserveShares(h, t, q)
  <2>5. ReservedPortfolio(s) = pf2 /\ ReservedHolding(s) = h2
    BY <1>2, <1>6, <1>9 DEF ReservedPortfolio, ReservedHolding
  <2>6. ReleasedPortfolio(s) = ReleaseFunds(pf2, s.o) /\ ReleasedHolding(s) = ReleaseShares(h2, s.o)
    BY <1>11, <2>2, <2>5 DEF ReleasedPortfolio
  <2>7. CanReserve(pf, h, t, q, l)
    BY <1>2, <1>5, <1>6, <1>9 DEF Affordable
  <2>8. Fills(s) => Serial!ApplyFill(u, z, ReleaseFunds(pf2, s.o), ReleaseShares(h2, s.o), t, q, p)
    <3> SUFFICES ASSUME Fills(s)
                 PROVE  Serial!ApplyFill(u, z, ReleaseFunds(pf2, s.o),
                                         ReleaseShares(h2, s.o), t, q, p)
      OBVIOUS
    <3>1. /\ NewPortfolio(s)
               = FillPortfolio(ReleaseFunds(pf2, s.o), ReleaseShares(h2, s.o), t, q, p)
          /\ NewHolding(s) = FillHolding(ReleaseShares(h2, s.o), t, q, p)
          /\ CanFill(ReleaseFunds(pf2, s.o), ReleaseShares(h2, s.o), t, q, p)
      BY <1>2, <1>5, <2>6 DEF NewPortfolio, NewHolding, Affordable
    <3> QED
      BY <1>6, <3>1, SameArithmetic DEF Serial!ApplyFill
  <2>9. ~Fills(s) => Serial!SetAccount(u, z, pf2, h2)
    BY <1>6, <2>5 DEF NewPortfolio, NewHolding
  <2>10. Serial!PlaceLimit(u, z, t, q, l, p)
    <3> HIDE DEF pf2, h2, filled
    <3>1. orders' = Append(orders, IF Fills(s) THEN filled ELSE s.o)
      BY <1>5, <2>3
    <3>2. /\ Serial!ReserveFunds(pf, s.o.reserved_amount) = pf2
          /\ Serial!ReserveShares(h, t, q) = h2
      BY SameArithmetic DEF pf2, h2
    <3>3. /\ market = "OPEN" /\ Len(orders) < MaxOrders /\ Serial!UnderBuyCap(u, t)
          /\ Serial!WithinBand(l, p) /\ Serial!CanReserve(pf, h, t, q, l)
      BY <1>7, <2>1, <2>7, SameArithmetic
    <3>4. CASE Fills(s)
      <4>1. /\ Serial!IsLimitFillable(t, l, p)
            /\ Serial!ApplyFill(u, z, Serial!ReleaseFunds(pf2, s.o),
                                Serial!ReleaseShares(h2, s.o), t, q, p)
            /\ orders' = Append(orders, [s.o EXCEPT !.status = "EXECUTED",
                                                    !.executed_price = p])
        BY <2>4, <2>8, <3>1, <3>4, SameArithmetic DEF filled
      <4> QED
        BY <1>3, <2>1, <3>2, <3>3, <4>1 DEF Serial!PlaceLimit
    <3>5. CASE ~Fills(s)
      <4>1. /\ ~Serial!IsLimitFillable(t, l, p)
            /\ Serial!SetAccount(u, z, pf2, h2)
            /\ orders' = Append(orders, s.o)
        BY <2>4, <2>9, <3>1, <3>5, SameArithmetic
      <4> QED
        BY <1>3, <2>1, <3>2, <3>3, <4>1 DEF Serial!PlaceLimit
    <3> QED
      BY <3>4, <3>5
  <2> QED
    BY <1>4, <2>1, <2>10 DEF Serial!Next, Serial!TradeTypes, TradeTypes
<1>10. CASE s.kind = "execute"
  <2>1. s.id # 0
    BY <1>4, <1>10 DEF Placements
  <2>2. /\ Pending(id) /\ IsLimitFillable(t, l, p) /\ ~Serial!Expired(s.o)
        /\ id \in DOMAIN orders /\ s.o = orders[id]
    BY <1>2, <1>4, <1>5, <1>10, <2>1 DEF FillingOK, FillableAt, Quote
  <2>3. s.o.order_type = "LIMIT"
    BY <2>2 DEF SerialInv, OrdersBacked
  <2>4. Fills(s)
    BY <1>10 DEF Fills
  <2>5. ReleasedPortfolio(s) = ReleaseFunds(pf, s.o) /\ ReleasedHolding(s) = ReleaseShares(h, s.o)
    BY <1>6, <1>10, <1>11, <2>3
       DEF ReleasedPortfolio, ReservedPortfolio, ReservedHolding
  <2>6. /\ NewPortfolio(s) = FillPortfolio(ReleaseFunds(pf, s.o), ReleaseShares(h, s.o), t, q, p)
        /\ NewHolding(s) = FillHolding(ReleaseShares(h, s.o), t, q, p)
        /\ CanFill(ReleaseFunds(pf, s.o), ReleaseShares(h, s.o), t, q, p)
    BY <1>2, <1>5, <2>4, <2>5 DEF NewPortfolio, NewHolding, Affordable
  <2>7. Serial!ApplyFill(u, z, Serial!ReleaseFunds(pf, s.o), Serial!ReleaseShares(h, s.o), t, q, p)
    BY <1>6, <2>6, SameArithmetic DEF Serial!ApplyFill
  <2>8. orders' = [orders EXCEPT ![id] = filled]
    BY <1>5, <2>1
  <2>9. Serial!ExecutePending(id, p)
    BY <1>2, <1>3, <1>7, <2>2, <2>3, <2>7, <2>8, SameArithmetic
       DEF Serial!ExecutePending, Pending
  <2> QED
    BY <1>4, <2>2, <2>9 DEF Serial!Next, Serial!Ids
<1> QED
  BY <1>4, <1>8, <1>9, <1>10 DEF Placements

LEMMA WorldImplements ==
  ASSUME (\E u \in Users : Upgrade(u)) \/ CloseMarket \/ OpenNextDay
  PROVE  Serial!Next
<1>1. UNCHANGED <<PortfolioView, HoldingView, orders, resetAt>>
  <2>1. UNCHANGED <<portfolio, rows, orders, resetAt>>
    BY DEF Upgrade, CloseMarket, OpenNextDay, tables
  <2> QED
    BY <2>1 DEF PortfolioView, HoldingView, HoldingAt, FirstRow, RowsOf
<1>2. ASSUME NEW u \in Users, Upgrade(u) PROVE Serial!Upgrade(u)
  BY <1>1, <1>2 DEF Upgrade, Serial!Upgrade, clock
<1>3. CloseMarket => Serial!CloseMarket
  BY <1>1 DEF CloseMarket, Serial!CloseMarket
<1>4. OpenNextDay => Serial!OpenNextDay
  BY <1>1 DEF OpenNextDay, Serial!OpenNextDay
<1> QED
  BY <1>2, <1>3, <1>4 DEF Serial!Next

LEMMA StepImplements ==
  ASSUME SerialInv, SerialInv', [Next]_vars
  PROVE  [Serial!Next]_(Serial!vars)
<1> DEFINE Quiet == UNCHANGED <<portfolio, rows, orders, resetAt, subscription, clock>>
<1>1. Quiet => UNCHANGED Serial!vars
  BY StillImplements
<1>2. UNCHANGED <<tables, subscription, clock>> => Quiet
  BY DEF tables
<1> HIDE DEF Quiet
<1>3. ASSUME NEW x \in Sessions, Start(x) PROVE Quiet
  <2>1. ASSUME NEW kind, NEW u, NEW s, NEW t, NEW q, NEW l, NEW p,
               Check(x, kind, u, s, t, q, l, p)
        PROVE  Quiet
    BY <1>2, <2>1 DEF Check
  <2>2. ASSUME NEW i, Cancel(x, i) PROVE Quiet
    BY <1>2, <2>2 DEF Cancel, LockOrder
  <2>3. ASSUME NEW u, ResetList(x, u) PROVE Quiet
    BY <1>2, <2>3 DEF ResetList
  <2> QED
    BY <1>3, <2>1, <2>2, <2>3, Zenon DEF Start
<1>4. ASSUME NEW x \in Sessions, Proceed(x)
      PROVE  Quiet \/ Serial!Next \/ UNCHANGED Serial!vars
  <2>1. CASE Commit(x) \/ Release(x) \/ WipeCommit(x)
    BY <2>1, CommitImplements, ReleaseImplements, WipeImplements
  <2>2. CASE ReadPortfolio(x) \/ ReadHolding(x) \/ Refuse(x) \/ WipeDelete(x)
    BY <1>2, <2>2 DEF ReadPortfolio, ReadHolding, Refuse, WipeDelete
  <2>3. CASE \E i \in sess[x].todo : ResetCancel(x, i)
    BY <1>2, <2>3 DEF ResetCancel, LockOrder
  <2>4. CASE Reload(x) \/ TakeOrder(x) \/ ExpireAgain(x) \/ JobDone(x)
    BY <1>2, <2>4 DEF Reload, TakeOrder, LockOrder, ExpireAgain, ExpiryQuery, JobDone
  <2> QED
    BY <1>4, <2>1, <2>2, <2>3, <2>4 DEF Proceed
<1>5. ASSUME NEW x, Fault(x) PROVE Quiet
  BY <1>2, <1>5 DEF Fault
<1>6. ASSUME NEW x, NEW quote, ExecuteTick(x, quote) PROVE Quiet
  BY <1>2, <1>6 DEF ExecuteTick
<1>7. ASSUME NEW x, ExpireSweep(x) PROVE Quiet
  BY <1>2, <1>7 DEF ExpireSweep, ExpiryQuery
<1>8. UNCHANGED vars => Quiet
  BY <1>2 DEF vars
<1> QED
  BY <1>1, <1>3, <1>4, <1>5, <1>6, <1>7, <1>8, WorldImplements DEF Next

LEMMA InitImplements == Init => Serial!Init
<1> SUFFICES ASSUME Init PROVE Serial!Init
  OBVIOUS
<1>1. PortfolioView = [u \in Users |-> FreshPortfolio(InitialBalance)]
  BY DEF Init, PortfolioView
<1>2. HoldingView = [u \in Users |-> [s \in Symbols |-> EmptyHolding]]
  <2>1. DOMAIN rows = {}
    BY DEF Init
  <2>2. \A k : HoldingAt(k) = EmptyHolding
    BY <2>1 DEF HoldingAt
  <2> QED
    BY <2>2 DEF HoldingView
<1> QED
  BY <1>1, <1>2 DEF Init, Serial!Init, Serial!FreshPortfolio, FreshPortfolio,
     Serial!EmptyHolding, EmptyHolding

\* The handlers, taken apart into the statements the database sees, implement
\* the serial ledger as long as nothing but cancels, resets, upgrades and the
\* clock run beside one another: what they commit is what whole operations, one
\* after the other, would have done, whatever is aborted or lost on the way.
THEOREM SessionsImplementLedger ==
  ASSUME Overlapping \subseteq Benign
  PROVE  Spec => ImplementsLedger
<1>1. SerialInv /\ SerialInv' /\ [Next]_vars => [Serial!Next]_(Serial!vars)
  BY StepImplements
<1> QED
  BY <1>1, SerialInvariant, InitImplements, PTL DEF Spec, ImplementsLedger, Serial!Spec

-----------------------------------------------------------------------------
(* What the serial ledger promises, the sessions keep: the theorems about     *)
(* Ledger, instantiated at the view the sessions refine it with.  Serial is   *)
(* an instance of the specification and Proved one of its theorems; the       *)
(* lemmas Same... say, operator by operator, that they are the same ledger.   *)

Proved == INSTANCE LedgerTheorems WITH portfolio <- PortfolioView, holding <- HoldingView

LEMMA SameIsLimitFillable ==
  ASSUME NEW trade_type, NEW limit_price, NEW live_price
  PROVE  Serial!IsLimitFillable(trade_type, limit_price, live_price)
           <=> Proved!IsLimitFillable(trade_type, limit_price, live_price)
  BY DEF Serial!IsLimitFillable, Proved!IsLimitFillable

LEMMA SameWithinBand ==
  ASSUME NEW limit_price, NEW live_price
  PROVE  Serial!WithinBand(limit_price, live_price)
           <=> Proved!WithinBand(limit_price, live_price)
  BY DEF Serial!WithinBand, Proved!WithinBand, Serial!LIMIT_PRICE_BAND_PERCENT,
     Proved!LIMIT_PRICE_BAND_PERCENT

LEMMA SameAvailableQuantity ==
  ASSUME NEW h
  PROVE  Serial!AvailableQuantity(h) = Proved!AvailableQuantity(h)
  BY DEF Serial!AvailableQuantity, Proved!AvailableQuantity

LEMMA SameCanReserve ==
  ASSUME NEW pf, NEW h, NEW trade_type, NEW quantity, NEW limit_price
  PROVE  Serial!CanReserve(pf, h, trade_type, quantity, limit_price)
           <=> Proved!CanReserve(pf, h, trade_type, quantity, limit_price)
  BY SameAvailableQuantity DEF Serial!CanReserve, Proved!CanReserve

LEMMA SameReservedAmount ==
  ASSUME NEW trade_type, NEW quantity, NEW limit_price
  PROVE  Serial!ReservedAmount(trade_type, quantity, limit_price)
           = Proved!ReservedAmount(trade_type, quantity, limit_price)
  BY DEF Serial!ReservedAmount, Proved!ReservedAmount

LEMMA SameReserveFunds ==
  ASSUME NEW pf, NEW amount
  PROVE  Serial!ReserveFunds(pf, amount) = Proved!ReserveFunds(pf, amount)
  BY DEF Serial!ReserveFunds, Proved!ReserveFunds

LEMMA SameReserveShares ==
  ASSUME NEW h, NEW trade_type, NEW quantity
  PROVE  Serial!ReserveShares(h, trade_type, quantity)
           = Proved!ReserveShares(h, trade_type, quantity)
  BY DEF Serial!ReserveShares, Proved!ReserveShares

LEMMA SameReleaseFunds ==
  ASSUME NEW pf, NEW o
  PROVE  Serial!ReleaseFunds(pf, o) = Proved!ReleaseFunds(pf, o)
  BY DEF Serial!ReleaseFunds, Proved!ReleaseFunds

LEMMA SameReleaseShares ==
  ASSUME NEW h, NEW o
  PROVE  Serial!ReleaseShares(h, o) = Proved!ReleaseShares(h, o)
  BY DEF Serial!ReleaseShares, Proved!ReleaseShares

LEMMA SameCanFill ==
  ASSUME NEW pf, NEW h, NEW trade_type, NEW quantity, NEW live_price
  PROVE  Serial!CanFill(pf, h, trade_type, quantity, live_price)
           <=> Proved!CanFill(pf, h, trade_type, quantity, live_price)
  BY SameAvailableQuantity DEF Serial!CanFill, Proved!CanFill

LEMMA SameFillPortfolio ==
  ASSUME NEW pf, NEW h, NEW trade_type, NEW quantity, NEW live_price
  PROVE  Serial!FillPortfolio(pf, h, trade_type, quantity, live_price)
           = Proved!FillPortfolio(pf, h, trade_type, quantity, live_price)
  BY DEF Serial!FillPortfolio, Proved!FillPortfolio

LEMMA SameAverageAfterBuy ==
  ASSUME NEW h, NEW quantity, NEW live_price
  PROVE  Serial!AverageAfterBuy(h, quantity, live_price)
           = Proved!AverageAfterBuy(h, quantity, live_price)
  BY DEF Serial!AverageAfterBuy, Proved!AverageAfterBuy

LEMMA SameFillHolding ==
  ASSUME NEW h, NEW trade_type, NEW quantity, NEW live_price
  PROVE  Serial!FillHolding(h, trade_type, quantity, live_price)
           = Proved!FillHolding(h, trade_type, quantity, live_price)
  BY SameAverageAfterBuy DEF Serial!FillHolding, Proved!FillHolding

LEMMA SameIds ==
  Serial!Ids = Proved!Ids
  BY DEF Serial!Ids, Proved!Ids

LEMMA SamePendingOf ==
  ASSUME NEW u
  PROVE  Serial!PendingOf(u) = Proved!PendingOf(u)
  BY SameIds DEF Serial!PendingOf, Proved!PendingOf

LEMMA SameBuysOn ==
  ASSUME NEW u, NEW d
  PROVE  Serial!BuysOn(u, d) = Proved!BuysOn(u, d)
  BY SameIds DEF Serial!BuysOn, Proved!BuysOn

LEMMA SameUnderBuyCap ==
  ASSUME NEW u, NEW trade_type
  PROVE  Serial!UnderBuyCap(u, trade_type) <=> Proved!UnderBuyCap(u, trade_type)
<1>1. Serial!BuysOn(u, day) = Proved!BuysOn(u, day)
  BY SameBuysOn
<1> QED
  BY <1>1 DEF Serial!UnderBuyCap, Proved!UnderBuyCap, Serial!Cardinality, Proved!Cardinality

LEMMA SameExpired ==
  ASSUME NEW o
  PROVE  Serial!Expired(o) <=> Proved!Expired(o)
  BY DEF Serial!Expired, Proved!Expired

LEMMA SameSetAccount ==
  ASSUME NEW u, NEW s, NEW pf, NEW h
  PROVE  Serial!SetAccount(u, s, pf, h) <=> Proved!SetAccount(u, s, pf, h)
  BY DEF Serial!SetAccount, Proved!SetAccount

LEMMA SameApplyFill ==
  ASSUME NEW u, NEW s, NEW pf, NEW h, NEW trade_type, NEW quantity, NEW live_price
  PROVE  Serial!ApplyFill(u, s, pf, h, trade_type, quantity, live_price)
           <=> Proved!ApplyFill(u, s, pf, h, trade_type, quantity, live_price)
  BY SameCanFill, SameFillPortfolio, SameFillHolding, SameSetAccount DEF
     Serial!ApplyFill, Proved!ApplyFill

LEMMA SameMarketOrder ==
  ASSUME NEW u, NEW s, NEW t, NEW q, NEW p
  PROVE  Serial!MarketOrder(u, s, t, q, p) = Proved!MarketOrder(u, s, t, q, p)
  BY DEF Serial!MarketOrder, Proved!MarketOrder

LEMMA SameLimitOrder ==
  ASSUME NEW u, NEW s, NEW t, NEW q, NEW l
  PROVE  Serial!LimitOrder(u, s, t, q, l) = Proved!LimitOrder(u, s, t, q, l)
  BY SameReservedAmount DEF Serial!LimitOrder, Proved!LimitOrder

LEMMA SameReleaseAs ==
  ASSUME NEW i, NEW status
  PROVE  Serial!ReleaseAs(i, status) <=> Proved!ReleaseAs(i, status)
  BY SameReleaseFunds, SameReleaseShares, SameSetAccount DEF Serial!ReleaseAs,
     Proved!ReleaseAs

LEMMA SamePlaceMarket ==
  ASSUME NEW u, NEW s, NEW t, NEW q, NEW p
  PROVE  Serial!PlaceMarket(u, s, t, q, p) <=> Proved!PlaceMarket(u, s, t, q, p)
  BY SameUnderBuyCap, SameApplyFill, SameMarketOrder DEF Serial!PlaceMarket,
     Proved!PlaceMarket

LEMMA SamePlaceLimit ==
  ASSUME NEW u, NEW s, NEW t, NEW q, NEW l, NEW p
  PROVE  Serial!PlaceLimit(u, s, t, q, l, p) <=> Proved!PlaceLimit(u, s, t, q, l, p)
  BY SameIsLimitFillable, SameWithinBand, SameCanReserve, SameReserveFunds,
     SameReserveShares, SameReleaseFunds, SameReleaseShares, SameUnderBuyCap,
     SameSetAccount, SameApplyFill, SameLimitOrder DEF Serial!PlaceLimit,
     Proved!PlaceLimit

LEMMA SameCancelOrder ==
  ASSUME NEW i
  PROVE  Serial!CancelOrder(i) <=> Proved!CancelOrder(i)
  BY SameReleaseAs DEF Serial!CancelOrder, Proved!CancelOrder

LEMMA SameExecutePending ==
  ASSUME NEW i, NEW p
  PROVE  Serial!ExecutePending(i, p) <=> Proved!ExecutePending(i, p)
  BY SameIsLimitFillable, SameReleaseFunds, SameReleaseShares, SameExpired,
     SameApplyFill DEF Serial!ExecutePending, Proved!ExecutePending

LEMMA SameRejectOrder ==
  ASSUME NEW i, NEW p
  PROVE  Serial!RejectOrder(i, p) <=> Proved!RejectOrder(i, p)
  BY SameIsLimitFillable, SameExpired, SameReleaseAs DEF Serial!RejectOrder,
     Proved!RejectOrder

LEMMA SameExpireOrder ==
  ASSUME NEW i
  PROVE  Serial!ExpireOrder(i) <=> Proved!ExpireOrder(i)
  BY SameExpired, SameReleaseAs DEF Serial!ExpireOrder, Proved!ExpireOrder

LEMMA SameResetPortfolio ==
  ASSUME NEW u
  PROVE  Serial!ResetPortfolio(u) <=> Proved!ResetPortfolio(u)
  BY SamePendingOf DEF Serial!ResetPortfolio, Proved!ResetPortfolio,
     Serial!FreshPortfolio, Proved!FreshPortfolio, Serial!EmptyHolding,
     Proved!EmptyHolding

LEMMA SameUpgrade ==
  ASSUME NEW u
  PROVE  Serial!Upgrade(u) <=> Proved!Upgrade(u)
  BY DEF Serial!Upgrade, Proved!Upgrade

LEMMA SameCloseMarket ==
  Serial!CloseMarket <=> Proved!CloseMarket
  BY DEF Serial!CloseMarket, Proved!CloseMarket

LEMMA SameOpenNextDay ==
  Serial!OpenNextDay <=> Proved!OpenNextDay
  BY DEF Serial!OpenNextDay, Proved!OpenNextDay

LEMMA SameTotal ==
  ASSUME NEW f
  PROVE  Serial!Total(f) = Proved!Total(f)
<1>1. Serial!Units(f) = Proved!Units(f)
  BY DEF Serial!Units, Proved!Units
<1> QED
  BY <1>1 DEF Serial!Total, Proved!Total, Serial!Cardinality, Proved!Cardinality

LEMMA SameLockedCash ==
  ASSUME NEW o
  PROVE  Serial!LockedCash(o) = Proved!LockedCash(o)
  BY DEF Serial!LockedCash, Proved!LockedCash

LEMMA SameLockedShares ==
  ASSUME NEW o
  PROVE  Serial!LockedShares(o) = Proved!LockedShares(o)
  BY DEF Serial!LockedShares, Proved!LockedShares

LEMMA SameCashLocked ==
  ASSUME NEW u
  PROVE  Serial!CashLocked(u) = Proved!CashLocked(u)
  BY SameIds, SameLockedCash DEF Serial!CashLocked, Proved!CashLocked

LEMMA SameSharesLocked ==
  ASSUME NEW u, NEW s
  PROVE  Serial!SharesLocked(u, s) = Proved!SharesLocked(u, s)
  BY SameIds, SameLockedShares DEF Serial!SharesLocked, Proved!SharesLocked

LEMMA SameCounts ==
  ASSUME NEW i, NEW u, NEW t
  PROVE  Serial!Counts(i, u, t) <=> Proved!Counts(i, u, t)
  BY DEF Serial!Counts, Proved!Counts

LEMMA SameCashTraded ==
  ASSUME NEW u, NEW t
  PROVE  Serial!CashTraded(u, t) = Proved!CashTraded(u, t)
  BY SameIds, SameCounts DEF Serial!CashTraded, Proved!CashTraded

LEMMA SameSharesTraded ==
  ASSUME NEW u, NEW s, NEW t
  PROVE  Serial!SharesTraded(u, s, t) = Proved!SharesTraded(u, s, t)
  BY SameIds, SameCounts DEF Serial!SharesTraded, Proved!SharesTraded

LEMMA SameReservedCashBacked ==
  Serial!ReservedCashBacked <=> Proved!ReservedCashBacked
  BY SameCashLocked, SameTotal DEF Serial!ReservedCashBacked,
     Proved!ReservedCashBacked

LEMMA SameReservedSharesBacked ==
  Serial!ReservedSharesBacked <=> Proved!ReservedSharesBacked
  BY SameSharesLocked, SameTotal DEF Serial!ReservedSharesBacked,
     Proved!ReservedSharesBacked

LEMMA SameSolvent ==
  Serial!Solvent <=> Proved!Solvent
  BY DEF Serial!Solvent, Proved!Solvent

LEMMA SameAccountingIdentity ==
  Serial!AccountingIdentity <=> Proved!AccountingIdentity
  BY DEF Serial!AccountingIdentity, Proved!AccountingIdentity

LEMMA SameHistoryExplainsAccount ==
  Serial!HistoryExplainsAccount <=> Proved!HistoryExplainsAccount
  BY SameCashTraded, SameSharesTraded, SameTotal DEF Serial!HistoryExplainsAccount,
     Proved!HistoryExplainsAccount

LEMMA SameFillNeverRefused ==
  Serial!FillNeverRefused <=> Proved!FillNeverRefused
  BY SameIsLimitFillable, SameReleaseFunds, SameReleaseShares, SameCanFill, SameIds
     DEF Serial!FillNeverRefused, Proved!FillNeverRefused

LEMMA SameFreeBuyCap ==
  Serial!FreeBuyCap <=> Proved!FreeBuyCap
<1>1. \A u, d : Serial!BuysOn(u, d) = Proved!BuysOn(u, d)
  BY SameBuysOn
<1> QED
  BY <1>1 DEF Serial!FreeBuyCap, Proved!FreeBuyCap, Serial!Cardinality, Proved!Cardinality

LEMMA SameTerminalStatusFinal ==
  Serial!TerminalStatusFinal <=> Proved!TerminalStatusFinal
<1>1. Serial!vars = Proved!vars
  BY DEF Serial!vars, Proved!vars
<1>2. Serial!Ids = Proved!Ids
  BY SameIds
<1>3. [\A i \in Serial!Ids : orders[i].status # "PENDING" => orders'[i] = orders[i]]_(Serial!vars)
      <=> [\A i \in Proved!Ids : orders[i].status # "PENDING" => orders'[i] = orders[i]]_(Proved!vars)
  BY <1>2 DEF Serial!vars, Proved!vars
<1> QED
  BY <1>3, PTL DEF Serial!TerminalStatusFinal, Proved!TerminalStatusFinal

LEMMA SameSpec == Serial!Spec <=> Proved!Spec
<1>1. Serial!Init <=> Proved!Init
  BY DEF Serial!Init, Proved!Init, Serial!FreshPortfolio, Proved!FreshPortfolio,
     Serial!EmptyHolding, Proved!EmptyHolding
<1>2. Serial!Next <=> Proved!Next
  BY SameIds, SamePlaceMarket, SamePlaceLimit, SameCancelOrder, SameExpireOrder,
     SameExecutePending, SameRejectOrder, SameResetPortfolio, SameUpgrade,
     SameCloseMarket, SameOpenNextDay
     DEF Serial!Next, Proved!Next, Serial!TradeTypes, Proved!TradeTypes
<1>3. [Serial!Next]_(Serial!vars) <=> [Proved!Next]_(Proved!vars)
  BY <1>2 DEF Serial!vars, Proved!vars
<1> QED
  BY <1>1, <1>3, PTL DEF Serial!Spec, Proved!Spec

\* AI_MENTOR_ARCHITECTURE.md:100, as long as only cancels and resets overlap: the
\* cash that is locked is exactly that of the PENDING orders.
THEOREM SessionsKeepReservations ==
  ASSUME Overlapping \subseteq Benign
  PROVE  Spec => []ReservedCashBacked
<1>1. Proved!Spec => []Proved!ReservedCashBacked
  BY LedgerAssumption, Proved!ReservationsBacked
<1>2. Proved!ReservedCashBacked => ReservedCashBacked
  BY SameReservedCashBacked DEF ReservedCashBacked
<1> QED
  BY <1>1, <1>2, SessionsImplementLedger, SameSpec, PTL DEF ImplementsLedger

\* AI_MENTOR_ARCHITECTURE.md:100, under the same condition: cash and shares are what
\* the orders executed since the last reset make them, nothing is spent twice.
THEOREM SessionsExplainHistory ==
  ASSUME Overlapping \subseteq Benign
  PROVE  Spec => []HistoryExplainsAccount
<1>1. Proved!Spec => []Proved!HistoryExplainsAccount
  BY LedgerAssumption, Proved!HistoryExplains
<1>2. Proved!HistoryExplainsAccount => HistoryExplainsAccount
  BY SameHistoryExplainsAccount DEF HistoryExplainsAccount
<1> QED
  BY <1>1, <1>2, SessionsImplementLedger, SameSpec, PTL DEF ImplementsLedger

\* service.py:260, under the same condition: the free-tier cap holds whatever is
\* cancelled, reset, aborted or lost meanwhile.
THEOREM SessionsKeepBuyCap ==
  ASSUME Overlapping \subseteq Benign
  PROVE  Spec => []FreeBuyCap
<1>1. Proved!Spec => []Proved!FreeBuyCap
  BY LedgerAssumption, Proved!BuyCapKept
<1>2. Proved!FreeBuyCap => FreeBuyCap
  BY SameFreeBuyCap DEF FreeBuyCap
<1> QED
  BY <1>1, <1>2, SessionsImplementLedger, SameSpec, PTL DEF ImplementsLedger

\* Cash free and locked plus the cost of what is held is the initial balance plus
\* realized profit, after every commit of every session.
THEOREM SessionsKeepBooks ==
  ASSUME Overlapping \subseteq Benign
  PROVE  Spec => []Serial!AccountingIdentity
<1>1. Proved!Spec => []Proved!AccountingIdentity
  BY LedgerAssumption, Proved!BooksBalance
<1>2. Proved!AccountingIdentity => Serial!AccountingIdentity
  BY SameAccountingIdentity
<1> QED
  BY <1>1, <1>2, SessionsImplementLedger, SameSpec, PTL DEF ImplementsLedger

\* No commit of a session leaves an account overdrawn or oversold.
THEOREM SessionsStaySolvent ==
  ASSUME Overlapping \subseteq Benign
  PROVE  Spec => []Serial!Solvent
<1>1. Proved!Spec => []Proved!Solvent
  BY LedgerAssumption, Proved!AccountsSolvent
<1>2. Proved!Solvent => Serial!Solvent
  BY SameSolvent
<1> QED
  BY <1>1, <1>2, SessionsImplementLedger, SameSpec, PTL DEF ImplementsLedger

\* order_service.py:318, under the same condition: an order that left PENDING is not acted on
\* again by any session.
THEOREM SessionsSettleOnce ==
  ASSUME Overlapping \subseteq Benign
  PROVE  Spec => SettledOnce
<1>1. Proved!Spec => Proved!TerminalStatusFinal
  BY LedgerAssumption, Proved!SettledOrdersFinal
<1> QED
  BY <1>1, SessionsImplementLedger, SameSpec, SameTerminalStatusFinal, PTL
     DEF ImplementsLedger, SettledOnce

\* The shares that are locked are exactly those of the PENDING SELL orders.
THEOREM SessionsKeepShares ==
  ASSUME Overlapping \subseteq Benign
  PROVE  Spec => []Serial!ReservedSharesBacked
<1>1. Proved!Spec => []Proved!ReservedSharesBacked
  BY LedgerAssumption, Proved!SharesBacked
<1>2. Proved!ReservedSharesBacked => Serial!ReservedSharesBacked
  BY SameReservedSharesBacked
<1> QED
  BY <1>1, <1>2, SessionsImplementLedger, SameSpec, PTL DEF ImplementsLedger

\* What a PENDING order has locked pays for its fill at every price that
\* satisfies its limit: no executor is refused.
THEOREM SessionsNeverRefuseFills ==
  ASSUME Overlapping \subseteq Benign
  PROVE  Spec => []Serial!FillNeverRefused
<1>1. Proved!Spec => []Proved!FillNeverRefused
  BY LedgerAssumption, Proved!FillsNeverRefused
<1>2. Proved!FillNeverRefused => Serial!FillNeverRefused
  BY SameFillNeverRefused
<1> QED
  BY <1>1, <1>2, SessionsImplementLedger, SameSpec, PTL DEF ImplementsLedger

\* router.py:47, under the same condition: nothing is PENDING when the portfolio is wiped,
\* because a reset is the serial one, which has cancelled them all.
THEOREM WipesFindNothingPending ==
  ASSUME Overlapping \subseteq Benign
  PROVE  Spec => WipeFindsNothingPending
<1>1. ASSUME resetAt \in [Users -> Nat], [Serial!Next]_(Serial!vars),
             NEW u \in Users, resetAt'[u] # resetAt[u]
      PROVE  Serial!PendingOf(u) = {}
  <2>1. PICK v \in Users : Serial!ResetPortfolio(v)
    <3>1. ASSUME NEW w, NEW s, NEW t, NEW q, NEW l, NEW p,
                 Serial!PlaceMarket(w, s, t, q, p) \/ Serial!PlaceLimit(w, s, t, q, l, p)
          PROVE  FALSE
      BY <1>1, <3>1 DEF Serial!PlaceMarket, Serial!PlaceLimit
    <3>2. ASSUME NEW i, NEW p,
                 \/ Serial!CancelOrder(i) \/ Serial!ExpireOrder(i)
                 \/ Serial!ExecutePending(i, p) \/ Serial!RejectOrder(i, p)
          PROVE  FALSE
      BY <1>1, <3>2 DEF Serial!CancelOrder, Serial!ExpireOrder, Serial!ExecutePending,
         Serial!RejectOrder
    <3>3. ASSUME NEW w, Serial!Upgrade(w) \/ Serial!CloseMarket \/ Serial!OpenNextDay
          PROVE  FALSE
      BY <1>1, <3>3 DEF Serial!Upgrade, Serial!CloseMarket, Serial!OpenNextDay
    <3>4. Serial!Next
      BY <1>1 DEF Serial!vars
    <3> QED
      BY <3>1, <3>2, <3>3, <3>4, Zenon DEF Serial!Next
  <2>2. resetAt' = [resetAt EXCEPT ![v] = Len(orders)]
    BY <2>1 DEF Serial!ResetPortfolio
  <2>3. u = v
    BY <1>1, <2>2
  <2> QED
    BY <2>1, <2>3 DEF Serial!ResetPortfolio
<1>2. resetAt \in [Users -> Nat] /\ [Serial!Next]_(Serial!vars)
        => [\A u \in Users : resetAt'[u] # resetAt[u] => Serial!PendingOf(u) = {}]_vars
  BY <1>1
<1>3. SerialInv => resetAt \in [Users -> Nat]
  BY DEF SerialInv, SessionsInv, Typed
<1> QED
  BY <1>2, <1>3, SerialInvariant, SessionsImplementLedger, PTL
     DEF ImplementsLedger, Serial!Spec, WipeFindsNothingPending
=============================================================================
