-------------------------- MODULE DeletionTheorems --------------------------
(***************************************************************************)
(* Theorems about AccountDeletion, for any sets of sessions, any casts and *)
(* any bound: what is left of a deleted account, what a step may erase, and*)
(* that no circle of waiting sessions needs a deletion while no order is   *)
(* placed.                                                                 *)
(*                                                                         *)
(* Everything rests on one invariant.  Its core is what a session that has *)
(* not committed holds: which tables its locks are in, that no two sessions*)
(* hold the same row, that a row held is still there, and that a deletion  *)
(* holds every row of the tables it has been through.  The last is false   *)
(* when orders are placed or accounts reset meanwhile, but for the orders, *)
(* which only placements insert, and the reviews, which the foreign key    *)
(* sees to.                                                                *)
(***************************************************************************)
EXTENDS AccountDeletion, WellFoundedInduction, TLAPS

\* What may lock a row, or be about to: ids of this user's rows, orders of others.
Ids == Nat \cup OtherOrders

Pcs == {"idle", "erase", "place", "placing", "tick", "filling", "order",
        "portfolio", "holding", "settle", "wipe", "wiped", "review"}

Session ==
  [pc : Pcs, k : Nat, todo : SUBSET Ids, o : Ids, pf : Nat, h : Nat, rv : Nat,
   plan : Seq(Tables \cup {"users"}), fills : BOOLEAN, expired : BOOLEAN, locks : SUBSET (Tables \X Ids)]

Types ==
  /\ user \in BOOLEAN
  /\ serial \in Nat
  /\ rows \subseteq Tables \X (1 .. serial)
  /\ pending \subseteq Ids
  /\ cast \subseteq Sessions
  /\ sess \in [Sessions -> Session]

\* Nobody at work inserts but for the scheduler's fills and the mentor.
Quiet == cast \cap (Placers \cup Resetters) = {}

\* Nobody at work places orders.
Unplaced == cast \cap Placers = {}

\* Only the cast works, and only at what it is there for.
Engaged(x, s) ==
  /\ s.pc = "idle" \/ x \in cast
  /\ s.pc \in {"place", "placing"} => x \in Placers
  /\ s.pc \in {"wipe", "wiped"} => x \in Resetters

\* The tables that a deletion about to execute statement k has been through.
Before(k) == {EraseSequence[j] : j \in 1 .. (k - 1)}

Holds(s, tables) == \A l \in s.locks : l[1] \in tables

\* Where the locks of a session are, by how far it has got.
Locked(s) ==
  /\ s.pc \in {"idle", "place", "tick", "order", "wipe", "review"} => s.locks = {}
  /\ s.pc = "erase" => s.k \in 1 .. 6 /\ Holds(s, Before(s.k))
  /\ s.pc = "placing" => Holds(s, {"portfolios", "holdings"})
  /\ s.pc = "filling" => Holds(s, {"orders", "portfolios", "holdings"})
  /\ s.pc = "filling" /\ s.o \in OtherOrders => s.plan = <<>>
  /\ s.pc = "portfolio" => Holds(s, {"orders"})
  /\ s.pc = "holding" => Holds(s, {"orders", "portfolios"})
  /\ s.pc = "settle" => Holds(s, {"orders", "portfolios", "holdings"})
  /\ s.pc = "wiped" => Holds(s, {"holdings"})
  /\ s.pc \in {"filling", "portfolio", "holding", "settle"} => <<"orders", s.o>> \in s.locks
  /\ s.pc \in {"order", "portfolio", "holding", "settle"} => s.todo \subseteq Nat /\ s.o \in Nat

\* A row that is held is there: its own transaction alone can remove it.
There(s) == \A l \in s.locks : l \in rows \/ l[2] \in OtherOrders

\* A deletion holds every row there is of the tables it has been through.
SweptTables(s) ==
  Quiet /\ s.pc = "erase" =>
    \A r \in rows : r[1] \in Before(s.k) \ {"mentor_reviews"} => r \in s.locks

SweptOrders(s) ==
  Unplaced /\ s.pc = "erase" =>
    \A r \in rows : r[1] = "orders" /\ "orders" \in Before(s.k) => r \in s.locks

Swept(s) == SweptTables(s) /\ SweptOrders(s)

Exclusive == \A x, y \in Sessions : x # y => sess[x].locks \cap sess[y].locks = {}

Sound(x, s) == Engaged(x, s) /\ Locked(s) /\ There(s) /\ Swept(s)

DeletionInv ==
  /\ Types
  /\ \A x \in Sessions : Sound(x, sess[x])
  /\ Exclusive
  /\ NothingOutlivesUser

-----------------------------------------------------------------------------
(* The statements of a deletion, and what one step may do to the others.       *)

\* The place of a table in the sequence of delete_user.
StatementOf(t) ==
  CASE t = "mentor_reviews" -> 1 [] t = "orders" -> 2 [] t = "trades" -> 3
    [] t = "holdings" -> 4 [] t = "portfolios" -> 5

\* Before executing statement k a deletion has been through the tables whose
\* place is smaller.
LEMMA Statements ==
  /\ \A k \in 1 .. 6, t \in Tables : t \in Before(k) <=> StatementOf(t) < k
  /\ \A k \in 1 .. 5 : EraseSequence[k] \in Tables /\ StatementOf(EraseSequence[k]) = k
  /\ \A k \in 1 .. 5 : Before(k + 1) = Before(k) \cup {EraseSequence[k]}
  /\ Before(1) = {} /\ Len(EraseSequence) = 5
  /\ \A t \in Tables : StatementOf(t) \in 1 .. 5
<1>1. \A k \in 1 .. 5 : EraseSequence[k] \in Tables /\ StatementOf(EraseSequence[k]) = k
  BY DEF EraseSequence, Tables, StatementOf
<1>2. \A t \in Tables : StatementOf(t) \in 1 .. 5 /\ EraseSequence[StatementOf(t)] = t
  BY DEF EraseSequence, Tables, StatementOf
<1>3. \A k \in 1 .. 6, t \in Tables : t \in Before(k) <=> StatementOf(t) < k
  BY <1>1, <1>2 DEF Before
<1>4. \A k \in 1 .. 5 : Before(k + 1) = Before(k) \cup {EraseSequence[k]}
  BY DEF Before
<1>5. Before(1) = {} /\ Len(EraseSequence) = 5
  BY DEF Before, EraseSequence
<1> QED
  BY <1>1, <1>2, <1>3, <1>4, <1>5

\* A row is one of its table, and a table and an id make a row.
LEMMA RowsOfTables ==
  ASSUME Types
  PROVE  /\ \A t : RowsIn(t) \subseteq rows /\ \A r \in RowsIn(t) : r[1] = t
         /\ \A t : IdsIn(t) \subseteq Nat \ {0} /\ \A i \in IdsIn(t) : <<t, i>> \in rows
         /\ \A t : \A i \in First(t) : i \in Nat /\ Key(t, i) \subseteq RowsIn(t)
<1>1. \A r \in rows : r[1] \in Tables /\ r[2] \in Nat \ {0} /\ r = <<r[1], r[2]>>
  BY DEF Types
<1>2. \A t : RowsIn(t) \subseteq rows /\ \A r \in RowsIn(t) : r[1] = t
  BY DEF RowsIn
<1>3. \A t : IdsIn(t) \subseteq Nat \ {0} /\ \A i \in IdsIn(t) : <<t, i>> \in RowsIn(t)
  BY <1>1, <1>2 DEF IdsIn
<1>4. \A t : \A i \in First(t) : i \in Nat /\ Key(t, i) \subseteq RowsIn(t)
  BY <1>3 DEF First, Key
<1> QED
  BY <1>2, <1>3, <1>4

\* What the invariant asks of a step of session x that leaves it with s: that it
\* takes no row another holds, removes only rows it held, and inserts none that a
\* deletion has passed.
LEMMA StepKeeps ==
  ASSUME DeletionInv, NEW x \in Sessions, NEW s \in Session, Goto(x, s),
         user' \in BOOLEAN, rows' \subseteq Tables \X (1 .. serial'),
         pending' \subseteq Ids, serial' \in Nat, cast' = cast,
         Sound(x, s)', Free(x, s.locks \ sess[x].locks),
         rows \ rows' \subseteq sess[x].locks,
         \A y \in Sessions \ {x} : Quiet /\ sess[y].pc = "erase" =>
           \A r \in rows' \ rows : r[1] \notin Before(sess[y].k) \ {"mentor_reviews"},
         Unplaced => \A r \in rows' \ rows : r[1] # "orders",
         NothingOutlivesUser'
  PROVE  DeletionInv'
<1>1. /\ sess' \in [Sessions -> Session] /\ sess'[x] = s
      /\ \A y \in Sessions \ {x} : sess'[y] = sess[y]
  BY DEF DeletionInv, Types, Goto
<1>2. Types'
  BY <1>1 DEF DeletionInv, Types
<1>3. (\A y \in Sessions : Sound(y, sess[y]))'
  <2> SUFFICES ASSUME NEW y \in Sessions
               PROVE  Sound(y, sess[y])'
    OBVIOUS
  <2>1. CASE y = x
    BY <2>1, <1>1
  <2>2. CASE y # x
    <3>1. sess'[y] = sess[y] /\ Sound(y, sess[y])
      BY <2>2, <1>1 DEF DeletionInv
    <3>2. Engaged(y, sess[y])' /\ Locked(sess[y])'
      BY <3>1 DEF Sound, Engaged, Locked, Holds
    <3>3. There(sess[y])'
      <4>1. sess[x].locks \cap sess[y].locks = {}
        BY <2>2 DEF DeletionInv, Exclusive
      <4> QED
        BY <3>1, <4>1 DEF Sound, There
    <3>4. Swept(sess[y])'
      BY <3>1, <2>2 DEF Sound, Swept, SweptTables, SweptOrders, Quiet, Unplaced, Before
    <3> QED
      BY <3>2, <3>3, <3>4 DEF Sound
  <2> QED
    BY <2>1, <2>2
<1>4. Exclusive'
  <2>1. \A y \in Sessions \ {x} : s.locks \cap sess[y].locks = {}
    BY DEF DeletionInv, Exclusive, Free
  <2> QED
    BY <1>1, <2>1 DEF DeletionInv, Exclusive
<1> QED
  BY <1>2, <1>3, <1>4 DEF DeletionInv

\* In particular a step that writes nothing.
LEMMA ReadKeeps ==
  ASSUME DeletionInv, NEW x \in Sessions, NEW s \in Session, Goto(x, s),
         UNCHANGED <<user, rows, serial, cast>>, pending' \subseteq Ids,
         Sound(x, s), Free(x, s.locks \ sess[x].locks)
  PROVE  DeletionInv'
<1>1. Sound(x, s)'
  BY DEF Sound, Engaged, Locked, There, Swept, SweptTables, SweptOrders, Holds, Quiet,
         Unplaced, Before
<1>2. NothingOutlivesUser'
  BY DEF DeletionInv, NothingOutlivesUser, RowsIn
<1> QED
  BY <1>1, <1>2, StepKeeps DEF DeletionInv, Types

\* A session that holds nothing and deletes nothing is sound when it is engaged,
\* before the step and after it, and waits for nobody.
LEMMA Unlocked ==
  ASSUME NEW x \in Sessions, NEW s \in Session, s.locks = {}, Engaged(x, s),
         s.pc \in {"idle", "place", "tick", "order", "wipe", "review"},
         s.pc = "order" => s.todo \subseteq Nat /\ s.o \in Nat, cast' = cast
  PROVE  Sound(x, s) /\ Sound(x, s)' /\ \A S : Free(x, s.locks \ S)
BY DEF Sound, Locked, There, Swept, SweptTables, SweptOrders, Free, Holds, Engaged

LEMMA IdleSession ==
  Idle \in Session /\ Idle.locks = {} /\ Idle.pc = "idle" /\ Idle.o = 0
BY DEF Idle, Session, Pcs, Ids

-----------------------------------------------------------------------------
(* The deletion.                                                               *)

LEMMA DeleteBeginKeeps ==
  ASSUME DeletionInv, NEW x \in cast \cap Deleters, DeleteBegin(x)
  PROVE  DeletionInv'
<1> PICK s : s = [Idle EXCEPT !.pc = "erase", !.k = 1]
  OBVIOUS
<1>1. s \in Session /\ s.pc = "erase" /\ s.k = 1 /\ s.locks = {}
  BY IdleSession DEF Session, Pcs, Ids
<1>2. Goto(x, s) /\ UNCHANGED <<user, rows, pending, serial, cast>>
  BY DEF DeleteBegin
<1>3. Sound(x, s)
  BY <1>1, Statements DEF Sound, Engaged, Locked, Holds, There, Swept, SweptTables, SweptOrders
<1>4. Free(x, s.locks \ sess[x].locks)
  BY <1>1 DEF Free
<1> QED
  BY <1>1, <1>2, <1>3, <1>4, ReadKeeps DEF DeletionInv, Types

\* Statement k adds the rows of its table to those of the tables before.
LEMMA EraseKeeps ==
  ASSUME DeletionInv, NEW x \in cast \cap Deleters, Erase(x)
  PROVE  DeletionInv'
<1> PICK keys : keys = RowsIn(EraseSequence[sess[x].k])
  OBVIOUS
<1> PICK s : s = [sess[x] EXCEPT !.k = @ + 1, !.locks = @ \cup keys]
  OBVIOUS
<1>1. /\ x \in Sessions /\ sess[x] \in Session /\ Sound(x, sess[x])
      /\ sess[x].pc = "erase" /\ sess[x].k <= 5 /\ Free(x, keys) /\ Goto(x, s)
      /\ UNCHANGED <<user, rows, pending, serial, cast>>
  BY Statements DEF DeletionInv, Types, Erase
<1>2. sess[x].k \in 1 .. 5
  BY <1>1 DEF Sound, Locked
<1>3. keys \subseteq rows /\ \A r \in keys : r[1] = EraseSequence[sess[x].k]
  BY RowsOfTables DEF DeletionInv
<1>4. keys \subseteq Tables \X Ids
  BY <1>3 DEF DeletionInv, Types, Ids
<1>5. /\ s \in Session /\ s.pc = "erase" /\ s.k = sess[x].k + 1
      /\ s.locks = sess[x].locks \cup keys
  <2>1. sess[x].k + 1 \in Nat /\ sess[x].locks \cup keys \in SUBSET (Tables \X Ids)
    BY <1>1, <1>4 DEF Session
  <2> QED
    BY <1>1, <2>1 DEF Session
<1>6. Before(s.k) = Before(sess[x].k) \cup {EraseSequence[sess[x].k]} /\ s.k \in 1 .. 6
  BY <1>2, <1>5, Statements
<1>7. Locked(s)
  BY <1>1, <1>3, <1>5, <1>6 DEF Sound, Locked, Holds
<1>8. Swept(s)
  BY <1>1, <1>5, <1>6 DEF Sound, Swept, SweptTables, SweptOrders, RowsIn
<1>9. Sound(x, s)
  BY <1>1, <1>3, <1>5, <1>7, <1>8 DEF Sound, Engaged, There
<1>10. Free(x, s.locks \ sess[x].locks)
  BY <1>1, <1>5 DEF Free
<1> QED
  BY <1>1, <1>5, <1>9, <1>10, ReadKeeps DEF DeletionInv, Types

\* At its commit a deletion holds all that is left, when it is quiet, and all the
\* reviews in any case, or rolls back.
LEMMA DeleteCommitKeeps ==
  ASSUME DeletionInv, NEW x \in cast \cap Deleters, DeleteCommit(x)
  PROVE  /\ DeletionInv'
         /\ user' => rows' = rows
<1> PICK s : s = Idle
  OBVIOUS
<1>1. /\ x \in Sessions /\ sess[x] \in Session /\ Sound(x, sess[x])
      /\ sess[x].pc = "erase" /\ sess[x].k > 5 /\ Goto(x, s) /\ cast' = cast
      /\ serial' = serial
  BY Statements DEF DeletionInv, Types, DeleteCommit
<1>2. sess[x].k = 6
  BY <1>1 DEF Sound, Locked
<1>3. /\ Sound(x, s)' /\ Free(x, s.locks \ sess[x].locks) /\ s \in Session
  BY <1>1, IdleSession, Unlocked DEF Engaged
<1>4. CASE RowsIn("mentor_reviews") \subseteq sess[x].locks
  <2>1. user' = FALSE /\ rows' = rows \ sess[x].locks /\ pending' \subseteq pending
    BY <1>4 DEF DeleteCommit
  <2>2. RowsIn("mentor_reviews")' = {}
    BY <1>4, <2>1 DEF RowsIn
  <2>3. ASSUME Quiet
        PROVE  rows' = {}
    <3>1. \A r \in rows : r[1] \in Tables
      BY DEF DeletionInv, Types
    <3>2. \A r \in rows : r[1] \in Before(6)
      BY <3>1, Statements
    <3>3. \A r \in rows : r \in sess[x].locks
      BY <1>1, <1>2, <1>4, <2>3, <3>2 DEF Sound, Swept, SweptTables, SweptOrders, RowsIn
    <3> QED
      BY <2>1, <3>3
  <2>4. NothingOutlivesUser'
    BY <1>1, <2>2, <2>3 DEF NothingOutlivesUser, Quiet
  <2>5. DeletionInv'
    BY <1>1, <1>3, <2>1, <2>4, StepKeeps DEF DeletionInv, Types
  <2> QED
    BY <2>1, <2>5
<1>5. CASE ~(RowsIn("mentor_reviews") \subseteq sess[x].locks)
  <2>1. UNCHANGED <<user, rows, pending>>
    BY <1>5 DEF DeleteCommit
  <2>2. NothingOutlivesUser'
    BY <1>1, <2>1 DEF DeletionInv, NothingOutlivesUser, RowsIn
  <2>3. DeletionInv'
    BY <1>1, <1>3, <2>1, <2>2, StepKeeps DEF DeletionInv, Types
  <2> QED
    BY <2>1, <2>3
<1> QED
  BY <1>4, <1>5

-----------------------------------------------------------------------------
(* Placing an order.                                                           *)

Statement == Tables \cup {"users"}

LEMMA Plans ==
  /\ FillPlan \in Seq(Statement) /\ <<>> \in Seq(Statement)
  /\ \A plan \in Reservations : plan \in Seq(Statement)
  /\ \A before \in Reservations \cup {<<>>} : before \o FillPlan \in Seq(Statement)
<1>1. FillPlan \in Seq(Statement)
  BY DEF FillPlan, Statement, Tables
<1>2. \A plan \in Reservations \cup {<<>>} : plan \in Seq(Statement)
  <2>1. "portfolios" \in Statement /\ "holdings" \in Statement
    BY DEF Statement, Tables
  <2>2. /\ <<"portfolios">> \in Seq(Statement) /\ <<"holdings">> \in Seq(Statement)
        /\ <<>> \in Seq(Statement)
    BY <2>1
  <2> QED
    BY <2>2 DEF Reservations
<1> QED
  BY <1>1, <1>2

LEMMA PlaceBeginKeeps ==
  ASSUME DeletionInv, NEW x \in cast \cap Placers, PlaceBegin(x)
  PROVE  DeletionInv'
<1>1. PICK s \in Session : Goto(x, s) /\ s.pc = "place" /\ s.locks = {}
  <2>1. CASE \E plan \in Reservations : Goto(x, [Idle EXCEPT !.pc = "place", !.plan = plan])
    <3>1. PICK plan \in Reservations : Goto(x, [Idle EXCEPT !.pc = "place", !.plan = plan])
      BY <2>1
    <3> PICK s : s = [Idle EXCEPT !.pc = "place", !.plan = plan]
      OBVIOUS
    <3>2. s \in Session /\ s.pc = "place" /\ s.locks = {}
      BY Plans, IdleSession DEF Session, Pcs, Statement
    <3> QED
      BY <3>1, <3>2
  <2>2. CASE \E before \in Reservations \cup {<<>>} :
               Goto(x, [Idle EXCEPT !.pc = "place", !.plan = before \o FillPlan,
                                    !.fills = TRUE])
    <3>1. PICK plan \in Seq(Statement) :
            Goto(x, [Idle EXCEPT !.pc = "place", !.plan = plan, !.fills = TRUE])
      BY <2>2, Plans
    <3> PICK s : s = [Idle EXCEPT !.pc = "place", !.plan = plan, !.fills = TRUE]
      OBVIOUS
    <3>2. s \in Session /\ s.pc = "place" /\ s.locks = {}
      BY IdleSession DEF Session, Pcs, Statement
    <3> QED
      BY <3>1, <3>2
  <2> QED
    BY <2>1, <2>2 DEF PlaceBegin
<1>2. x \in Sessions /\ UNCHANGED <<user, rows, pending, serial, cast>>
  BY DEF PlaceBegin, DeletionInv, Types
<1>3. Sound(x, s) /\ Free(x, s.locks \ sess[x].locks)
  BY <1>1, <1>2, Unlocked DEF Engaged
<1> QED
  BY <1>1, <1>2, <1>3, ReadKeeps DEF DeletionInv, Types

LEMMA PlaceReadKeeps ==
  ASSUME DeletionInv, NEW x \in cast \cap Placers, PlaceRead(x)
  PROVE  DeletionInv'
<1>1. /\ x \in Sessions /\ sess[x] \in Session /\ Sound(x, sess[x]) /\ sess[x].pc = "place"
      /\ UNCHANGED <<user, rows, pending, serial, cast>>
  BY DEF PlaceRead, DeletionInv, Types
<1>2. CASE Goto(x, Idle)
  <2> PICK s : s = Idle
    OBVIOUS
  <2>1. s \in Session /\ Sound(x, s) /\ Free(x, s.locks \ sess[x].locks)
    BY <1>1, IdleSession, Unlocked DEF Engaged
  <2> QED
    BY <1>1, <1>2, <2>1, ReadKeeps DEF DeletionInv, Types
<1>3. ASSUME NEW pf \in First("portfolios"), NEW h \in First("holdings"),
             Goto(x, [sess[x] EXCEPT !.pc = "placing", !.pf = pf, !.h = h])
      PROVE  DeletionInv'
  <2> PICK s : s = [sess[x] EXCEPT !.pc = "placing", !.pf = pf, !.h = h]
    OBVIOUS
  <2>1. pf \in Nat /\ h \in Nat
    BY RowsOfTables DEF DeletionInv
  <2>2. s \in Session /\ s.pc = "placing" /\ s.locks = sess[x].locks
    BY <1>1, <2>1 DEF Session, Pcs
  <2>3. s.locks = {}
    BY <1>1, <2>2 DEF Sound, Locked
  <2>4. Sound(x, s)
    BY <1>1, <2>2, <2>3 DEF Sound, Engaged, Locked, There, Swept, SweptTables,
                            SweptOrders, Holds
  <2>5. Free(x, s.locks \ sess[x].locks)
    BY <2>3 DEF Free
  <2> QED
    BY <1>1, <1>3, <2>2, <2>4, <2>5, ReadKeeps DEF DeletionInv, Types
<1> QED
  BY <1>2, <1>3 DEF PlaceRead

\* What a commit inserts are rows of this user, with the next id.
LEMMA Inserting ==
  ASSUME DeletionInv, NEW x \in Sessions, NEW tables \in SUBSET Tables
  PROVE  /\ rows \cup NewKeys(tables) \subseteq Tables \X (1 .. (serial + 1))
         /\ \A r \in NewKeys(tables) : r[1] \in tables
         /\ serial + 1 \in Nat
BY DEF DeletionInv, Types, NewKeys

LEMMA PlaceCommitKeeps ==
  ASSUME DeletionInv, NEW x \in cast \cap Placers, PlaceCommit(x)
  PROVE  DeletionInv' /\ rows \subseteq rows'
<1> PICK s : s = Idle
  OBVIOUS
<1> PICK tables : tables = Inserted(x, {"orders"})
  OBVIOUS
<1>1. /\ x \in Sessions /\ Goto(x, s) /\ UNCHANGED <<user, cast>> /\ ~Quiet /\ ~Unplaced
  BY DEF PlaceCommit, DeletionInv, Types, Quiet, Unplaced
<1>2. Sound(x, s)' /\ s \in Session /\ Free(x, s.locks \ sess[x].locks)
  BY <1>1, IdleSession, Unlocked DEF Engaged
<1>3. tables \subseteq Tables \ {"mentor_reviews"}
  BY DEF Inserted, Tables
<1>4. /\ rows \subseteq rows' /\ \A r \in rows' \ rows : r[1] # "mentor_reviews"
      /\ rows' \subseteq Tables \X (1 .. serial') /\ serial' \in Nat /\ pending' \subseteq Ids
  <2>1. CASE UNCHANGED <<rows, pending, serial>>
    BY <2>1 DEF DeletionInv, Types
  <2>2. CASE /\ rows' = rows \cup NewKeys(tables) /\ serial' = serial + 1
             /\ pending' \subseteq pending \cup {serial + 1}
    BY <1>1, <1>3, <2>2, Inserting DEF DeletionInv, Types, Ids
  <2> QED
    BY <2>1, <2>2 DEF PlaceCommit
<1>5. NothingOutlivesUser'
  BY <1>1, <1>4 DEF DeletionInv, NothingOutlivesUser, RowsIn, Quiet
<1>6. DeletionInv'
  BY <1>1, <1>2, <1>4, <1>5, StepKeeps DEF DeletionInv, Types
<1> QED
  BY <1>4, <1>6

-----------------------------------------------------------------------------
(* The execution tick.                                                         *)

LEMMA TickLoadKeeps ==
  ASSUME DeletionInv, NEW x \in cast \cap Tickers, TickLoad(x)
  PROVE  DeletionInv'
<1> PICK s : s = [Idle EXCEPT !.pc = "tick", !.todo = pending]
  OBVIOUS
<1>1. s \in Session /\ s.pc = "tick" /\ s.locks = {}
  BY IdleSession DEF Session, Pcs, Ids, DeletionInv, Types
<1>2. x \in Sessions /\ Goto(x, s) /\ UNCHANGED <<user, rows, pending, serial, cast>>
  BY DEF TickLoad, DeletionInv, Types
<1>3. Sound(x, s) /\ Free(x, s.locks \ sess[x].locks)
  BY <1>1, <1>2, Unlocked DEF Engaged
<1> QED
  BY <1>1, <1>2, <1>3, ReadKeeps DEF DeletionInv, Types

\* A tick that goes on has let go of everything.
LEMMA GoingOn ==
  ASSUME DeletionInv, NEW x \in cast, NEW o, NEW again \in BOOLEAN,
         TickGoesOn(x, o, again), cast' = cast
  PROVE  \E s \in Session :
           /\ Goto(x, s) /\ Sound(x, s) /\ Sound(x, s)'
           /\ \A S : Free(x, s.locks \ S)
<1> PICK s : s = [Idle EXCEPT !.pc = IF sess[x].todo = {o} THEN "idle" ELSE "tick",
                              !.todo = sess[x].todo \ {o}, !.expired = again]
  OBVIOUS
<1>1. x \in Sessions /\ sess[x].todo \subseteq Ids
  BY DEF DeletionInv, Types, Session
<1>2. s \in Session /\ s.pc \in {"idle", "tick"} /\ s.locks = {}
  BY <1>1, IdleSession DEF Session, Pcs, Ids
<1>3. Goto(x, s)
  BY DEF TickGoesOn
<1> QED
  BY <1>1, <1>2, <1>3, Unlocked DEF Engaged

LEMMA TickVisitKeeps ==
  ASSUME DeletionInv, NEW x \in cast \cap Tickers, NEW o \in sess[x].todo, TickVisit(x, o)
  PROVE  DeletionInv'
<1>1. /\ x \in Sessions /\ sess[x] \in Session /\ Sound(x, sess[x]) /\ sess[x].pc = "tick"
      /\ o \in Ids /\ UNCHANGED <<user, rows, pending, serial, cast>>
  BY DEF TickVisit, DeletionInv, Types, Session
<1>2. ASSUME NEW again \in BOOLEAN, TickGoesOn(x, o, again)
      PROVE  DeletionInv'
  <2>1. PICK s \in Session : Goto(x, s) /\ Sound(x, s) /\ \A S : Free(x, s.locks \ S)
    BY <1>1, <1>2, GoingOn
  <2> QED
    BY <1>1, <2>1, ReadKeeps DEF DeletionInv, Types
<1>3. CASE Goto(x, Idle)
  <2> PICK s : s = Idle
    OBVIOUS
  <2>1. s \in Session /\ Sound(x, s) /\ Free(x, s.locks \ sess[x].locks)
    BY <1>1, IdleSession, Unlocked DEF Engaged
  <2> QED
    BY <1>1, <1>3, <2>1, ReadKeeps DEF DeletionInv, Types
<1>4. ASSUME Present(o), Free(x, {<<"orders", o>>}), NEW pf \in First("portfolios"),
             NEW plan, plan = IF o \in OtherOrders THEN <<>> ELSE FillPlan,
             Goto(x, [sess[x] EXCEPT !.pc = "filling", !.o = o, !.pf = pf, !.fills = TRUE,
                                     !.plan = plan, !.locks = {<<"orders", o>>}])
      PROVE  DeletionInv'
  <2> PICK lock : lock = <<"orders", o>>
    OBVIOUS
  <2> PICK s : s = [sess[x] EXCEPT !.pc = "filling", !.o = o, !.pf = pf, !.fills = TRUE,
                                   !.plan = plan, !.locks = {<<"orders", o>>}]
    OBVIOUS
  <2>1. pf \in Nat /\ plan \in Seq(Tables \cup {"users"})
    BY <1>4, RowsOfTables, Plans DEF DeletionInv, Statement
  <2>2. lock \in Tables \X Ids /\ lock[1] = "orders" /\ lock[2] = o
    BY <1>1 DEF Tables
  <2>3. /\ s \in Session /\ s.pc = "filling" /\ s.o = o /\ s.locks = {lock}
        /\ s.plan = plan
    BY <1>1, <2>1, <2>2 DEF Session, Pcs
  <2>4. lock \in rows \/ o \in OtherOrders
    BY <1>4, RowsOfTables DEF Present, DeletionInv
  <2>5. Locked(s)
    BY <1>4, <2>2, <2>3 DEF Locked, Holds
  <2>6. Sound(x, s)
    BY <1>1, <2>2, <2>3, <2>4, <2>5 DEF Sound, Engaged, There, Swept, SweptTables, SweptOrders
  <2>7. Free(x, s.locks \ sess[x].locks)
    BY <1>4, <2>3 DEF Free
  <2> QED
    BY <1>1, <1>4, <2>3, <2>6, <2>7, ReadKeeps DEF DeletionInv, Types
<1>5. sess[x].expired \in BOOLEAN /\ TRUE \in BOOLEAN
  BY <1>1 DEF Session
<1> QED
  BY <1>2, <1>3, <1>4, <1>5 DEF TickVisit

\* One statement of a plan: it locks the row it updates, or the plan is given up.
LEMMA FlushKeeps ==
  ASSUME DeletionInv, NEW x \in cast, Flush(x)
  PROVE  DeletionInv'
<1>1. /\ x \in Sessions /\ sess[x] \in Session /\ Sound(x, sess[x])
      /\ sess[x].pc \in {"placing", "filling"} /\ sess[x].plan # <<>>
      /\ UNCHANGED <<user, rows, pending, serial, cast>>
  BY DEF Flush, DeletionInv, Types
<1>2. Tail(sess[x].plan) \in Seq(Tables \cup {"users"})
  BY <1>1 DEF Session
<1>3. CASE GiveUp(x)
  <2>1. PICK s \in Session : Goto(x, s) /\ Sound(x, s) /\ \A S : Free(x, s.locks \ S)
    <3>1. CASE sess[x].pc = "filling"
      <4>1. TickGoesOn(x, sess[x].o, TRUE)
        BY <1>3, <3>1 DEF GiveUp
      <4> QED
        BY <1>1, <4>1, GoingOn
    <3>2. CASE sess[x].pc # "filling"
      <4>1. Goto(x, Idle)
        BY <1>3, <3>2 DEF GiveUp
      <4>2. Idle \in Session /\ Sound(x, Idle) /\ \A S : Free(x, Idle.locks \ S)
        BY <1>1, IdleSession, Unlocked DEF Engaged
      <4> QED
        BY <4>1, <4>2
    <3> QED
      BY <3>1, <3>2
  <2> QED
    BY <1>1, <2>1, ReadKeeps DEF DeletionInv, Types
<1>4. ASSUME NEW h \in First("holdings"),
             Goto(x, [sess[x] EXCEPT !.plan = Tail(@), !.h = h])
      PROVE  DeletionInv'
  <2> PICK s : s = [sess[x] EXCEPT !.plan = Tail(@), !.h = h]
    OBVIOUS
  <2>1. h \in Nat
    BY RowsOfTables DEF DeletionInv
  <2>2. /\ s \in Session /\ s.pc = sess[x].pc /\ s.o = sess[x].o
        /\ s.locks = sess[x].locks
    BY <1>1, <1>2, <2>1 DEF Session
  <2>3. Sound(x, s) /\ Free(x, s.locks \ sess[x].locks)
    BY <1>1, <2>2 DEF Sound, Engaged, Locked, There, Swept, SweptTables, SweptOrders,
                      Holds, Free
  <2> QED
    BY <1>1, <1>4, <2>2, <2>3, ReadKeeps DEF DeletionInv, Types
<1>5. ASSUME Free(x, Target(x)), Target(x) \subseteq rows,
             Goto(x, [sess[x] EXCEPT !.plan = Tail(@), !.locks = @ \cup Target(x)])
      PROVE  DeletionInv'
  <2> PICK keys : keys = Target(x)
    OBVIOUS
  <2> PICK s : s = [sess[x] EXCEPT !.plan = Tail(@), !.locks = @ \cup keys]
    OBVIOUS
  <2>1. \A r \in keys : r[1] \in {"portfolios", "holdings"}
    BY DEF Target, Key
  <2>2. keys \subseteq Tables \X Ids
    BY <1>5 DEF DeletionInv, Types, Ids
  <2>3. sess[x].locks \cup keys \in SUBSET (Tables \X Ids)
    BY <1>1, <2>2 DEF Session
  <2>4. /\ s \in Session /\ s.pc = sess[x].pc /\ s.o = sess[x].o
        /\ s.locks = sess[x].locks \cup keys
    BY <1>1, <1>2, <2>3 DEF Session
  <2>5. Locked(s)
    BY <1>1, <2>1, <2>4 DEF Sound, Locked, Holds
  <2>6. Sound(x, s)
    BY <1>1, <1>5, <2>4, <2>5 DEF Sound, Engaged, There, Swept, SweptTables, SweptOrders
  <2>7. Free(x, s.locks \ sess[x].locks)
    BY <1>5, <2>4 DEF Free
  <2> QED
    BY <1>1, <1>5, <2>4, <2>6, <2>7, ReadKeeps DEF DeletionInv, Types
<1> QED
  BY <1>3, <1>4, <1>5 DEF Flush

\* While no order is placed, a deletion beyond the orders holds them all: whoever
\* else holds an order of the user finds every deletion at the orders or before,
\* holding rows of mentor_reviews alone.
LEMMA FillsBefore ==
  ASSUME DeletionInv, NEW x \in Sessions, NEW y \in Sessions \ {x}, Unplaced,
         sess[y].pc = "erase",
         sess[x].pc \in {"filling", "portfolio", "holding", "settle"},
         sess[x].o \notin OtherOrders
  PROVE  sess[y].k \in 1 .. 2 /\ Before(sess[y].k) \subseteq {"mentor_reviews"}
<1> PICK lock : lock = <<"orders", sess[x].o>>
  OBVIOUS
<1>1. lock[1] = "orders" /\ lock[2] = sess[x].o
  OBVIOUS
<1>2. lock \in sess[x].locks /\ lock \in rows
  BY <1>1 DEF DeletionInv, Sound, Locked, There
<1>3. lock \notin sess[y].locks
  BY <1>2 DEF DeletionInv, Exclusive
<1>4. sess[y].k \in 1 .. 6 /\ "orders" \notin Before(sess[y].k)
  BY <1>1, <1>2, <1>3 DEF DeletionInv, Sound, Locked, Swept, SweptOrders
<1>5. sess[y].k <= 2
  BY <1>4, Statements DEF Tables, StatementOf
<1>6. Before(sess[y].k) \subseteq Tables
  BY <1>4, Statements DEF Before
<1>7. \A t \in Tables : t \in Before(sess[y].k) => StatementOf(t) < 2
  BY <1>4, <1>5, Statements
<1>8. \A t \in Tables : StatementOf(t) < 2 => t = "mentor_reviews"
  BY DEF Tables, StatementOf
<1> QED
  BY <1>4, <1>5, <1>6, <1>7, <1>8

LEMMA TickCommitKeeps ==
  ASSUME DeletionInv, NEW x \in cast \cap Tickers, TickCommit(x)
  PROVE  DeletionInv' /\ rows \subseteq rows'
<1> PICK tables : tables = Inserted(x, {})
  OBVIOUS
<1>1. /\ x \in Sessions /\ sess[x].pc = "filling" /\ UNCHANGED <<user, cast>>
      /\ TickGoesOn(x, sess[x].o, TRUE) /\ pending' \subseteq pending
  BY DEF TickCommit, DeletionInv, Types
<1>2. PICK s \in Session : Goto(x, s) /\ Sound(x, s)' /\ \A S : Free(x, s.locks \ S)
  BY <1>1, GoingOn
<1>3. tables \subseteq Tables \ {"mentor_reviews", "orders"}
  BY DEF Inserted, Tables
<1>4. CASE UNCHANGED <<rows, serial>>
  <2>1. NothingOutlivesUser'
    BY <1>1, <1>4 DEF DeletionInv, NothingOutlivesUser, RowsIn
  <2>2. DeletionInv'
    BY <1>1, <1>2, <1>4, <2>1, StepKeeps DEF DeletionInv, Types
  <2> QED
    BY <1>4, <2>2
<1>5. ASSUME sess[x].o \notin OtherOrders, rows' = rows \cup NewKeys(tables),
             serial' = serial + 1
      PROVE  DeletionInv' /\ rows \subseteq rows'
  <2>1. /\ rows \subseteq rows' /\ \A r \in rows' \ rows : r[1] \in tables
        /\ rows' \subseteq Tables \X (1 .. serial') /\ serial' \in Nat
    BY <1>1, <1>3, <1>5, Inserting
  <2>2. \A y \in Sessions \ {x} : Quiet /\ sess[y].pc = "erase" =>
           \A r \in rows' \ rows : r[1] \notin Before(sess[y].k) \ {"mentor_reviews"}
    BY <1>1, <1>5, FillsBefore DEF Quiet, Unplaced
  <2>3. <<"orders", sess[x].o>> \in rows
    BY <1>1, <1>5 DEF DeletionInv, Sound, Locked, There
  <2>4. NothingOutlivesUser'
    BY <1>1, <1>3, <2>1, <2>3 DEF DeletionInv, NothingOutlivesUser, RowsIn, Quiet
  <2>5. DeletionInv'
    BY <1>1, <1>2, <1>3, <2>1, <2>2, <2>4, StepKeeps DEF DeletionInv, Types
  <2> QED
    BY <2>1, <2>5
<1> QED
  BY <1>4, <1>5 DEF TickCommit

-----------------------------------------------------------------------------
(* Settling an order: cancel_order, expire_order, and the cancels of a reset.  *)

LEMMA SettleBeginKeeps ==
  ASSUME DeletionInv, NEW x \in cast, SettleBegin(x)
  PROVE  DeletionInv'
<1>1. PICK o \in pending \cap IdsIn("orders") :
        Goto(x, [Idle EXCEPT !.pc = "order", !.todo = {o}])
  BY DEF SettleBegin
<1> PICK s : s = [Idle EXCEPT !.pc = "order", !.todo = {o}]
  OBVIOUS
<1>2. o \in Nat /\ {o} \in SUBSET Ids /\ "order" \in Pcs
  BY RowsOfTables DEF DeletionInv, Ids, Pcs
<1>3. /\ s \in Session /\ s.pc = "order" /\ s.locks = {}
      /\ s.todo \subseteq Nat /\ s.o \in Nat
  <2> PICK todo : todo = {o}
    OBVIOUS
  <2>1. s \in Session /\ s.pc = "order" /\ s.todo = todo /\ s.locks = {} /\ s.o = 0
    BY <1>2, IdleSession DEF Session
  <2> QED
    BY <1>2, <2>1
<1>4. x \in Sessions /\ Goto(x, s) /\ UNCHANGED <<user, rows, pending, serial, cast>>
  BY <1>1 DEF SettleBegin, DeletionInv, Types
<1>5. Sound(x, s) /\ Free(x, s.locks \ sess[x].locks)
  BY <1>3, <1>4, Unlocked DEF Engaged
<1> QED
  BY <1>3, <1>4, <1>5, ReadKeeps DEF DeletionInv, Types

LEMMA SettleOrderKeeps ==
  ASSUME DeletionInv, NEW x \in cast, NEW o \in sess[x].todo, SettleOrder(x, o)
  PROVE  DeletionInv'
<1>1. /\ x \in Sessions /\ sess[x] \in Session /\ Sound(x, sess[x]) /\ sess[x].pc = "order"
      /\ UNCHANGED <<user, rows, pending, serial, cast>>
  BY DEF SettleOrder, DeletionInv, Types, Session
<1>2. sess[x].todo \subseteq Nat /\ o \in Nat
  BY <1>1 DEF Sound, Locked
<1>3. CASE Goto(x, Idle)
  <2> PICK s : s = Idle
    OBVIOUS
  <2>1. s \in Session /\ Sound(x, s) /\ Free(x, s.locks \ sess[x].locks)
    BY <1>1, IdleSession, Unlocked DEF Engaged
  <2> QED
    BY <1>1, <1>3, <2>1, ReadKeeps DEF DeletionInv, Types
<1>4. ASSUME Present(o), Free(x, {<<"orders", o>>}),
             Goto(x, [sess[x] EXCEPT !.pc = "portfolio", !.o = o,
                                     !.locks = {<<"orders", o>>}])
      PROVE  DeletionInv'
  <2> PICK lock : lock = <<"orders", o>>
    OBVIOUS
  <2> PICK s : s = [sess[x] EXCEPT !.pc = "portfolio", !.o = o,
                                   !.locks = {<<"orders", o>>}]
    OBVIOUS
  <2>1. lock \in Tables \X Ids /\ lock[1] = "orders" /\ lock[2] = o /\ o \in Ids
    BY <1>2 DEF Tables, Ids
  <2>2. /\ s \in Session /\ s.pc = "portfolio" /\ s.o = o /\ s.locks = {lock}
        /\ s.todo = sess[x].todo
    BY <1>1, <2>1 DEF Session, Pcs
  <2>3. lock \in rows \/ o \in OtherOrders
    BY <1>4, RowsOfTables DEF Present, DeletionInv
  <2>4. Locked(s)
    BY <1>2, <2>1, <2>2 DEF Locked, Holds
  <2>5. Sound(x, s)
    BY <1>1, <2>1, <2>2, <2>3, <2>4 DEF Sound, Engaged, There, Swept, SweptTables, SweptOrders
  <2>6. Free(x, s.locks \ sess[x].locks)
    BY <1>4, <2>2 DEF Free
  <2> QED
    BY <1>1, <1>4, <2>2, <2>5, <2>6, ReadKeeps DEF DeletionInv, Types
<1> QED
  BY <1>3, <1>4 DEF SettleOrder

LEMMA SettleLockKeeps ==
  ASSUME DeletionInv, NEW x \in cast, SettleLock(x)
  PROVE  DeletionInv'
<1> PICK table : table = LockSequence[sess[x].pc]
  OBVIOUS
<1>1. /\ x \in Sessions /\ sess[x] \in Session /\ Sound(x, sess[x])
      /\ sess[x].pc \in {"portfolio", "holding"}
      /\ UNCHANGED <<user, rows, pending, serial, cast>>
  BY DEF SettleLock, DeletionInv, Types
<1>2. PICK i \in First(table) :
        /\ Free(x, Key(table, i))
        /\ Goto(x, [sess[x] EXCEPT !.locks = @ \cup Key(table, i),
                      !.pc = IF @ = "portfolio" THEN "holding" ELSE "settle"])
  BY DEF SettleLock
<1> PICK s : s = [sess[x] EXCEPT !.locks = @ \cup Key(table, i),
                    !.pc = IF @ = "portfolio" THEN "holding" ELSE "settle"]
  OBVIOUS
<1>3. table = IF sess[x].pc = "portfolio" THEN "portfolios" ELSE "holdings"
  BY <1>1 DEF LockSequence
<1>4. /\ Key(table, i) \subseteq rows /\ \A r \in Key(table, i) : r[1] = table
  BY RowsOfTables DEF DeletionInv
<1>5. Key(table, i) \subseteq Tables \X Ids
  BY <1>4 DEF DeletionInv, Types, Ids
<1>6. /\ s \in Session /\ s.locks = sess[x].locks \cup Key(table, i)
      /\ s.pc = IF sess[x].pc = "portfolio" THEN "holding" ELSE "settle"
      /\ s.o = sess[x].o /\ s.todo = sess[x].todo
  <2>1. /\ sess[x].locks \cup Key(table, i) \in SUBSET (Tables \X Ids)
        /\ (IF sess[x].pc = "portfolio" THEN "holding" ELSE "settle") \in Pcs
    BY <1>1, <1>5 DEF Session, Pcs
  <2> QED
    BY <1>1, <2>1 DEF Session
<1>7. Locked(s)
  BY <1>1, <1>3, <1>4, <1>6 DEF Sound, Locked, Holds
<1>8. Sound(x, s)
  BY <1>1, <1>4, <1>6, <1>7 DEF Sound, Engaged, There, Swept, SweptTables, SweptOrders
<1>9. Free(x, s.locks \ sess[x].locks)
  BY <1>2, <1>6 DEF Free
<1> QED
  BY <1>1, <1>2, <1>6, <1>8, <1>9, ReadKeeps DEF DeletionInv, Types

LEMMA SettleCommitKeeps ==
  ASSUME DeletionInv, NEW x \in cast, SettleCommit(x)
  PROVE  DeletionInv'
<1>1. /\ x \in Sessions /\ sess[x] \in Session /\ Sound(x, sess[x]) /\ sess[x].pc = "settle"
      /\ UNCHANGED <<user, rows, serial, cast>> /\ pending' \subseteq pending
  BY DEF SettleCommit, DeletionInv, Types
<1>2. CASE Goto(x, Idle)
  <2> PICK s : s = Idle
    OBVIOUS
  <2>1. s \in Session /\ Sound(x, s) /\ Free(x, s.locks \ sess[x].locks)
    BY <1>1, IdleSession, Unlocked DEF Engaged
  <2> QED
    BY <1>1, <1>2, <2>1, ReadKeeps DEF DeletionInv, Types
<1>3. ASSUME x \in Resetters, NEW todo, todo = sess[x].todo \ {sess[x].o},
             Goto(x, [Idle EXCEPT !.pc = IF todo = {} THEN "wipe" ELSE "order",
                                  !.todo = todo])
      PROVE  DeletionInv'
  <2> PICK s : s = [Idle EXCEPT !.pc = IF todo = {} THEN "wipe" ELSE "order",
                                !.todo = todo]
    OBVIOUS
  <2>1. todo \subseteq Nat /\ todo \subseteq Ids
    BY <1>1, <1>3 DEF Sound, Locked, Ids
  <2>2. /\ s \in Session /\ s.pc \in {"wipe", "order"} /\ s.locks = {}
        /\ s.todo \subseteq Nat /\ s.o \in Nat
    <3>1. (IF todo = {} THEN "wipe" ELSE "order") \in {"wipe", "order"}
      OBVIOUS
    <3>2. {"wipe", "order"} \subseteq Pcs
      BY DEF Pcs
    <3> PICK pc \in {"wipe", "order"} : pc = IF todo = {} THEN "wipe" ELSE "order"
      BY <3>1
    <3>3. s \in Session /\ s.pc = pc /\ s.todo = todo /\ s.locks = {} /\ s.o = 0
      BY <2>1, <3>2, IdleSession DEF Session
    <3> QED
      BY <2>1, <3>3
  <2>3. Sound(x, s) /\ Free(x, s.locks \ sess[x].locks)
    BY <1>1, <1>3, <2>2, Unlocked DEF Engaged
  <2> QED
    BY <1>1, <1>3, <2>2, <2>3, ReadKeeps DEF DeletionInv, Types
<1> QED
  BY <1>2, <1>3 DEF SettleCommit

-----------------------------------------------------------------------------
(* The reset.                                                                  *)

LEMMA ResetBeginKeeps ==
  ASSUME DeletionInv, NEW x \in cast \cap Resetters, ResetBegin(x)
  PROVE  DeletionInv'
<1> PICK todo : todo = pending \cap IdsIn("orders")
  OBVIOUS
<1> PICK s : s = [Idle EXCEPT !.pc = IF todo = {} THEN "wipe" ELSE "order",
                              !.todo = todo]
  OBVIOUS
<1>1. todo \subseteq Nat /\ todo \subseteq Ids
  BY RowsOfTables DEF DeletionInv, Ids
<1>2. /\ s \in Session /\ s.pc \in {"wipe", "order"} /\ s.locks = {}
      /\ s.todo \subseteq Nat /\ s.o \in Nat
  <2>1. (IF todo = {} THEN "wipe" ELSE "order") \in {"wipe", "order"}
    OBVIOUS
  <2>2. {"wipe", "order"} \subseteq Pcs
    BY DEF Pcs
  <2> PICK pc \in {"wipe", "order"} : pc = IF todo = {} THEN "wipe" ELSE "order"
    BY <2>1
  <2>3. s \in Session /\ s.pc = pc /\ s.todo = todo /\ s.locks = {} /\ s.o = 0
    BY <1>1, <2>2, IdleSession DEF Session
  <2> QED
    BY <1>1, <2>3
<1>3. x \in Sessions /\ Goto(x, s) /\ UNCHANGED <<user, rows, pending, serial, cast>>
  BY DEF ResetBegin, DeletionInv, Types
<1>4. Sound(x, s) /\ Free(x, s.locks \ sess[x].locks)
  BY <1>2, <1>3, Unlocked DEF Engaged
<1> QED
  BY <1>2, <1>3, <1>4, ReadKeeps DEF DeletionInv, Types

LEMMA WipeHoldingsKeeps ==
  ASSUME DeletionInv, NEW x \in cast \cap Resetters, WipeHoldings(x)
  PROVE  DeletionInv'
<1>1. /\ x \in Sessions /\ sess[x] \in Session /\ Sound(x, sess[x]) /\ sess[x].pc = "wipe"
      /\ UNCHANGED <<user, rows, pending, serial, cast>> /\ Free(x, RowsIn("holdings"))
  BY DEF WipeHoldings, DeletionInv, Types
<1> PICK keys : keys = RowsIn("holdings")
  OBVIOUS
<1>2. PICK pf \in First("portfolios") :
        Goto(x, [sess[x] EXCEPT !.pc = "wiped", !.pf = pf, !.locks = keys])
  BY DEF WipeHoldings
<1> PICK s : s = [sess[x] EXCEPT !.pc = "wiped", !.pf = pf, !.locks = keys]
  OBVIOUS
<1>3. pf \in Nat /\ keys \subseteq rows /\ \A r \in keys : r[1] = "holdings"
  BY RowsOfTables DEF DeletionInv
<1>4. keys \subseteq Tables \X Ids
  BY <1>3 DEF DeletionInv, Types, Ids
<1>5. s \in Session /\ s.pc = "wiped" /\ s.locks = keys
  BY <1>1, <1>3, <1>4 DEF Session, Pcs
<1>6. Locked(s)
  BY <1>3, <1>5 DEF Locked, Holds
<1>7. Sound(x, s)
  BY <1>1, <1>3, <1>5, <1>6 DEF Sound, Engaged, There, Swept, SweptTables, SweptOrders
<1>8. Free(x, s.locks \ sess[x].locks)
  BY <1>1, <1>5 DEF Free
<1> QED
  BY <1>1, <1>2, <1>5, <1>7, <1>8, ReadKeeps DEF DeletionInv, Types

\* A reset removes the holdings it has locked.
LEMMA WipeCommitKeeps ==
  ASSUME DeletionInv, NEW x \in cast \cap Resetters, WipeCommit(x)
  PROVE  DeletionInv' /\ \A r \in rows \ rows' : r[1] = "holdings"
<1> PICK s : s = Idle
  OBVIOUS
<1>1. /\ x \in Sessions /\ sess[x].pc = "wiped" /\ Goto(x, s) /\ UNCHANGED <<user, cast>>
      /\ Sound(x, sess[x]) /\ pending' = pending /\ ~Quiet
  BY DEF WipeCommit, DeletionInv, Types, Quiet
<1>2. Sound(x, s)' /\ s \in Session /\ Free(x, s.locks \ sess[x].locks)
  BY <1>1, IdleSession, Unlocked DEF Engaged
<1>3. \A l \in sess[x].locks : l[1] = "holdings"
  BY <1>1 DEF Sound, Locked, Holds
<1>4. /\ rows \ rows' \subseteq sess[x].locks /\ \A r \in rows' \ rows : r[1] = "portfolios"
      /\ rows' \subseteq Tables \X (1 .. serial') /\ serial' \in Nat
  <2> PICK new : new = NewKeys({"portfolios"})
    OBVIOUS
  <2>1. CASE UNCHANGED <<rows, serial>>
    BY <2>1 DEF DeletionInv, Types
  <2>2. CASE rows' = rows \ sess[x].locks /\ serial' = serial
    BY <2>2 DEF DeletionInv, Types
  <2>3. CASE rows' = (rows \ sess[x].locks) \cup new /\ serial' = serial + 1
    <3>1. /\ rows \cup new \subseteq Tables \X (1 .. (serial + 1))
          /\ serial + 1 \in Nat /\ \A r \in new : r[1] = "portfolios"
      BY <1>1, <2>3, Inserting DEF Tables
    <3> QED
      BY <2>3, <3>1
  <2>4. \/ UNCHANGED <<rows, serial>>
        \/ rows' = (rows \ sess[x].locks) \cup {} /\ serial' = serial
        \/ rows' = (rows \ sess[x].locks) \cup new /\ serial' = serial + 1
    BY DEF WipeCommit
  <2>5. (rows \ sess[x].locks) \cup {} = rows \ sess[x].locks
    OBVIOUS
  <2> QED
    BY <2>1, <2>2, <2>3, <2>4, <2>5
<1>5. NothingOutlivesUser'
  BY <1>1, <1>4 DEF DeletionInv, NothingOutlivesUser, RowsIn, Quiet
<1>6. DeletionInv'
  BY <1>1, <1>2, <1>4, <1>5, StepKeeps DEF DeletionInv, Types
<1> QED
  BY <1>3, <1>4, <1>6

-----------------------------------------------------------------------------
(* The review.                                                                 *)


-----------------------------------------------------------------------------
(* The review.                                                                 *)

\* A set of naturals that is not empty has a least element.
LEMMA LeastOne ==
  ASSUME NEW T \in SUBSET Nat, T # {}
  PROVE  \E m \in T : \A n \in T : m <= n
<1> DEFINE R == OpToRel(<, Nat)
<1>1. PICK m \in T : \A n \in T : ~(<<n, m>> \in R)
  <2>1. IsWellFoundedOn(R, Nat)
    BY NatLessThanWellFounded
  <2> HIDE DEF R
  <2> QED
    BY <2>1, WFMin
<1>2. \A n \in T : ~(n < m)
  BY <1>1 DEF OpToRel
<1> HIDE DEF R
<1> QED
  BY <1>2

\* The latest review is one of the reviews: ids have a bound.
LEMMA LatestIsId ==
  ASSUME Types
  PROVE  Latest("mentor_reviews") \in Nat
<1>1. CASE IdsIn("mentor_reviews") = {}
  BY <1>1 DEF Latest
<1>2. CASE IdsIn("mentor_reviews") # {}
  <2> DEFINE ids == IdsIn("mentor_reviews")
             bounds == {b \in Nat : \A i \in ids : i <= b}
  <2>1. ids \subseteq 1 .. serial /\ serial \in Nat
    BY RowsOfTables DEF Types, IdsIn, RowsIn
  <2>2. bounds # {} /\ bounds \subseteq Nat
    BY <2>1
  <2>3. PICK b \in bounds : \A c \in bounds : b <= c
    <3> HIDE DEF bounds
    <3> QED
      BY <2>2, LeastOne
  <2>4. b \in ids
    <3>1. SUFFICES ASSUME b \notin ids
                   PROVE  FALSE
      OBVIOUS
    <3>2. \A i \in ids : i <= b - 1 /\ i \in Nat \ {0}
      BY <2>1, <2>3, <3>1
    <3>3. b - 1 \in Nat
      BY <1>2, <2>3, <3>2
    <3>4. b - 1 \in bounds
      BY <3>2, <3>3
    <3> QED
      BY <2>3, <3>3, <3>4
  <2>5. \E i \in ids : \A j \in ids : j <= i
    BY <2>3, <2>4
  <2> QED
    BY <1>2, <2>1, <2>5 DEF Latest
<1> QED
  BY <1>1, <1>2

LEMMA ReviewBeginKeeps ==
  ASSUME DeletionInv, NEW x \in cast \cap Reviewers, ReviewBegin(x)
  PROVE  DeletionInv'
<1> PICK s : s = [Idle EXCEPT !.pc = "review", !.rv = Latest("mentor_reviews")]
  OBVIOUS
<1>1. s \in Session /\ s.pc = "review" /\ s.locks = {}
  BY LatestIsId, IdleSession DEF Session, Pcs, Ids, DeletionInv
<1>2. x \in Sessions /\ Goto(x, s) /\ UNCHANGED <<user, rows, pending, serial, cast>>
  BY DEF ReviewBegin, DeletionInv, Types
<1>3. Sound(x, s) /\ Free(x, s.locks \ sess[x].locks)
  BY <1>1, <1>2, Unlocked DEF Engaged
<1> QED
  BY <1>1, <1>2, <1>3, ReadKeeps DEF DeletionInv, Types

\* Only a user who is there gets a new review.
LEMMA ReviewWriteKeeps ==
  ASSUME DeletionInv, NEW x \in cast \cap Reviewers, ReviewWrite(x)
  PROVE  DeletionInv' /\ rows \subseteq rows'
<1> PICK s : s = Idle
  OBVIOUS
<1>1. /\ x \in Sessions /\ Goto(x, s) /\ UNCHANGED <<user, pending, cast>>
  BY DEF ReviewWrite, DeletionInv, Types
<1>2. Sound(x, s)' /\ s \in Session /\ Free(x, s.locks \ sess[x].locks)
  BY <1>1, IdleSession, Unlocked DEF Engaged
<1>3. CASE UNCHANGED <<rows, serial>>
  <2>1. NothingOutlivesUser'
    BY <1>1, <1>3 DEF DeletionInv, NothingOutlivesUser, RowsIn
  <2>2. DeletionInv'
    BY <1>1, <1>2, <1>3, <2>1, StepKeeps DEF DeletionInv, Types
  <2> QED
    BY <1>3, <2>2
<1>4. CASE /\ user /\ rows' = rows \cup NewKeys({"mentor_reviews"}) /\ serial' = serial + 1
  <2>1. /\ rows' \subseteq Tables \X (1 .. serial') /\ serial' \in Nat
        /\ \A r \in rows' \ rows : r[1] = "mentor_reviews"
    BY <1>1, <1>4, Inserting DEF Tables
  <2>2. NothingOutlivesUser'
    BY <1>1, <1>4 DEF NothingOutlivesUser
  <2>3. DeletionInv'
    BY <1>1, <1>2, <1>4, <2>1, <2>2, StepKeeps DEF DeletionInv, Types
  <2> QED
    BY <1>4, <2>3
<1> QED
  BY <1>3, <1>4 DEF ReviewWrite

LEMMA DeadlockVictimKeeps ==
  ASSUME DeletionInv, NEW x \in cast, DeadlockVictim(x)
  PROVE  DeletionInv'
<1> PICK s : s = Idle
  OBVIOUS
<1>1. x \in Sessions /\ Goto(x, s) /\ UNCHANGED <<user, rows, pending, serial, cast>>
  BY DEF DeadlockVictim, DeletionInv, Types
<1>2. s \in Session /\ Sound(x, s) /\ Free(x, s.locks \ sess[x].locks)
  BY <1>1, IdleSession, Unlocked DEF Engaged
<1> QED
  BY <1>1, <1>2, ReadKeeps DEF DeletionInv, Types

-----------------------------------------------------------------------------
(* The invariant, and what follows from it.                                    *)

LEMMA DeletionInit ==
  Init => DeletionInv
<1> SUFFICES ASSUME Init
             PROVE  DeletionInv
  OBVIOUS
<1>1. /\ \A x \in Sessions : sess[x] = Idle
      /\ sess = [x \in Sessions |-> Idle]
      /\ user = TRUE
  BY DEF Init
<1>2. History \subseteq Tables \X (1 .. 2)
  BY DEF History, Tables
<1>3. Types
  BY <1>1, <1>2, IdleSession, CastsAssumption DEF Init, Types, Ids
<1>4. \A x \in Sessions : Sound(x, sess[x])
  BY <1>1, IdleSession DEF Sound, Engaged, Locked, There, Swept, SweptTables, SweptOrders
<1>5. Exclusive
  BY <1>1, IdleSession DEF Exclusive
<1> QED
  BY <1>1, <1>3, <1>4, <1>5 DEF DeletionInv, NothingOutlivesUser

\* What a step may remove from the rows.
Spared ==
  \/ rows \subseteq rows'
  \/ user' = FALSE
  \/ cast \cap Resetters # {} /\ \A r \in rows \ rows' : r[1] = "holdings"

LEMMA DeletionNext ==
  DeletionInv /\ [Next]_vars => DeletionInv' /\ Spared
<1> SUFFICES ASSUME DeletionInv, [Next]_vars
             PROVE  DeletionInv' /\ Spared
  OBVIOUS
<1> USE DEF Spared
<1>1. CASE UNCHANGED vars
  BY <1>1 DEF vars, DeletionInv, Types, Sound, Engaged, Locked, Holds, There, Swept,
              SweptTables, SweptOrders, Unplaced,
              Quiet, Before, Exclusive, NothingOutlivesUser, RowsIn
<1>2. ASSUME NEW x \in cast \cap Deleters, Delete(x)
      PROVE  DeletionInv' /\ Spared
  <2>1. CASE DeleteBegin(x)
    BY <2>1, DeleteBeginKeeps DEF DeleteBegin
  <2>2. CASE Erase(x)
    BY <2>2, EraseKeeps DEF Erase
  <2>3. CASE DeleteCommit(x)
    BY <2>3, DeleteCommitKeeps DEF DeletionInv, Types
  <2> QED
    BY <1>2, <2>1, <2>2, <2>3 DEF Delete
<1>3. ASSUME NEW x \in cast \cap Placers, Place(x)
      PROVE  DeletionInv' /\ Spared
  <2>1. CASE PlaceBegin(x)
    BY <2>1, PlaceBeginKeeps DEF PlaceBegin
  <2>2. CASE PlaceRead(x)
    BY <2>2, PlaceReadKeeps DEF PlaceRead
  <2>3. CASE Flush(x)
    BY <2>3, FlushKeeps DEF Flush
  <2>4. CASE PlaceCommit(x)
    BY <2>4, PlaceCommitKeeps
  <2> QED
    BY <1>3, <2>1, <2>2, <2>3, <2>4 DEF Place
<1>4. ASSUME NEW x \in cast \cap Tickers, Tick(x)
      PROVE  DeletionInv' /\ Spared
  <2>1. CASE TickLoad(x)
    BY <2>1, TickLoadKeeps DEF TickLoad
  <2>2. CASE \E o \in sess[x].todo : TickVisit(x, o)
    BY <2>2, TickVisitKeeps DEF TickVisit
  <2>3. CASE Flush(x)
    BY <2>3, FlushKeeps DEF Flush
  <2>4. CASE TickCommit(x)
    BY <2>4, TickCommitKeeps
  <2> QED
    BY <1>4, <2>1, <2>2, <2>3, <2>4 DEF Tick
<1>5. ASSUME NEW x \in cast, Settle(x)
      PROVE  DeletionInv' /\ Spared
  <2>1. CASE \E o \in sess[x].todo : SettleOrder(x, o)
    BY <2>1, SettleOrderKeeps DEF SettleOrder
  <2>2. CASE SettleLock(x)
    BY <2>2, SettleLockKeeps DEF SettleLock
  <2>3. CASE SettleCommit(x)
    BY <2>3, SettleCommitKeeps DEF SettleCommit
  <2> QED
    BY <1>5, <2>1, <2>2, <2>3 DEF Settle
<1>6. ASSUME NEW x \in cast \cap Settlers, SettleBegin(x)
      PROVE  DeletionInv' /\ Spared
  BY <1>6, SettleBeginKeeps DEF SettleBegin
<1>7. ASSUME NEW x \in cast \cap Resetters, Wipe(x)
      PROVE  DeletionInv' /\ Spared
  <2>1. CASE ResetBegin(x)
    BY <2>1, ResetBeginKeeps DEF ResetBegin
  <2>2. CASE WipeHoldings(x)
    BY <2>2, WipeHoldingsKeeps DEF WipeHoldings
  <2>3. CASE WipeCommit(x)
    BY <2>3, WipeCommitKeeps
  <2> QED
    BY <1>7, <2>1, <2>2, <2>3 DEF Wipe
<1>8. ASSUME NEW x \in cast \cap Reviewers, Review(x)
      PROVE  DeletionInv' /\ Spared
  <2>1. CASE ReviewBegin(x)
    BY <2>1, ReviewBeginKeeps DEF ReviewBegin
  <2>2. CASE ReviewWrite(x)
    BY <2>2, ReviewWriteKeeps
  <2> QED
    BY <1>8, <2>1, <2>2 DEF Review
<1>9. ASSUME NEW x \in cast, DeadlockVictim(x)
      PROVE  DeletionInv' /\ Spared
  BY <1>9, DeadlockVictimKeeps DEF DeadlockVictim
<1> QED
  BY <1>1, <1>2, <1>3, <1>4, <1>5, <1>6, <1>7, <1>8, <1>9 DEF Next

\* Rows have their types, no two sessions hold one row, what is held is there, and a
\* deletion that nobody inserts beside holds all of the tables it has been through.
THEOREM DeletionInvariant ==
  Spec => []DeletionInv
BY DeletionInit, DeletionNext, PTL DEF Spec

\* Nothing of a deleted account is left, whatever fills, cancels, expiries and
\* reviews were under way; beside placements and resets, no review is left.
THEOREM DeletedForGood ==
  Spec => []NothingOutlivesUser
<1>1. DeletionInv => NothingOutlivesUser
  BY DEF DeletionInv
<1> QED
  BY <1>1, DeletionInvariant, PTL

\* A row goes with its user or not at all, the holdings of a reset excepted.
THEOREM ErasedInOneTransaction ==
  Spec => ErasedTogether
<1> DEFINE Together ==
      ~user' \/ \A r \in rows \ rows' : r[1] = "holdings" /\ cast \cap Resetters # {}
<1>1. DeletionInv /\ [Next]_vars => [Together]_vars
  BY DeletionNext DEF Spared
<1>2. ErasedTogether <=> [][Together]_vars
  BY DEF ErasedTogether
<1> HIDE DEF Together
<1> QED
  BY <1>1, <1>2, DeletionInvariant, PTL DEF Spec

-----------------------------------------------------------------------------
(* Waiting.  Those who hold an order, or the holdings of a reset, wait for one *)
(* another alone: a deletion that held what they want would be at its commit.  *)
(* All others wait for them or for a deletion that is further than they are.   *)

Working(s) ==
  \/ s.pc = "filling" /\ s.plan # <<>>
  \/ s.pc \in {"portfolio", "holding", "wiped"}

\* The table of a row that a session wants.
LEMMA WantedTable ==
  ASSUME DeletionInv, Unplaced, NEW x \in Sessions, NEW r \in Wanted(x)
  PROVE  \/ sess[x].pc = "erase" /\ sess[x].k \in 1 .. 5 /\ r[1] = EraseSequence[sess[x].k]
         \/ Working(sess[x]) /\ r[1] \in {"portfolios", "holdings"}
         \/ sess[x].pc \in {"order", "wipe", "review"}
<1> PICK s : s = sess[x]
  OBVIOUS
<1>1. s \in Session /\ Sound(x, s)
  BY DEF DeletionInv, Types
<1>2. \A t, i : \A k \in Key(t, i) : k[1] = t
  BY DEF Key
<1>3. \A t : \A k \in RowsIn(t) : k[1] = t
  BY DEF RowsIn
<1>4. s.pc # "placing"
  BY <1>1 DEF Sound, Engaged, Unplaced
<1>5. CASE s.pc = "erase"
  <2>1. s.k \in 1 .. 6
    BY <1>1, <1>5 DEF Sound, Locked
  <2>2. s.k <= 5 /\ r \in RowsIn(EraseSequence[s.k])
    BY <1>5, Statements DEF Wanted
  <2> QED
    BY <1>3, <1>5, <2>1, <2>2
<1>6. CASE s.pc = "filling"
  <2>1. s.plan # <<>> /\ r \in Target(x)
    BY <1>6 DEF Wanted
  <2>2. r[1] \in {"portfolios", "holdings"}
    BY <1>2, <2>1 DEF Target
  <2> QED
    BY <1>6, <2>1, <2>2 DEF Working
<1>7. CASE s.pc \in {"portfolio", "holding"}
  <2>1. r \in RowsIn(LockSequence[s.pc])
    BY <1>7 DEF Wanted
  <2>2. r[1] = LockSequence[s.pc]
    BY <1>3, <2>1
  <2> QED
    BY <1>7, <2>2 DEF LockSequence, Working
<1>8. CASE s.pc = "wiped"
  <2>1. r \in Key("portfolios", s.pf)
    BY <1>8 DEF Wanted
  <2> QED
    BY <1>2, <1>8, <2>1 DEF Working
<1>9. CASE s.pc \in {"idle", "place", "tick", "settle"}
  BY <1>9 DEF Wanted
<1> QED
  BY <1>1, <1>4, <1>5, <1>6, <1>7, <1>8, <1>9 DEF Session, Pcs

\* Whom one waits for, when the other one waits too.
LEMMA Holder ==
  ASSUME DeletionInv, Unplaced, NEW y \in Sessions, NEW r \in sess[y].locks,
         Wanted(y) # {}
  PROVE  \/ /\ sess[y].pc = "erase" /\ sess[y].k \in 2 .. 5
            /\ r[1] \in Tables /\ StatementOf(r[1]) < sess[y].k
         \/ Working(sess[y])
<1> PICK s : s = sess[y]
  OBVIOUS
<1>1. s \in Session /\ Sound(y, s) /\ r[1] \in Tables
  BY DEF DeletionInv, Types, Session
<1>2. \/ s.pc = "erase" /\ s.k \in 1 .. 5
      \/ Working(s)
      \/ s.pc \in {"order", "wipe", "review"}
  BY WantedTable
<1>3. s.pc \notin {"order", "wipe", "review"}
  BY <1>1 DEF Sound, Locked
<1>4. CASE s.pc = "erase" /\ s.k \in 1 .. 5
  <2>1. r[1] \in Before(s.k)
    BY <1>1, <1>4 DEF Sound, Locked, Holds
  <2>2. StatementOf(r[1]) < s.k /\ StatementOf(r[1]) \in 1 .. 5
    BY <1>1, <1>4, <2>1, Statements
  <2> QED
    BY <1>1, <1>4, <2>2
<1> QED
  BY <1>2, <1>3, <1>4

\* A deletion in the way of somebody at work is at its commit.
LEMMA WorkersWaitForWorkers ==
  ASSUME DeletionInv, Unplaced, NEW x \in Sessions, NEW y \in Sessions,
         Working(sess[x]), WaitsFor(x, y), Wanted(y) # {}
  PROVE  Working(sess[y])
<1>1. PICK r \in sess[y].locks : r \in Wanted(x) /\ x # y
  BY DEF WaitsFor
<1>2. sess[x].pc # "erase" /\ sess[x].pc \notin {"order", "wipe", "review"}
  BY DEF Working
<1>3. r[1] \in {"portfolios", "holdings"}
  BY <1>1, <1>2, WantedTable
<1>4. SUFFICES ASSUME sess[y].pc = "erase", sess[y].k \in 2 .. 5,
                      StatementOf(r[1]) < sess[y].k
               PROVE  FALSE
  BY <1>1, Holder
<1>5. sess[y].k = 5 /\ r[1] = "holdings"
  BY <1>3, <1>4 DEF StatementOf
<1>6. sess[x].pc # "wiped"
  <2>1. ASSUME sess[x].pc = "wiped"
        PROVE  r[1] = "portfolios"
    BY <1>1, <2>1 DEF Wanted, Key
  <2> QED
    BY <1>5, <2>1
<1>7. sess[x].pc \in {"filling", "portfolio", "holding"} /\ sess[x].o \notin OtherOrders
  <2>1. Locked(sess[x])
    BY DEF DeletionInv, Sound
  <2>2. sess[x].pc \in {"portfolio", "holding"} => sess[x].o \notin OtherOrders
    BY <2>1, OthersAssumption DEF Locked
  <2>3. sess[x].pc = "filling" => sess[x].o \notin OtherOrders
    BY <2>1 DEF Locked, Working
  <2> QED
    BY <1>6, <2>2, <2>3 DEF Working
<1> QED
  BY <1>1, <1>4, <1>5, <1>7, FillsBefore

\* Whichever sessions wait for one another, those of them that hold an order or the
\* holdings of a reset do so by themselves: without them the deletions that are
\* furthest would wait for nobody.
LEMMA CirclesOfWorkers ==
  ASSUME DeletionInv, Unplaced, NEW X \in SUBSET Sessions, Stuck(X)
  PROVE  Stuck({x \in X : Working(sess[x])})
<1> DEFINE W == {x \in X : Working(sess[x])}
<1>1. \A x \in X : Wanted(x) # {} /\ \E y \in X : WaitsFor(x, y)
  BY DEF Stuck, WaitsFor
<1>2. \A x \in W : \E y \in W : WaitsFor(x, y)
  BY <1>1, WorkersWaitForWorkers
<1>3. W # {}
  <2> SUFFICES ASSUME W = {}
               PROVE  FALSE
    OBVIOUS
  <2>1. \A x, y \in X : WaitsFor(x, y) =>
          /\ sess[y].pc = "erase" /\ sess[y].k \in 2 .. 5
          /\ sess[x].pc = "erase" => sess[x].k \in 1 .. 5 /\ sess[x].k < sess[y].k
    <3> SUFFICES ASSUME NEW x \in X, NEW y \in X, WaitsFor(x, y)
                 PROVE  /\ sess[y].pc = "erase" /\ sess[y].k \in 2 .. 5
                        /\ sess[x].pc = "erase" => /\ sess[x].k \in 1 .. 5
                                                  /\ sess[x].k < sess[y].k
      OBVIOUS
    <3>1. PICK r \in sess[y].locks : r \in Wanted(x)
      BY DEF WaitsFor
    <3>2. ~Working(sess[x]) /\ ~Working(sess[y])
      OBVIOUS
    <3>3. /\ sess[y].pc = "erase" /\ sess[y].k \in 2 .. 5
          /\ StatementOf(r[1]) < sess[y].k
      BY <1>1, <3>1, <3>2, Holder
    <3>4. sess[x].pc = "erase" => /\ sess[x].k \in 1 .. 5
                                  /\ StatementOf(r[1]) = sess[x].k
      BY <3>1, <3>2, WantedTable, Statements
    <3> QED
      BY <3>3, <3>4
  <2> DEFINE gaps == {6 - sess[x].k : x \in {y \in X : sess[y].pc = "erase"}}
  <2>2. \E x \in X : sess[x].pc = "erase"
    BY <1>1, <2>1 DEF Stuck
  <2>3. \A x \in X : sess[x].pc = "erase" => sess[x].k \in 1 .. 5
    BY <1>1, <2>1
  <2>4. gaps \in SUBSET Nat /\ gaps # {}
    <3>1. \A x \in X : sess[x].pc = "erase" => 6 - sess[x].k \in Nat
      BY <2>3
    <3>2. PICK x \in X : sess[x].pc = "erase"
      BY <2>2
    <3>3. 6 - sess[x].k \in gaps
      BY <3>2
    <3> QED
      BY <3>1, <3>3
  <2>5. PICK g \in gaps : \A n \in gaps : g <= n
    <3> HIDE DEF gaps
    <3> QED
      BY <2>4, LeastOne
  <2>6. PICK x \in X : sess[x].pc = "erase" /\ g = 6 - sess[x].k
    BY <2>5
  <2>7. PICK y \in X : WaitsFor(x, y)
    BY <1>1
  <2>8. sess[y].pc = "erase" /\ sess[y].k \in 2 .. 5 /\ sess[x].k \in 1 .. 5
          /\ sess[x].k < sess[y].k
    BY <2>1, <2>6, <2>7
  <2>9. g <= 6 - sess[y].k
    BY <2>5, <2>8
  <2> QED
    BY <2>6, <2>8, <2>9
<1> QED
  BY <1>2, <1>3 DEF Stuck

\* While no order is placed, no set of sessions that wait for one another, however
\* large, needs a deletion for it: whatever else is under way, PostgreSQL finds
\* somebody else to abort.
THEOREM DeletionNeedsNoVictim ==
  Spec => []DeletionOutOfCircles
<1>1. DeletionInv => DeletionOutOfCircles
  <2> SUFFICES ASSUME DeletionInv, Unplaced, NEW X \in SUBSET cast, Stuck(X)
               PROVE  \E Y \in SUBSET (X \ Erasing) : Stuck(Y)
    BY DEF DeletionOutOfCircles, Unplaced
  <2> DEFINE W == {x \in X : Working(sess[x])}
  <2>1. X \in SUBSET Sessions
    BY DEF DeletionInv, Types
  <2>2. Stuck(W)
    BY <2>1, CirclesOfWorkers
  <2>3. W \in SUBSET (X \ Erasing)
    BY DEF Working, Erasing
  <2> QED
    BY <2>2, <2>3
<1> QED
  BY <1>1, DeletionInvariant, PTL
=============================================================================
