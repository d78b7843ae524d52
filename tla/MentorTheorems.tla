--------------------------- MODULE MentorTheorems ---------------------------
(***************************************************************************)
(* What is read out of the trades, for any number of trades, symbols,      *)
(* prices and quantities.  The lots the mentor matches are the shares the  *)
(* ledger holds and its profit is the ledger's; the equity curve is the    *)
(* ledger's past.  First in, first out is that shares bought and sold are  *)
(* numbered through, and a campaign is a cycle of the holding from nothing *)
(* to nothing.  All of it rests on the account of TradeHistory being a     *)
(* ledger of one user, so that the theorems about Ledger hold of it.  At   *)
(* the end: what a cached review stands for, for any number of requests    *)
(* and rows.                                                               *)
(***************************************************************************)
EXTENDS TradeHistory, MentorReviews, FiniteSetTheorems, SequenceTheorems, WellFoundedInduction, TLAPS

\* The account of TradeHistory as the ledger of one user who places nothing but
\* market orders, with the ledger's theorems about it.
Books ==
  INSTANCE LedgerTheorems WITH
    Users <- {1},
    InitialBalance <- StartingBalance,
    BuyCap <- MaxTrades,
    MaxOrders <- MaxTrades,
    LastDay <- 1,
    portfolio <- [u \in {1} |-> portfolio],
    holding <- [u \in {1} |-> holding],
    orders <- [i \in DOMAIN trades |->
                 [user_id |-> 1, symbol |-> trades[i].symbol, quantity |-> trades[i].quantity,
                  trade_type |-> trades[i].trade_type, order_type |-> "MARKET",
                  limit_price |-> 0, reserved_amount |-> 0, status |-> "EXECUTED",
                  executed_price |-> trades[i].price, created_day |-> 1]],
    subscription <- [u \in {1} |-> "FREE"],
    day <- 1,
    market <- "OPEN",
    resetAt <- [u \in {1} |-> resetAt]

-----------------------------------------------------------------------------
(* Induction up to a number, and loops.                                    *)

\* Any non-empty set of naturals has a least member.
LEMMA LeastOne ==
  ASSUME NEW T \in SUBSET Nat, T # {}
  PROVE  \E m \in T : \A n \in T : m <= n
<1> DEFINE R == OpToRel(<, Nat)
<1>1. PICK m \in T : \A n \in T : ~(<<n, m>> \in R)
  <2>1. IsWellFoundedOn(R, Nat)
    BY NatLessThanWellFounded
  <2> HIDE DEF R
  <2> QED
    BY <2>1, WFMin
<1>2. \A n \in T : ~(n < m)
  BY <1>1 DEF OpToRel
<1> HIDE DEF R
<1> QED
  BY <1>2

\* Induction for a set: it has every number up to N if it has 0 and, with each, the
\* next.
LEMMA Upwards ==
  ASSUME NEW N \in Nat, NEW P, 0 \in P, \A n \in 1 .. N : n - 1 \in P => n \in P
  PROVE  \A n \in 0 .. N : n \in P
<1> SUFFICES ASSUME NEW n \in 0 .. N, n \notin P PROVE FALSE
  OBVIOUS
<1> DEFINE T == {k \in 0 .. N : k \notin P}
<1>1. PICK m \in T : \A k \in T : m <= k
  <2>1. T \in SUBSET Nat /\ T # {}
    OBVIOUS
  <2> HIDE DEF T
  <2> QED
    BY <2>1, LeastOne
<1>2. m # 0 /\ m \in 1 .. N /\ m - 1 \in 0 .. N
  OBVIOUS
<1>3. m - 1 \in P
  BY <1>1, <1>2
<1> QED
  BY <1>2, <1>3

\* What a loop over seq is after each turn, when a turn is the function G.
IsRun(g, S, start, G, seq) ==
  /\ g \in [0 .. Len(seq) -> S]
  /\ g[0] = start
  /\ \A n \in 1 .. Len(seq) : g[n] = G[<<g[n - 1], seq[n]>>]

\* A function defined from each number to the next exists.
LEMMA Recursion ==
  ASSUME NEW S, NEW E, NEW start \in S, NEW G \in [S \X E -> S], NEW seq \in Seq(E)
  PROVE  \E g : IsRun(g, S, start, G, seq)
<1> DEFINE N == Len(seq)
           Good(n) == \E g \in [0 .. n -> S] :
                        /\ g[0] = start
                        /\ \A k \in 1 .. n : g[k] = G[<<g[k - 1], seq[k]>>]
           P == {n \in 0 .. N : Good(n)}
<1>1. N \in Nat /\ \A k \in 1 .. N : seq[k] \in E
  BY LenProperties, ElementOfSeq
<1>2. Good(0)
  <2> DEFINE g == [k \in 0 .. 0 |-> start]
  <2>1. g \in [0 .. 0 -> S] /\ g[0] = start
    OBVIOUS
  <2>2. \A k \in 1 .. 0 : g[k] = G[<<g[k - 1], seq[k]>>]
    OBVIOUS
  <2> HIDE DEF g
  <2> QED
    BY <2>1, <2>2
<1>3. ASSUME NEW n \in 1 .. N, Good(n - 1) PROVE Good(n)
  <2>1. PICK g \in [0 .. n - 1 -> S] :
               /\ g[0] = start
               /\ \A k \in 1 .. n - 1 : g[k] = G[<<g[k - 1], seq[k]>>]
    BY <1>3
  <2> DEFINE h == [k \in 0 .. n |-> IF k = n THEN G[<<g[n - 1], seq[n]>>] ELSE g[k]]
  <2>2. n \in Nat /\ n - 1 \in 0 .. n - 1 /\ \A k \in 0 .. n : k # n => k \in 0 .. n - 1
    BY <1>1
  <2>3. g[n - 1] \in S /\ seq[n] \in E
    BY <1>1, <2>2
  <2>4. h \in [0 .. n -> S]
    BY <2>2, <2>3
  <2>5. h[0] = start
    BY <2>1, <2>2
  <2>6. ASSUME NEW k \in 1 .. n PROVE h[k] = G[<<h[k - 1], seq[k]>>]
    <3>1. k \in 0 .. n /\ k - 1 \in 0 .. n /\ k - 1 # n
      BY <2>2
    <3>2. h[k - 1] = g[k - 1]
      BY <3>1
    <3>3. CASE k = n
      BY <3>1, <3>2, <3>3
    <3>4. CASE k # n
      <4>1. k \in 1 .. n - 1
        BY <2>2, <3>4
      <4>2. h[k] = g[k]
        BY <3>1, <3>4
      <4> QED
        BY <2>1, <3>2, <4>1, <4>2
    <3> QED
      BY <3>3, <3>4
  <2> HIDE DEF h
  <2> QED
    BY <2>4, <2>5, <2>6
<1>4. 0 \in P
  BY <1>1, <1>2
<1>5. \A n \in 1 .. N : n - 1 \in P => n \in P
  <2> HIDE DEF Good
  <2> SUFFICES ASSUME NEW n \in 1 .. N, n - 1 \in P PROVE n \in P
    OBVIOUS
  <2>1. Good(n)
    BY <1>3
  <2> QED
    BY <1>1, <2>1
<1>6. N \in P
  <2> HIDE DEF P
  <2>1. \A n \in 0 .. N : n \in P
    BY <1>1, <1>4, <1>5, Upwards
  <2> QED
    BY <1>1, <2>1
<1> QED
  BY <1>6 DEF IsRun

-----------------------------------------------------------------------------
(* The trades of one symbol. *)

\* What is gathered after each trade of log.
GatherRun(g, S, log, s) ==
  /\ g \in [0 .. Len(log) -> Seq(S)]
  /\ g[0] = <<>>
  /\ \A n \in 1 .. Len(log) : g[n] = (IF log[n].symbol = s THEN Append(g[n - 1], log[n]) ELSE g[n - 1])

\* OfSymbol is what is gathered in the end.
LEMMA OfSymbolRuns ==
  ASSUME NEW S, NEW s, NEW log \in Seq(S)
  PROVE  \E g : GatherRun(g, S, log, s) /\ OfSymbol(log, s) = g[Len(log)]
<1> DEFINE N       == Len(log)
           F(a, e) == (IF e.symbol = s THEN Append(a, e) ELSE a)
           start   == <<>>
           G       == [x \in Seq(S) \X S |-> F(x[1], x[2])]
           after[n \in 0 .. Len(log)] == IF n = 0 THEN start ELSE F(after[n - 1], log[n])
<1>1. N \in Nat /\ \A n \in 1 .. N : n \in 0 .. N /\ n - 1 \in 0 .. N /\ log[n] \in S
  BY LenProperties, ElementOfSeq
<1>2. OfSymbol(log, s) = after[N]
  BY DEF OfSymbol, Through
<1>3. \A a \in Seq(S), e \in S : F(a, e) \in Seq(S)
  OBVIOUS
<1>4. start \in Seq(S)
  OBVIOUS
<1>0. ASSUME NEW g \in [0 .. N -> Seq(S)], g[0] = start,
             \A n \in 1 .. N : g[n] = F(g[n - 1], log[n]), after[N] = g[N]
      PROVE  GatherRun(g, S, log, s) /\ OfSymbol(log, s) = g[Len(log)]
  BY <1>0, <1>2 DEF GatherRun
<1> HIDE DEF F, start
<1>5. G \in [Seq(S) \X S -> Seq(S)]
  BY <1>3
<1>6. PICK g : IsRun(g, Seq(S), start, G, log)
  <2> HIDE DEF G
  <2> QED
    BY <1>4, <1>5, Recursion
<1>7. \A n \in 1 .. N : g[n] = F(g[n - 1], log[n])
  BY <1>1, <1>6 DEF IsRun
<1>8. g = [n \in 0 .. Len(log) |-> IF n = 0 THEN start ELSE F(g[n - 1], log[n])]
  <2>1. \A n \in 0 .. Len(log) : g[n] = IF n = 0 THEN start ELSE F(g[n - 1], log[n])
    BY <1>1, <1>6, <1>7 DEF IsRun
  <2>2. g = [n \in 0 .. Len(log) |-> g[n]]
    BY <1>6 DEF IsRun
  <2> HIDE DEF N
  <2> QED
    BY <2>1, <2>2, Zenon
<1>9. after = CHOOSE h : h = [n \in 0 .. Len(log) |->
                 IF n = 0 THEN start ELSE F(h[n - 1], log[n])]
  OBVIOUS
<1>10. after = [n \in 0 .. Len(log) |-> IF n = 0 THEN start ELSE F(after[n - 1], log[n])]
  BY <1>8, <1>9, Zenon
<1> HIDE DEF after, G
<1> DEFINE P == {n \in 0 .. N : after[n] = g[n]}
<1>11. 0 \in P
  BY <1>1, <1>6, <1>10 DEF IsRun
<1>12. ASSUME NEW n \in 1 .. N, n - 1 \in P PROVE n \in P
  <2>1. after[n] = F(after[n - 1], log[n])
    BY <1>1, <1>10
  <2> QED
    BY <1>1, <1>7, <1>12, <2>1
<1>13. after[N] = g[N]
  <2> HIDE DEF P
  <2>1. \A n \in 0 .. N : n \in P
    BY <1>1, <1>11, <1>12, Upwards
  <2>2. N \in P
    BY <1>1, <2>1
  <2> QED
    BY <2>2 DEF P
<1>14. g \in [0 .. N -> Seq(S)] /\ g[0] = start
  BY <1>6 DEF IsRun
<1> QED
  BY <1>0, <1>7, <1>13, <1>14

\* One trade more is in the log of its own symbol only.
LEMMA OfSymbolAppend ==
  ASSUME NEW S, NEW s, NEW log \in Seq(S), NEW t \in S
  PROVE  /\ OfSymbol(log, s) \in Seq(S)
         /\ OfSymbol(Append(log, t), s) = (IF t.symbol = s THEN Append(OfSymbol(log, s), t) ELSE OfSymbol(log, s))
<1> DEFINE N       == Len(log)
           l       == Append(log, t)
           F(a, e) == (IF e.symbol = s THEN Append(a, e) ELSE a)
<1>1. /\ N \in Nat /\ l \in Seq(S) /\ Len(l) = N + 1 /\ l[N + 1] = t
      /\ \A n \in 1 .. N : l[n] = log[n]
  BY LenProperties, AppendProperties
<1>2. PICK g : GatherRun(g, S, log, s) /\ OfSymbol(log, s) = g[N]
  BY OfSymbolRuns
<1> HIDE DEF l
<1>3. PICK h : GatherRun(h, S, l, s) /\ OfSymbol(l, s) = h[Len(l)]
  BY <1>1, OfSymbolRuns
<1>4. /\ g[0] = h[0]
      /\ \A n \in 0 .. N : g[n] \in Seq(S)
      /\ \A n \in 1 .. N : g[n] = F(g[n - 1], log[n])
      /\ \A n \in 1 .. N + 1 : h[n] = F(h[n - 1], l[n])
  BY <1>1, <1>2, <1>3 DEF GatherRun
<1> DEFINE P == {n \in 0 .. N : h[n] = g[n]}
<1> HIDE DEF F, N
<1>5. 0 \in P
  BY <1>1, <1>4
<1>6. \A n \in 1 .. N : n - 1 \in P => n \in P
  BY <1>1, <1>4
<1>7. N \in P
  <2> HIDE DEF P
  <2>1. \A n \in 0 .. N : n \in P
    BY <1>1, <1>5, <1>6, Upwards
  <2> QED
    BY <1>1, <2>1
<1>8. OfSymbol(l, s) = F(g[N], t) /\ g[N] \in Seq(S)
  <2>1. N + 1 \in 1 .. Len(l) /\ (N + 1) - 1 = N /\ N \in 0 .. N
    BY <1>1
  <2>2. h[N + 1] = F(h[N], l[N + 1])
    BY <1>4, <2>1
  <2> QED
    BY <1>1, <1>2, <1>3, <1>4, <1>7, <2>1, <2>2
<1> QED
  BY <1>2, <1>8 DEF F, l

-----------------------------------------------------------------------------
(* Sums.  Total is the ledger's operator, and so are the facts about it.   *)

\* What the ledger assumes of its constants holds of those of TradeHistory.
LEMMA LedgerAssumptions ==
  /\ Prices \subseteq Nat \ {0} /\ Quantities \subseteq Nat \ {0}
  /\ StartingBalance \in Nat /\ MaxTrades \in Nat /\ 1 \in Nat
BY PricesAssumption, QuantitiesAssumption, NumberAssumption

\* The ledger's sum is this one.
LEMMA SameTotal ==
  /\ \A f : Books!Total(f) = Total(f)
  /\ \A S : Books!IsFiniteSet(S) <=> IsFiniteSet(S)
<1>1. \A S : Books!IsFiniteSet(S) <=> IsFiniteSet(S)
  BY DEF Books!IsFiniteSet, IsFiniteSet
<1>2. \A S : Books!Cardinality(S) = Cardinality(S)
  BY DEF Books!Cardinality, Cardinality
<1>3. \A f : Books!Units(f) = Units(f)
  BY DEF Books!Units, Units
<1> QED
  BY <1>1, <1>2, <1>3 DEF Books!Total, Total

\* The sum of naturals is a natural.
LEMMA TotalIsNat ==
  ASSUME NEW D, IsFiniteSet(D), NEW f \in [D -> Nat]
  PROVE  Total(f) \in Nat
BY LedgerAssumptions, SameTotal, Books!TotalType

\* The sum of zeros is zero.
LEMMA TotalOfZeros ==
  ASSUME NEW f, \A i \in DOMAIN f : f[i] = 0
  PROVE  Total(f) = 0
BY LedgerAssumptions, SameTotal, Books!TotalZero

\* One value more in a sum, as the ledger has it.
LEMMA TotalExtended ==
  ASSUME NEW D, IsFiniteSet(D), NEW k, k \notin D, NEW E, E = D \cup {k},
         NEW f \in [D -> Nat], NEW g \in [E -> Nat], \A i \in D : g[i] = f[i]
  PROVE  Total(g) = Total(f) + g[k]
<1>1. Books!Total(g) = Books!Total(f) + g[k]
  BY SameTotal, LedgerAssumptions, Books!TotalExtend
<1> QED
  BY <1>1, SameTotal

\* g has one value more than f.
OneMore(D, k, f, g) ==
  /\ IsFiniteSet(D) /\ k \notin D
  /\ f \in [D -> Nat] /\ g \in [D \cup {k} -> Nat]
  /\ \A i \in D : g[i] = f[i]

\* One value more in a sum.
LEMMA TotalGrows ==
  ASSUME NEW D, NEW k, NEW f, NEW g, OneMore(D, k, f, g)
  PROVE  Total(f) \in Nat /\ Total(g) = Total(f) + g[k]
<1>1. Total(g) = Total(f) + g[k]
  BY TotalExtended DEF OneMore
<1>2. Total(f) \in Nat
  BY TotalIsNat DEF OneMore
<1> QED
  BY <1>1, <1>2

\* One value of a sum changes.
LEMMA TotalChanges ==
  ASSUME NEW D, IsFiniteSet(D), NEW k \in D, NEW f \in [D -> Nat], NEW g \in [D -> Nat],
         \A i \in D \ {k} : g[i] = f[i]
  PROVE  Total(g) = Total(f) - f[k] + g[k]
<1>1. Books!Total(g) = Books!Total(f) - f[k] + g[k]
  BY SameTotal, LedgerAssumptions, Books!TotalUpdate
<1> QED
  BY <1>1, SameTotal

\* The same for the positions of a sequence.
LEMMA TotalOfLonger ==
  ASSUME NEW n \in Nat, NEW f \in [1 .. n -> Nat], NEW g \in [1 .. n + 1 -> Nat],
         \A i \in 1 .. n : g[i] = f[i]
  PROVE  Total(f) \in Nat /\ Total(g) = Total(f) + g[n + 1]
<1>1. IsFiniteSet(1 .. n)
  BY FS_Interval
<1>2. n + 1 \notin 1 .. n /\ 1 .. n + 1 = (1 .. n) \cup {n + 1}
  OBVIOUS
<1>3. OneMore(1 .. n, n + 1, f, g)
  BY <1>1, <1>2 DEF OneMore
<1> QED
  BY <1>3, TotalGrows

\* The sum of f over the elements of a sequence.
Summed(f, seq) == Total([i \in DOMAIN seq |-> f[seq[i]]])

\* An element more in such a sum.
LEMMA SummedAppend ==
  ASSUME NEW S, NEW f \in [S -> Nat], NEW seq \in Seq(S), NEW e \in S
  PROVE  /\ Summed(f, <<>>) = 0
         /\ Summed(f, seq) \in Nat
         /\ Summed(f, Append(seq, e)) = Summed(f, seq) + f[e]
<1> DEFINE N == Len(seq)
           l == Append(seq, e)
           a == [i \in 1 .. N |-> f[seq[i]]]
           b == [i \in 1 .. N + 1 |-> f[l[i]]]
<1>1. /\ N \in Nat /\ DOMAIN seq = 1 .. N /\ DOMAIN l = 1 .. N + 1 /\ l[N + 1] = e
      /\ \A i \in 1 .. N : seq[i] \in S /\ l[i] = seq[i]
  BY LenProperties, AppendProperties, ElementOfSeq
<1>2. a \in [1 .. N -> Nat] /\ b \in [1 .. N + 1 -> Nat] /\ b[N + 1] = f[e]
  BY <1>1
<1>3. \A i \in 1 .. N : b[i] = a[i]
  BY <1>1
<1>4. Summed(f, seq) = Total(a) /\ Summed(f, l) = Total(b)
  BY <1>1 DEF Summed
<1> HIDE DEF a, b, l, N
<1>5. Total(a) \in Nat /\ Total(b) = Total(a) + b[N + 1]
  BY <1>1, <1>2, <1>3, TotalOfLonger
<1>6. Summed(f, <<>>) = 0
  BY TotalOfZeros DEF Summed
<1> QED
  BY <1>2, <1>4, <1>5, <1>6 DEF l

\* The first n elements of a sequence.
Prefix(seq, n) == [i \in 1 .. n |-> seq[i]]

\* A prefix grows by the element after it.
LEMMA PrefixGrows ==
  ASSUME NEW S, NEW seq \in Seq(S)
  PROVE  /\ Prefix(seq, 0) = <<>>
         /\ Prefix(seq, Len(seq)) = seq
         /\ \A n \in 0 .. Len(seq) : Prefix(seq, n) \in Seq(S)
         /\ \A n \in 1 .. Len(seq) :
              seq[n] \in S /\ Prefix(seq, n) = Append(Prefix(seq, n - 1), seq[n])
<1>1. /\ Len(seq) \in Nat /\ seq = [i \in 1 .. Len(seq) |-> seq[i]]
      /\ \A i \in 1 .. Len(seq) : seq[i] \in S
  BY LenProperties, ElementOfSeq
<1>2. ASSUME NEW n \in 0 .. Len(seq) PROVE Prefix(seq, n) \in Seq(S) /\ Len(Prefix(seq, n)) = n
  <2>1. n \in Nat /\ \A i \in 1 .. n : seq[i] \in S
    BY <1>1
  <2>2. Prefix(seq, n) \in [1 .. n -> S]
    BY <2>1 DEF Prefix
  <2> QED
    BY <2>1, <2>2, LenProperties, IsASeq
<1>3. ASSUME NEW n \in 1 .. Len(seq)
      PROVE  Prefix(seq, n) = Append(Prefix(seq, n - 1), seq[n])
  <2>1. n - 1 \in 0 .. Len(seq) /\ n \in 0 .. Len(seq) /\ n \in Nat /\ n - 1 \in Nat
    BY <1>1
  <2> DEFINE p == Prefix(seq, n - 1)
  <2>2. p \in Seq(S) /\ Len(p) = n - 1
    BY <1>2, <2>1
  <2>3. Append(p, seq[n]) \in Seq(S) /\ Len(Append(p, seq[n])) = n
        /\ \A i \in 1 .. n - 1 : Append(p, seq[n])[i] = p[i]
        /\ Append(p, seq[n])[n] = seq[n]
    BY <1>1, <2>1, <2>2, AppendProperties
  <2>4. \A i \in 1 .. n : Append(p, seq[n])[i] = Prefix(seq, n)[i]
    BY <2>1, <2>3 DEF Prefix
  <2> HIDE DEF p
  <2>5. Append(p, seq[n]) = Prefix(seq, n)
    BY <1>2, <2>1, <2>3, <2>4, SeqEqual
  <2> QED
    BY <2>5 DEF p
<1> QED
  BY <1>1, <1>2, <1>3 DEF Prefix

-----------------------------------------------------------------------------
(* Lots and chunks, and what a sale does to them.                          *)

Lots     == [buy : Nat, price : Nat, left : Nat \ {0}]
Chunks   == [buy : Nat, sell : Nat, quantity : Nat \ {0}, buy_price : Nat, sell_price : Nat]
Matching == [left : Nat, queue : Seq(Lots), chunks : Seq(Chunks)]
FifoState   == [queue : Seq(Lots), chunks : Seq(Chunks), unmatched : Nat]

TradeRow == [symbol : Symbols, trade_type : TradeTypes, quantity : Nat \ {0},
             price : Nat \ {0}, created_at : Nat]

\* The shares sold in chunks.
SoldQuantity(chunks) == Total([i \in DOMAIN chunks |-> chunks[i].quantity])

\* A lot more in the sums over the open lots.
LEMMA QueueSums ==
  ASSUME NEW q \in Seq(Lots), NEW lot \in Lots
  PROVE  /\ OpenQuantity(<<>>) = 0 /\ OpenCost(<<>>) = 0
         /\ OpenQuantity(q) \in Nat /\ OpenCost(q) \in Nat
         /\ OpenQuantity(Append(q, lot)) = OpenQuantity(q) + lot.left
         /\ OpenCost(Append(q, lot)) = OpenCost(q) + lot.left * lot.price
<1> DEFINE left == [l \in Lots |-> l.left]
           cost == [l \in Lots |-> l.left * l.price]
<1>1. left \in [Lots -> Nat] /\ left[lot] = lot.left
  BY DEF Lots
<1>2. cost \in [Lots -> Nat] /\ cost[lot] = lot.left * lot.price
  BY DEF Lots
<1>3. ASSUME NEW s \in Seq(Lots)
      PROVE  OpenQuantity(s) = Summed(left, s) /\ OpenCost(s) = Summed(cost, s)
  <2>1. \A i \in DOMAIN s : s[i] \in Lots
    BY LenProperties, ElementOfSeq
  <2>2. [i \in DOMAIN s |-> left[s[i]]] = [i \in DOMAIN s |-> s[i].left]
    BY <2>1
  <2>3. [i \in DOMAIN s |-> cost[s[i]]] = [i \in DOMAIN s |-> s[i].left * s[i].price]
    BY <2>1
  <2> HIDE DEF left, cost
  <2> QED
    BY <2>2, <2>3 DEF OpenQuantity, OpenCost, Summed
<1>4. <<>> \in Seq(Lots) /\ Append(q, lot) \in Seq(Lots)
  BY AppendProperties
<1> HIDE DEF left, cost
<1>5. /\ Summed(left, <<>>) = 0 /\ Summed(left, q) \in Nat
      /\ Summed(left, Append(q, lot)) = Summed(left, q) + lot.left
  BY <1>1, SummedAppend
<1>6. /\ Summed(cost, <<>>) = 0 /\ Summed(cost, q) \in Nat
      /\ Summed(cost, Append(q, lot)) = Summed(cost, q) + lot.left * lot.price
  BY <1>2, SummedAppend
<1> QED
  BY <1>3, <1>4, <1>5, <1>6

\* A chunk more in the sums over the chunks.
LEMMA ChunkSums ==
  ASSUME NEW q \in Seq(Chunks), NEW c \in Chunks
  PROVE  /\ SoldQuantity(<<>>) = 0 /\ BuyCost(<<>>) = 0 /\ SellValue(<<>>) = 0
         /\ SoldQuantity(q) \in Nat /\ BuyCost(q) \in Nat /\ SellValue(q) \in Nat
         /\ SoldQuantity(Append(q, c)) = SoldQuantity(q) + c.quantity
         /\ BuyCost(Append(q, c)) = BuyCost(q) + c.quantity * c.buy_price
         /\ SellValue(Append(q, c)) = SellValue(q) + c.quantity * c.sell_price
<1> DEFINE sold  == [l \in Chunks |-> l.quantity]
           cost  == [l \in Chunks |-> l.quantity * l.buy_price]
           value == [l \in Chunks |-> l.quantity * l.sell_price]
<1>1. sold \in [Chunks -> Nat] /\ sold[c] = c.quantity
  BY DEF Chunks
<1>2. cost \in [Chunks -> Nat] /\ cost[c] = c.quantity * c.buy_price
  BY DEF Chunks
<1>3. value \in [Chunks -> Nat] /\ value[c] = c.quantity * c.sell_price
  BY DEF Chunks
<1>4. ASSUME NEW s \in Seq(Chunks)
      PROVE  /\ SoldQuantity(s) = Summed(sold, s)
             /\ BuyCost(s) = Summed(cost, s) /\ SellValue(s) = Summed(value, s)
  <2>1. \A i \in DOMAIN s : s[i] \in Chunks
    BY LenProperties, ElementOfSeq
  <2>2. [i \in DOMAIN s |-> sold[s[i]]] = [i \in DOMAIN s |-> s[i].quantity]
    BY <2>1
  <2>3. [i \in DOMAIN s |-> cost[s[i]]] = [i \in DOMAIN s |-> s[i].quantity * s[i].buy_price]
    BY <2>1
  <2>4. [i \in DOMAIN s |-> value[s[i]]] = [i \in DOMAIN s |-> s[i].quantity * s[i].sell_price]
    BY <2>1
  <2> HIDE DEF sold, cost, value
  <2> QED
    BY <2>2, <2>3, <2>4 DEF SoldQuantity, BuyCost, SellValue, Summed
<1>5. <<>> \in Seq(Chunks) /\ Append(q, c) \in Seq(Chunks)
  BY AppendProperties
<1> HIDE DEF sold, cost, value
<1>6. /\ Summed(sold, <<>>) = 0 /\ Summed(sold, q) \in Nat
      /\ Summed(sold, Append(q, c)) = Summed(sold, q) + c.quantity
  BY <1>1, SummedAppend
<1>7. /\ Summed(cost, <<>>) = 0 /\ Summed(cost, q) \in Nat
      /\ Summed(cost, Append(q, c)) = Summed(cost, q) + c.quantity * c.buy_price
  BY <1>2, SummedAppend
<1>8. /\ Summed(value, <<>>) = 0 /\ Summed(value, q) \in Nat
      /\ Summed(value, Append(q, c)) = Summed(value, q) + c.quantity * c.sell_price
  BY <1>3, SummedAppend
<1> QED
  BY <1>4, <1>5, <1>6, <1>7, <1>8

\* What one lot gives to the sale t: shares, cost and value move from the lot and
\* the sale to the chunks, and a lot stays only when nothing is left to sell.
LEMMA MatchLotFacts ==
  ASSUME NEW acc \in Matching, NEW lot \in Lots, NEW t \in TradeRow
  PROVE  LET r == MatchLot(acc, lot, t)
         IN  /\ r \in Matching
             /\ r.left + SoldQuantity(r.chunks) = acc.left + SoldQuantity(acc.chunks)
             /\ OpenQuantity(r.queue) + SoldQuantity(r.chunks)
                  = OpenQuantity(acc.queue) + SoldQuantity(acc.chunks) + lot.left
             /\ OpenCost(r.queue) + BuyCost(r.chunks)
                  = OpenCost(acc.queue) + BuyCost(acc.chunks) + lot.left * lot.price
             /\ SellValue(r.chunks) + r.left * t.price
                  = SellValue(acc.chunks) + acc.left * t.price
             /\ (acc.left > 0 => acc.queue = <<>>) => (r.left > 0 => r.queue = <<>>)
<1> DEFINE m    == Smaller(acc.left, lot.left)
           rest == [lot EXCEPT !.left = @ - m]
           c    == Chunk(lot, t, m)
           r    == MatchLot(acc, lot, t)
<1>1. /\ acc.left \in Nat /\ acc.queue \in Seq(Lots) /\ acc.chunks \in Seq(Chunks)
      /\ lot.left \in Nat \ {0} /\ lot.price \in Nat /\ lot.buy \in Nat
      /\ t.price \in Nat /\ t.created_at \in Nat
  BY DEF Matching, Lots, TradeRow
<1>2. m \in Nat /\ m <= acc.left /\ m <= lot.left /\ (m = acc.left \/ m = lot.left)
  BY <1>1 DEF Smaller
<1>3. /\ r.left = acc.left - m
      /\ r.queue = IF m = lot.left THEN acc.queue ELSE Append(acc.queue, rest)
      /\ r.chunks = IF m = 0 THEN acc.chunks ELSE Append(acc.chunks, c)
      /\ r = [left |-> r.left, queue |-> r.queue, chunks |-> r.chunks]
  BY DEF MatchLot
<1>4. /\ m # lot.left => rest \in Lots
      /\ rest.left = lot.left - m /\ rest.price = lot.price
  <2>1. rest = [buy |-> lot.buy, price |-> lot.price, left |-> lot.left - m]
    BY DEF Lots
  <2>2. m # lot.left => lot.left - m \in Nat \ {0}
    BY <1>1, <1>2
  <2> HIDE DEF rest
  <2> QED
    BY <1>1, <2>1, <2>2 DEF Lots
<1>5. /\ m # 0 => c \in Chunks
      /\ c.quantity = m /\ c.buy_price = lot.price /\ c.sell_price = t.price
  BY <1>1, <1>2 DEF Chunks, Chunk
<1> HIDE DEF m, rest, c, r
<1>6. /\ m # lot.left => r.queue \in Seq(Lots)
      /\ m # 0 => r.chunks \in Seq(Chunks)
  BY <1>1, <1>3, <1>4, <1>5, AppendProperties
<1>7. r \in Matching
  <2>1. r.left \in Nat
    BY <1>1, <1>2, <1>3
  <2>2. r.queue \in Seq(Lots)
    BY <1>1, <1>3, <1>6
  <2>3. r.chunks \in Seq(Chunks)
    BY <1>1, <1>3, <1>6
  <2> QED
    BY <1>3, <2>1, <2>2, <2>3 DEF Matching
<1>8. /\ OpenQuantity(r.queue) = OpenQuantity(acc.queue) + (lot.left - m)
      /\ OpenCost(r.queue) = OpenCost(acc.queue) + (lot.left - m) * lot.price
      /\ OpenQuantity(acc.queue) \in Nat /\ OpenCost(acc.queue) \in Nat
  <2>1. OpenQuantity(acc.queue) \in Nat /\ OpenCost(acc.queue) \in Nat
    <3>1. PICK l \in Lots : TRUE
      OBVIOUS
    <3> QED
      BY <1>1, QueueSums
  <2>2. CASE m = lot.left
    <3>1. (lot.left - m) * lot.price = 0 /\ lot.left - m = 0
      BY <1>1, <2>2
    <3> HIDE DEF Lots
    <3> QED
      BY <1>3, <2>1, <2>2, <3>1
  <2>3. CASE m # lot.left
    BY <1>1, <1>3, <1>4, <2>3, QueueSums
  <2> QED
    BY <2>2, <2>3
<1>9. /\ SoldQuantity(r.chunks) = SoldQuantity(acc.chunks) + m
      /\ BuyCost(r.chunks) = BuyCost(acc.chunks) + m * lot.price
      /\ SellValue(r.chunks) = SellValue(acc.chunks) + m * t.price
      /\ SoldQuantity(acc.chunks) \in Nat /\ BuyCost(acc.chunks) \in Nat
      /\ SellValue(acc.chunks) \in Nat
  <2>1. SoldQuantity(acc.chunks) \in Nat /\ BuyCost(acc.chunks) \in Nat
        /\ SellValue(acc.chunks) \in Nat
    <3>1. PICK x \in Chunks : TRUE
      <4>1. [buy |-> 0, sell |-> 0, quantity |-> 1, buy_price |-> 0, sell_price |-> 0] \in Chunks
        BY DEF Chunks
      <4> QED
        BY <4>1
    <3> QED
      BY <1>1, ChunkSums
  <2>2. CASE m = 0
    <3>1. m * lot.price = 0 /\ m * t.price = 0
      BY <1>1, <2>2
    <3> QED
      BY <1>3, <2>1, <2>2, <3>1
  <2>3. CASE m # 0
    BY <1>1, <1>3, <1>5, <2>3, ChunkSums
  <2> QED
    BY <2>2, <2>3
<1>10. /\ (lot.left - m) * lot.price + m * lot.price = lot.left * lot.price
       /\ (acc.left - m) * t.price + m * t.price = acc.left * t.price
       /\ (lot.left - m) * lot.price \in Int /\ m * lot.price \in Int
       /\ lot.left * lot.price \in Int /\ m * t.price \in Int
       /\ acc.left * t.price \in Int /\ (acc.left - m) * t.price \in Int
  <2>1. \A a, b \in Nat, k \in Nat : b <= a =>
          /\ (a - b) * k + b * k = a * k
          /\ (a - b) * k \in Int /\ b * k \in Int /\ a * k \in Int
    OBVIOUS
  <2> QED
    BY <1>1, <1>2, <2>1
<1>11. (acc.left > 0 => acc.queue = <<>>) => (r.left > 0 => r.queue = <<>>)
  BY <1>1, <1>2, <1>3
<1>12. r.left = acc.left - m
  BY <1>3
<1>13. OpenCost(r.queue) + BuyCost(r.chunks)
         = OpenCost(acc.queue) + BuyCost(acc.chunks) + lot.left * lot.price
  BY <1>8, <1>9, <1>10
<1>14. SellValue(r.chunks) + r.left * t.price = SellValue(acc.chunks) + acc.left * t.price
  BY <1>9, <1>10, <1>12
<1>15. /\ r.left + SoldQuantity(r.chunks) = acc.left + SoldQuantity(acc.chunks)
       /\ OpenQuantity(r.queue) + SoldQuantity(r.chunks)
            = OpenQuantity(acc.queue) + SoldQuantity(acc.chunks) + lot.left
  <2>1. /\ OpenQuantity(r.queue) = OpenQuantity(acc.queue) + (lot.left - m)
        /\ OpenQuantity(acc.queue) \in Nat
    BY <1>8
  <2>2. SoldQuantity(r.chunks) = SoldQuantity(acc.chunks) + m /\ SoldQuantity(acc.chunks) \in Nat
    BY <1>9
  <2> QED
    <3>1. \A a, b, c0, d, e \in Int :
            (a - b) + (c0 + b) = a + c0 /\ (d + (e - b)) + (c0 + b) = d + c0 + e
      OBVIOUS
    <3>2. acc.left \in Int /\ m \in Int /\ lot.left \in Int
      BY <1>1, <1>2
    <3>3. (acc.left - m) + (SoldQuantity(acc.chunks) + m) = acc.left + SoldQuantity(acc.chunks)
      BY <2>2, <3>1, <3>2
    <3>4. (OpenQuantity(acc.queue) + (lot.left - m)) + (SoldQuantity(acc.chunks) + m)
            = OpenQuantity(acc.queue) + SoldQuantity(acc.chunks) + lot.left
      BY <2>1, <2>2, <3>1, <3>2
    <3> QED
      BY <1>12, <2>1, <2>2, <3>3, <3>4, Zenon
<1> QED
  BY <1>7, <1>11, <1>13, <1>14, <1>15 DEF r

\* What is left to sell, the lots and the chunks after each lot q of the queue.
SaleRun(g, state, q, t) ==
  /\ g \in [0 .. Len(q) -> Matching]
  /\ g[0] = [left |-> t.quantity, queue |-> <<>>, chunks |-> state.chunks]
  /\ \A n \in 1 .. Len(q) : g[n] = MatchLot(g[n - 1], q[n], t)

\* MatchSale is what they are in the end.
LEMMA MatchSaleRuns ==
  ASSUME NEW state \in FifoState, NEW t \in TradeRow,
         NEW q \in Seq(Lots), q = state.queue
  PROVE  \E g : SaleRun(g, state, q, t) /\ MatchSale(state, t) = g[Len(q)]
<1> DEFINE N       == Len(q)
           F(a, e) == MatchLot(a, e, t)
           start   == [left |-> t.quantity, queue |-> <<>>, chunks |-> state.chunks]
           G       == [x \in Matching \X Lots |-> F(x[1], x[2])]
           after[n \in 0 .. Len(q)] == IF n = 0 THEN start ELSE F(after[n - 1], q[n])
<1>1. N \in Nat /\ \A n \in 1 .. N : n \in 0 .. N /\ n - 1 \in 0 .. N /\ q[n] \in Lots
  BY LenProperties, ElementOfSeq
<1>2. MatchSale(state, t) = after[N]
  BY DEF MatchSale, Through
<1>3. \A a \in Matching, e \in Lots : F(a, e) \in Matching
  BY MatchLotFacts DEF FifoState, Matching, TradeRow
<1>4. start \in Matching
  BY MatchLotFacts DEF FifoState, Matching, TradeRow
<1>0. ASSUME NEW g \in [0 .. N -> Matching], g[0] = start,
             \A n \in 1 .. N : g[n] = F(g[n - 1], q[n]), after[N] = g[N]
      PROVE  SaleRun(g, state, q, t) /\ MatchSale(state, t) = g[Len(q)]
  BY <1>0, <1>2 DEF SaleRun
<1> HIDE DEF F, start
<1>5. G \in [Matching \X Lots -> Matching]
  BY <1>3
<1>6. PICK g : IsRun(g, Matching, start, G, q)
  <2> HIDE DEF G
  <2> QED
    BY <1>4, <1>5, Recursion
<1>7. \A n \in 1 .. N : g[n] = F(g[n - 1], q[n])
  BY <1>1, <1>6 DEF IsRun
<1>8. g = [n \in 0 .. Len(q) |-> IF n = 0 THEN start ELSE F(g[n - 1], q[n])]
  <2>1. \A n \in 0 .. Len(q) : g[n] = IF n = 0 THEN start ELSE F(g[n - 1], q[n])
    BY <1>1, <1>6, <1>7 DEF IsRun
  <2>2. g = [n \in 0 .. Len(q) |-> g[n]]
    BY <1>6 DEF IsRun
  <2> HIDE DEF N
  <2> QED
    BY <2>1, <2>2, Zenon
<1>9. after = CHOOSE h : h = [n \in 0 .. Len(q) |->
                 IF n = 0 THEN start ELSE F(h[n - 1], q[n])]
  OBVIOUS
<1>10. after = [n \in 0 .. Len(q) |-> IF n = 0 THEN start ELSE F(after[n - 1], q[n])]
  BY <1>8, <1>9, Zenon
<1> HIDE DEF after, G
<1> DEFINE P == {n \in 0 .. N : after[n] = g[n]}
<1>11. 0 \in P
  BY <1>1, <1>6, <1>10 DEF IsRun
<1>12. ASSUME NEW n \in 1 .. N, n - 1 \in P PROVE n \in P
  <2>1. after[n] = F(after[n - 1], q[n])
    BY <1>1, <1>10
  <2> QED
    BY <1>1, <1>7, <1>12, <2>1
<1>13. after[N] = g[N]
  <2> HIDE DEF P
  <2>1. \A n \in 0 .. N : n \in P
    BY <1>1, <1>11, <1>12, Upwards
  <2>2. N \in P
    BY <1>1, <2>1
  <2> QED
    BY <2>2 DEF P
<1>14. g \in [0 .. N -> Matching] /\ g[0] = start
  BY <1>6 DEF IsRun
<1> QED
  BY <1>0, <1>7, <1>13, <1>14


\* A sale of no more shares than the lots have: it takes that many from them, and
\* their cost and its value go to the chunks.
LEMMA MatchSaleSums ==
  ASSUME NEW state \in FifoState, NEW t \in TradeRow, t.quantity <= OpenQuantity(state.queue)
  PROVE  LET r == MatchSale(state, t)
         IN  /\ r \in Matching /\ r.left = 0
             /\ OpenQuantity(r.queue) = OpenQuantity(state.queue) - t.quantity
             /\ OpenCost(r.queue) + BuyCost(r.chunks)
                  = OpenCost(state.queue) + BuyCost(state.chunks)
             /\ SellValue(r.chunks) = SellValue(state.chunks) + t.quantity * t.price
<1> DEFINE q == state.queue
           N == Len(q)
           k == state.chunks
<1>1. /\ q \in Seq(Lots) /\ N \in Nat /\ k \in Seq(Chunks)
      /\ t.quantity \in Nat /\ t.price \in Nat
  BY LenProperties DEF FifoState, TradeRow
<1>2. PICK g : SaleRun(g, state, q, t) /\ MatchSale(state, t) = g[N]
  BY <1>1, MatchSaleRuns
<1>3. /\ \A n \in 0 .. N : g[n] \in Matching
      /\ g[0] = [left |-> t.quantity, queue |-> <<>>, chunks |-> k]
      /\ \A n \in 1 .. N : g[n] = MatchLot(g[n - 1], q[n], t)
  BY <1>2 DEF SaleRun
<1>4. /\ \A n \in 1 .. N : q[n] \in Lots
      /\ Prefix(q, 0) = <<>> /\ Prefix(q, N) = q
      /\ \A n \in 0 .. N : Prefix(q, n) \in Seq(Lots)
      /\ \A n \in 1 .. N : Prefix(q, n) = Append(Prefix(q, n - 1), q[n])
  <2> HIDE DEF q
  <2> QED
    BY <1>1, PrefixGrows
<1>5. /\ SoldQuantity(k) \in Nat /\ BuyCost(k) \in Nat /\ SellValue(k) \in Nat
      /\ OpenQuantity(<<>>) = 0 /\ OpenCost(<<>>) = 0
  <2>1. [buy |-> 0, sell |-> 0, quantity |-> 1, buy_price |-> 0, sell_price |-> 0] \in Chunks
    BY DEF Chunks
  <2>2. [buy |-> 0, price |-> 0, left |-> 1] \in Lots
    BY DEF Lots
  <2>3. <<>> \in Seq(Lots)
    OBVIOUS
  <2> QED
    BY <1>1, <2>1, <2>2, <2>3, ChunkSums, QueueSums
<1> HIDE DEF q, k, N
<1> DEFINE Sums(n) ==
             /\ g[n].left + SoldQuantity(g[n].chunks) = t.quantity + SoldQuantity(k)
             /\ OpenQuantity(g[n].queue) + SoldQuantity(g[n].chunks)
                  = SoldQuantity(k) + OpenQuantity(Prefix(q, n))
             /\ OpenCost(g[n].queue) + BuyCost(g[n].chunks)
                  = BuyCost(k) + OpenCost(Prefix(q, n))
             /\ SellValue(g[n].chunks) + g[n].left * t.price
                  = SellValue(k) + t.quantity * t.price
             /\ g[n].left > 0 => g[n].queue = <<>>
           P == {n \in 0 .. N : Sums(n)}
<1>6. Sums(0)
  BY <1>1, <1>3, <1>4, <1>5
<1>7. ASSUME NEW n \in 1 .. N, Sums(n - 1) PROVE Sums(n)
  <2>1. n - 1 \in 0 .. N /\ n \in 0 .. N
    BY <1>1 DEF N
  <2> DEFINE a == g[n - 1]
             lot == q[n]
             p == Prefix(q, n - 1)
  <2>2. a \in Matching /\ lot \in Lots /\ p \in Seq(Lots) /\ g[n] \in Matching
    BY <1>3, <1>4, <2>1
  <2>3. g[n] = MatchLot(a, lot, t) /\ Prefix(q, n) = Append(p, lot)
    BY <1>3, <1>4
  <2>4. /\ OpenQuantity(p) \in Nat /\ OpenCost(p) \in Nat
        /\ OpenQuantity(Prefix(q, n)) = OpenQuantity(p) + lot.left
        /\ OpenCost(Prefix(q, n)) = OpenCost(p) + lot.left * lot.price
    BY <2>2, <2>3, QueueSums
  <2>5. /\ lot.left \in Nat /\ lot.left * lot.price \in Nat
        /\ a.left \in Nat /\ a.queue \in Seq(Lots) /\ a.chunks \in Seq(Chunks)
    <3> HIDE DEF a, lot
    <3>1. lot.left \in Nat /\ lot.price \in Nat
      BY <2>2 DEF Lots
    <3>2. a.left \in Nat /\ a.queue \in Seq(Lots) /\ a.chunks \in Seq(Chunks)
      BY <2>2 DEF Matching
    <3>3. \A i, j \in Nat : i * j \in Nat
      OBVIOUS
    <3> QED
      BY <3>1, <3>2, <3>3
  <2>6. /\ g[n].left + SoldQuantity(g[n].chunks) = a.left + SoldQuantity(a.chunks)
        /\ OpenQuantity(g[n].queue) + SoldQuantity(g[n].chunks)
             = OpenQuantity(a.queue) + SoldQuantity(a.chunks) + lot.left
        /\ OpenCost(g[n].queue) + BuyCost(g[n].chunks)
             = OpenCost(a.queue) + BuyCost(a.chunks) + lot.left * lot.price
        /\ SellValue(g[n].chunks) + g[n].left * t.price = SellValue(a.chunks) + a.left * t.price
        /\ (a.left > 0 => a.queue = <<>>) => (g[n].left > 0 => g[n].queue = <<>>)
    BY <2>2, <2>3, MatchLotFacts
  <2>7. /\ a.left + SoldQuantity(a.chunks) = t.quantity + SoldQuantity(k)
        /\ OpenQuantity(a.queue) + SoldQuantity(a.chunks) = SoldQuantity(k) + OpenQuantity(p)
        /\ OpenCost(a.queue) + BuyCost(a.chunks) = BuyCost(k) + OpenCost(p)
        /\ SellValue(a.chunks) + a.left * t.price = SellValue(k) + t.quantity * t.price
        /\ a.left > 0 => a.queue = <<>>
    BY <1>7
  <2> HIDE DEF a, lot, p
  <2>8. /\ SoldQuantity(k) + OpenQuantity(p) + lot.left
             = SoldQuantity(k) + OpenQuantity(Prefix(q, n))
        /\ BuyCost(k) + OpenCost(p) + lot.left * lot.price
             = BuyCost(k) + OpenCost(Prefix(q, n))
    <3>1. \A i, j, l \in Nat : i + j + l = i + (j + l)
      OBVIOUS
    <3> QED
      BY <1>5, <2>4, <2>5, <3>1
  <2>9. /\ OpenQuantity(g[n].queue) + SoldQuantity(g[n].chunks)
             = SoldQuantity(k) + OpenQuantity(Prefix(q, n))
        /\ OpenCost(g[n].queue) + BuyCost(g[n].chunks)
             = BuyCost(k) + OpenCost(Prefix(q, n))
    BY <2>6, <2>7, <2>8, Zenon
  <2> QED
    BY <2>6, <2>7, <2>9, Zenon
<1>8. Sums(N)
  <2>1. 0 \in P
    BY <1>1, <1>6 DEF N
  <2>2. \A n \in 1 .. N : n - 1 \in P => n \in P
    <3> SUFFICES ASSUME NEW n \in 1 .. N, n - 1 \in P PROVE n \in P
      OBVIOUS
    <3>1. Sums(n - 1)
      OBVIOUS
    <3> HIDE DEF Sums
    <3>2. Sums(n)
      BY <1>7, <3>1
    <3> QED
      BY <1>1, <3>2 DEF N
  <2> HIDE DEF P
  <2>3. N \in Nat
    BY <1>1 DEF N
  <2>4. \A n \in 0 .. N : n \in P
    BY <2>1, <2>2, <2>3, Upwards
  <2>5. N \in P
    BY <2>3, <2>4
  <2> QED
    BY <2>5 DEF P
<1> DEFINE r == MatchSale(state, t)
<1>9. r = g[N] /\ r \in Matching
  <2>1. N \in 0 .. N
    BY <1>1 DEF N
  <2> QED
    BY <1>2, <1>3, <2>1
<1>10. /\ r.left + SoldQuantity(r.chunks) = t.quantity + SoldQuantity(k)
       /\ OpenQuantity(r.queue) + SoldQuantity(r.chunks) = SoldQuantity(k) + OpenQuantity(q)
       /\ r.left > 0 => r.queue = <<>>
  BY <1>4, <1>8, <1>9
<1>17. /\ OpenCost(r.queue) + BuyCost(r.chunks) = BuyCost(k) + OpenCost(q)
       /\ SellValue(r.chunks) + r.left * t.price = SellValue(k) + t.quantity * t.price
  BY <1>4, <1>8, <1>9
<1> HIDE DEF r
<1>11. /\ r.left \in Nat /\ r.queue \in Seq(Lots) /\ r.chunks \in Seq(Chunks)
       /\ OpenQuantity(r.queue) \in Nat /\ OpenCost(r.queue) \in Nat
       /\ OpenQuantity(q) \in Nat /\ OpenCost(q) \in Nat
       /\ SoldQuantity(r.chunks) \in Nat /\ BuyCost(r.chunks) \in Nat
       /\ SellValue(r.chunks) \in Nat
  <2>1. [buy |-> 0, sell |-> 0, quantity |-> 1, buy_price |-> 0, sell_price |-> 0] \in Chunks
    BY DEF Chunks
  <2>2. [buy |-> 0, price |-> 0, left |-> 1] \in Lots
    BY DEF Lots
  <2>3. r.left \in Nat /\ r.queue \in Seq(Lots) /\ r.chunks \in Seq(Chunks)
    BY <1>9 DEF Matching
  <2>4. q \in Seq(Lots)
    BY <1>1 DEF q
  <2> QED
    BY <2>1, <2>2, <2>3, <2>4, ChunkSums, QueueSums
<1>12. t.quantity \in Nat /\ t.quantity <= OpenQuantity(q)
  BY <1>1 DEF q
<1> DEFINE l == r.left
           a == SoldQuantity(r.chunks)
           b == SoldQuantity(k)
           o == OpenQuantity(r.queue)
           e == OpenQuantity(q)
           n == t.quantity
<1>18. /\ l \in Nat /\ a \in Nat /\ b \in Nat /\ o \in Nat /\ e \in Nat /\ n \in Nat
       /\ l + a = n + b /\ o + a = b + e /\ n <= e
  BY <1>5, <1>10, <1>11, <1>12
<1>19. l > 0 => o = 0
  BY <1>5, <1>10
<1>20. l = 0 /\ o = e - n
  <2> HIDE DEF l, a, b, o, e, n
  <2> QED
    BY <1>18, <1>19
<1>13. r.left = 0 /\ OpenQuantity(r.queue) = OpenQuantity(q) - t.quantity
  BY <1>20
<1>15. SellValue(r.chunks) = SellValue(k) + t.quantity * t.price
  <2>1. r.left * t.price = 0
    BY <1>1, <1>13
  <2> QED
    BY <1>5, <1>11, <1>17, <2>1
<1>16. OpenCost(r.queue) + BuyCost(r.chunks) = OpenCost(q) + BuyCost(k)
  BY <1>5, <1>11, <1>17
<1> QED
  BY <1>9, <1>13, <1>15, <1>16 DEF r, q, k

\* A sale leaves lots and chunks.
LEMMA MatchSaleType ==
  ASSUME NEW state \in FifoState, NEW t \in TradeRow
  PROVE  MatchSale(state, t) \in Matching
<1> DEFINE q == state.queue
<1>1. q \in Seq(Lots) /\ Len(q) \in 0 .. Len(q)
  BY LenProperties DEF FifoState
<1>2. PICK g : SaleRun(g, state, q, t) /\ MatchSale(state, t) = g[Len(q)]
  BY <1>1, MatchSaleRuns
<1> QED
  BY <1>1, <1>2 DEF SaleRun

\* A trade leaves lots and chunks.
LEMMA ProcessTradeType ==
  ASSUME NEW state \in FifoState, NEW t \in TradeRow
  PROVE  ProcessTrade(state, t) \in FifoState
<1> DEFINE m == MatchSale(state, t)
<1>1. m \in Matching
  BY MatchSaleType
<1>2. Lot(t) \in Lots
  BY DEF Lot, Lots, TradeRow
<1>3. /\ state.queue \in Seq(Lots) /\ state.chunks \in Seq(Chunks) /\ state.unmatched \in Nat
      /\ state = [queue |-> state.queue, chunks |-> state.chunks, unmatched |-> state.unmatched]
  BY DEF FifoState
<1> HIDE DEF m
<1>4. CASE t.trade_type = "BUY"
  <2>1. ProcessTrade(state, t) = [queue |-> Append(state.queue, Lot(t)), chunks |-> state.chunks,
                                  unmatched |-> state.unmatched]
    BY <1>3, <1>4 DEF ProcessTrade
  <2>2. Append(state.queue, Lot(t)) \in Seq(Lots)
    BY <1>2, <1>3, AppendProperties
  <2> QED
    BY <1>3, <2>1, <2>2 DEF FifoState
<1>5. CASE t.trade_type # "BUY"
  <2>1. ProcessTrade(state, t) = [queue |-> m.queue, chunks |-> m.chunks,
                                  unmatched |-> state.unmatched + m.left]
    BY <1>5 DEF ProcessTrade, m
  <2>2. m.queue \in Seq(Lots) /\ m.chunks \in Seq(Chunks) /\ m.left \in Nat
    BY <1>1 DEF Matching
  <2> QED
    BY <1>3, <2>1, <2>2 DEF FifoState
<1> QED
  BY <1>4, <1>5

\* The lots and the chunks after each trade of log.
TradesRun(g, log) ==
  /\ g \in [0 .. Len(log) -> FifoState]
  /\ g[0] = [queue |-> <<>>, chunks |-> <<>>, unmatched |-> 0]
  /\ \A n \in 1 .. Len(log) : g[n] = ProcessTrade(g[n - 1], log[n])

\* ProcessSymbolTrades is what they are in the end.
LEMMA TradesRuns ==
  ASSUME NEW log \in Seq(TradeRow)
  PROVE  \E g : TradesRun(g, log) /\ ProcessSymbolTrades(log) = g[Len(log)]
<1> DEFINE N       == Len(log)
           F(a, e) == ProcessTrade(a, e)
           start   == [queue |-> <<>>, chunks |-> <<>>, unmatched |-> 0]
           G       == [x \in FifoState \X TradeRow |-> F(x[1], x[2])]
           after[n \in 0 .. Len(log)] == IF n = 0 THEN start ELSE F(after[n - 1], log[n])
<1>1. N \in Nat /\ \A n \in 1 .. N : n \in 0 .. N /\ n - 1 \in 0 .. N /\ log[n] \in TradeRow
  BY LenProperties, ElementOfSeq
<1>2. ProcessSymbolTrades(log) = after[N]
  BY DEF ProcessSymbolTrades, Through
<1>3. \A a \in FifoState, e \in TradeRow : F(a, e) \in FifoState
  BY ProcessTradeType DEF FifoState
<1>4. start \in FifoState
  BY ProcessTradeType DEF FifoState
<1>0. ASSUME NEW g \in [0 .. N -> FifoState], g[0] = start,
             \A n \in 1 .. N : g[n] = F(g[n - 1], log[n]), after[N] = g[N]
      PROVE  TradesRun(g, log) /\ ProcessSymbolTrades(log) = g[Len(log)]
  BY <1>0, <1>2 DEF TradesRun
<1> HIDE DEF F, start
<1>5. G \in [FifoState \X TradeRow -> FifoState]
  BY <1>3
<1>6. PICK g : IsRun(g, FifoState, start, G, log)
  <2> HIDE DEF G
  <2> QED
    BY <1>4, <1>5, Recursion
<1>7. \A n \in 1 .. N : g[n] = F(g[n - 1], log[n])
  BY <1>1, <1>6 DEF IsRun
<1>8. g = [n \in 0 .. Len(log) |-> IF n = 0 THEN start ELSE F(g[n - 1], log[n])]
  <2>1. \A n \in 0 .. Len(log) : g[n] = IF n = 0 THEN start ELSE F(g[n - 1], log[n])
    BY <1>1, <1>6, <1>7 DEF IsRun
  <2>2. g = [n \in 0 .. Len(log) |-> g[n]]
    BY <1>6 DEF IsRun
  <2> HIDE DEF N
  <2> QED
    BY <2>1, <2>2, Zenon
<1>9. after = CHOOSE h : h = [n \in 0 .. Len(log) |->
                 IF n = 0 THEN start ELSE F(h[n - 1], log[n])]
  OBVIOUS
<1>10. after = [n \in 0 .. Len(log) |-> IF n = 0 THEN start ELSE F(after[n - 1], log[n])]
  BY <1>8, <1>9, Zenon
<1> HIDE DEF after, G
<1> DEFINE P == {n \in 0 .. N : after[n] = g[n]}
<1>11. 0 \in P
  BY <1>1, <1>6, <1>10 DEF IsRun
<1>12. ASSUME NEW n \in 1 .. N, n - 1 \in P PROVE n \in P
  <2>1. after[n] = F(after[n - 1], log[n])
    BY <1>1, <1>10
  <2> QED
    BY <1>1, <1>7, <1>12, <2>1
<1>13. after[N] = g[N]
  <2> HIDE DEF P
  <2>1. \A n \in 0 .. N : n \in P
    BY <1>1, <1>11, <1>12, Upwards
  <2>2. N \in P
    BY <1>1, <2>1
  <2> QED
    BY <2>2 DEF P
<1>14. g \in [0 .. N -> FifoState] /\ g[0] = start
  BY <1>6 DEF IsRun
<1> QED
  BY <1>0, <1>7, <1>13, <1>14

\* One trade more is one turn more.
LEMMA TradesAppend ==
  ASSUME NEW log \in Seq(TradeRow), NEW t \in TradeRow
  PROVE  /\ ProcessSymbolTrades(log) \in FifoState
         /\ ProcessSymbolTrades(Append(log, t)) = ProcessTrade(ProcessSymbolTrades(log), t)
<1> DEFINE N       == Len(log)
           l       == Append(log, t)
           F(a, e) == ProcessTrade(a, e)
<1>1. /\ N \in Nat /\ l \in Seq(TradeRow) /\ Len(l) = N + 1 /\ l[N + 1] = t
      /\ \A n \in 1 .. N : l[n] = log[n]
  BY LenProperties, AppendProperties
<1>2. PICK g : TradesRun(g, log) /\ ProcessSymbolTrades(log) = g[N]
  BY TradesRuns
<1> HIDE DEF l
<1>3. PICK h : TradesRun(h, l) /\ ProcessSymbolTrades(l) = h[Len(l)]
  BY <1>1, TradesRuns
<1>4. /\ g[0] = h[0]
      /\ \A n \in 0 .. N : g[n] \in FifoState
      /\ \A n \in 1 .. N : g[n] = F(g[n - 1], log[n])
      /\ \A n \in 1 .. N + 1 : h[n] = F(h[n - 1], l[n])
  BY <1>1, <1>2, <1>3 DEF TradesRun
<1> DEFINE P == {n \in 0 .. N : h[n] = g[n]}
<1> HIDE DEF F, N
<1>5. 0 \in P
  BY <1>1, <1>4
<1>6. \A n \in 1 .. N : n - 1 \in P => n \in P
  BY <1>1, <1>4
<1>7. N \in P
  <2> HIDE DEF P
  <2>1. \A n \in 0 .. N : n \in P
    BY <1>1, <1>5, <1>6, Upwards
  <2> QED
    BY <1>1, <2>1
<1>8. ProcessSymbolTrades(l) = F(g[N], t) /\ g[N] \in FifoState
  <2>1. N + 1 \in 1 .. Len(l) /\ (N + 1) - 1 = N /\ N \in 0 .. N
    BY <1>1
  <2>2. h[N + 1] = F(h[N], l[N + 1])
    BY <1>4, <2>1
  <2> QED
    BY <1>1, <1>2, <1>3, <1>4, <1>7, <2>1, <2>2
<1> QED
  BY <1>2, <1>8 DEF F, l

-----------------------------------------------------------------------------
(* The rows and the log, and the ledger they implement.                    *)

\* The rows, which hold nothing back, and the log, dated by its places.
HistoryTypes ==
  /\ portfolio \in Portfolio /\ portfolio.reserved_balance = 0
  /\ holding \in [Symbols -> Holding]
  /\ \A s \in Symbols : holding[s].quantity \in Nat /\ holding[s].reserved_quantity = 0
  /\ trades \in Seq(TradeRow) /\ Len(trades) <= MaxTrades
  /\ \A i \in DOMAIN trades : trades[i].created_at <= Len(trades)

\* The row Fill appends.
NewTrade(s, t, q, p) ==
  [symbol |-> s, trade_type |-> t, quantity |-> q, price |-> p, created_at |-> Len(trades) + 1]

\* Prices and quantities are positive.
LEMMA PositiveFacts ==
  /\ \A p \in Prices : p \in Nat \ {0}
  /\ \A q \in Quantities : q \in Nat \ {0}
BY PricesAssumption, QuantitiesAssumption

\* Both are types of a new account.
LEMMA HistoryTypesInit == Init => HistoryTypes
<1> SUFFICES ASSUME Init PROVE HistoryTypes
  OBVIOUS
<1>1. portfolio \in Portfolio /\ portfolio.reserved_balance = 0
  BY NumberAssumption DEF Init, FreshPortfolio, Portfolio, Money
<1>2. /\ holding \in [Symbols -> Holding]
      /\ \A s \in Symbols : holding[s].quantity \in Nat /\ holding[s].reserved_quantity = 0
  BY DEF Init, EmptyHolding, Holding
<1>3. trades \in Seq(TradeRow) /\ Len(trades) <= MaxTrades /\ DOMAIN trades = {}
  BY NumberAssumption DEF Init
<1> QED
  BY <1>1, <1>2, <1>3 DEF HistoryTypes

\* What a fill does to the rows and the log.
LEMMA FillFacts ==
  ASSUME HistoryTypes, NEW s \in Symbols, NEW t \in TradeTypes, NEW q \in Quantities,
         NEW p \in Prices, Fill(s, t, q, p)
  PROVE  /\ Len(trades) < MaxTrades /\ Len(trades) \in Nat
         /\ NewTrade(s, t, q, p) \in TradeRow
         /\ trades' = Append(trades, NewTrade(s, t, q, p))
         /\ portfolio' \in Portfolio /\ portfolio'.reserved_balance = 0
         /\ p * q \in Nat
         /\ portfolio'.available_balance
              = portfolio.available_balance + (IF t = "BUY" THEN -(p * q) ELSE p * q)
         /\ holding' \in [Symbols -> Holding]
         /\ holding'[s].quantity = holding[s].quantity + (IF t = "BUY" THEN q ELSE -q)
         /\ t = "SELL" => q <= holding[s].quantity
         /\ t = "BUY" => p * q <= portfolio.available_balance
         /\ holding'[s].reserved_quantity = 0
         /\ \A r \in Symbols \ {s} : holding'[r] = holding[r]
<1>1. /\ portfolio \in Portfolio /\ portfolio.reserved_balance = 0
      /\ holding \in [Symbols -> Holding] /\ holding[s] \in Holding
      /\ holding[s].quantity \in Nat /\ holding[s].reserved_quantity = 0
      /\ trades \in Seq(TradeRow) /\ Len(trades) \in Nat
  BY LenProperties DEF HistoryTypes
<1>2. q \in Nat \ {0} /\ p \in Nat \ {0} /\ q \in Nat /\ p \in Nat /\ p * q \in Nat
  BY PositiveFacts, LedgerAssumptions, Books!ProductNat
<1>3. NewTrade(s, t, q, p) \in TradeRow
  BY <1>1, <1>2 DEF NewTrade, TradeRow
<1> DEFINE r == FillPortfolio(portfolio, holding[s], t, q, p)
           k == FillHolding(holding[s], t, q, p)
<1>4. /\ Len(trades) < MaxTrades /\ CanFill(portfolio, holding[s], t, q, p)
      /\ portfolio' = r /\ holding' = [holding EXCEPT ![s] = k]
      /\ trades' = Append(trades, NewTrade(s, t, q, p))
  BY <1>1 DEF Fill, NewTrade
<1>5. /\ r \in Portfolio /\ r.reserved_balance = portfolio.reserved_balance
      /\ r.available_balance
           = portfolio.available_balance + (IF t = "BUY" THEN -(p * q) ELSE p * q)
  <2>1. portfolio \in Books!Portfolio /\ holding[s] \in Books!Holding /\ t \in Books!TradeTypes
    BY <1>1 DEF Portfolio, Books!Portfolio, Holding, Books!Holding, Books!Money, Money,
                TradeTypes, Books!TradeTypes
  <2>2. /\ Books!FillPortfolio(portfolio, holding[s], t, q, p) \in Books!Portfolio
        /\ Books!FillPortfolio(portfolio, holding[s], t, q, p).reserved_balance
             = portfolio.reserved_balance
        /\ Books!FillPortfolio(portfolio, holding[s], t, q, p).available_balance
             = portfolio.available_balance + (IF t = "BUY" THEN -(p * q) ELSE p * q)
    BY <1>2, <2>1, LedgerAssumptions, Books!FillPortfolioFacts
  <2>3. r = Books!FillPortfolio(portfolio, holding[s], t, q, p)
    BY DEF FillPortfolio, Books!FillPortfolio
  <2>4. Portfolio = Books!Portfolio
    BY DEF Portfolio, Books!Portfolio, Money, Books!Money
  <2> HIDE DEF r
  <2> QED
    BY <2>2, <2>3, <2>4
<1>6. /\ k \in Holding /\ k.reserved_quantity = holding[s].reserved_quantity
      /\ k.quantity = holding[s].quantity + (IF t = "BUY" THEN q ELSE -q)
  <2>1. holding[s] \in Books!Holding /\ t \in Books!TradeTypes
    BY <1>1 DEF Holding, Books!Holding, TradeTypes, Books!TradeTypes
  <2>2. /\ Books!FillHolding(holding[s], t, q, p) \in Books!Holding
        /\ Books!FillHolding(holding[s], t, q, p).reserved_quantity
             = holding[s].reserved_quantity
        /\ Books!FillHolding(holding[s], t, q, p).quantity
             = holding[s].quantity + (IF t = "BUY" THEN q ELSE -q)
    BY <1>1, <1>2, <2>1, LedgerAssumptions, Books!FillHoldingFacts
  <2>3. k = Books!FillHolding(holding[s], t, q, p)
    BY DEF FillHolding, Books!FillHolding, AverageAfterBuy, Books!AverageAfterBuy
  <2>4. Holding = Books!Holding
    BY DEF Holding, Books!Holding
  <2> HIDE DEF k
  <2> QED
    BY <2>2, <2>3, <2>4
<1>7. /\ t = "SELL" => q <= holding[s].quantity
      /\ t = "BUY" => p * q <= portfolio.available_balance
  BY <1>1, <1>2, <1>4 DEF CanFill, AvailableQuantity, Portfolio, Money
<1> HIDE DEF r, k
<1>8. /\ holding' \in [Symbols -> Holding] /\ holding'[s] = k
      /\ \A y \in Symbols \ {s} : holding'[y] = holding[y]
  BY <1>1, <1>4, <1>6
<1> QED
  BY <1>1, <1>2, <1>3, <1>4, <1>5, <1>6, <1>7, <1>8

\* Every step keeps them.
LEMMA HistoryTypesStep == HistoryTypes /\ [Next]_vars => HistoryTypes'
<1> SUFFICES ASSUME HistoryTypes, [Next]_vars PROVE HistoryTypes'
  OBVIOUS
<1>1. ASSUME NEW s \in Symbols, NEW t \in TradeTypes, NEW q \in Quantities, NEW p \in Prices,
             Fill(s, t, q, p)
      PROVE  HistoryTypes'
  <2> DEFINE e == NewTrade(s, t, q, p)
  <2>1. /\ Len(trades) < MaxTrades /\ Len(trades) \in Nat
        /\ e \in TradeRow /\ trades' = Append(trades, e)
        /\ portfolio' \in Portfolio /\ portfolio'.reserved_balance = 0
        /\ holding' \in [Symbols -> Holding]
        /\ holding'[s].quantity = holding[s].quantity + (IF t = "BUY" THEN q ELSE -q)
        /\ t = "SELL" => q <= holding[s].quantity
        /\ holding'[s].reserved_quantity = 0
        /\ \A r \in Symbols \ {s} : holding'[r] = holding[r]
    BY <1>1, FillFacts
  <2>2. /\ trades \in Seq(TradeRow) /\ MaxTrades \in Nat
        /\ \A i \in DOMAIN trades : trades[i].created_at <= Len(trades)
        /\ \A y \in Symbols : holding[y].quantity \in Nat /\ holding[y].reserved_quantity = 0
    BY NumberAssumption DEF HistoryTypes
  <2>3. holding'[s].quantity \in Nat
    BY <2>1, <2>2, PositiveFacts DEF TradeTypes
  <2>4. /\ trades' \in Seq(TradeRow) /\ Len(trades') = Len(trades) + 1
        /\ DOMAIN trades' = 1 .. Len(trades) + 1 /\ DOMAIN trades = 1 .. Len(trades)
        /\ trades'[Len(trades) + 1] = e
        /\ \A i \in 1 .. Len(trades) : trades'[i] = trades[i] /\ trades[i] \in TradeRow
    <3> HIDE DEF e
    <3> QED
      BY <2>1, <2>2, AppendProperties, LenProperties, ElementOfSeq
  <2>5. \A i \in DOMAIN trades' : trades'[i].created_at <= Len(trades')
    <3> SUFFICES ASSUME NEW i \in DOMAIN trades' PROVE trades'[i].created_at <= Len(trades')
      OBVIOUS
    <3>1. CASE i = Len(trades) + 1
      BY <2>1, <2>4, <3>1 DEF NewTrade
    <3>2. CASE i # Len(trades) + 1
      <4>1. i \in 1 .. Len(trades)
        BY <2>1, <2>4, <3>2
      <4>2. trades[i].created_at \in Nat
        BY <2>4, <4>1 DEF TradeRow
      <4> QED
        BY <2>1, <2>2, <2>4, <4>1, <4>2
    <3> QED
      BY <3>1, <3>2
  <2>6. \A y \in Symbols : holding'[y].quantity \in Nat /\ holding'[y].reserved_quantity = 0
    BY <2>1, <2>2, <2>3
  <2>7. Len(trades') <= MaxTrades
    BY <2>1, <2>2, <2>4
  <2> QED
    BY <2>1, <2>4, <2>5, <2>6, <2>7 DEF HistoryTypes
<1>2. CASE Reset
  <2>1. portfolio' \in Portfolio /\ portfolio'.reserved_balance = 0
    BY <1>2, NumberAssumption DEF Reset, FreshPortfolio, Portfolio, Money
  <2>2. /\ holding' \in [Symbols -> Holding]
        /\ \A s \in Symbols : holding'[s].quantity \in Nat /\ holding'[s].reserved_quantity = 0
    BY <1>2 DEF Reset, EmptyHolding, Holding
  <2>3. trades' = trades
    BY <1>2 DEF Reset
  <2> QED
    BY <2>1, <2>2, <2>3 DEF HistoryTypes
<1>3. CASE UNCHANGED vars
  BY <1>3 DEF vars, HistoryTypes
<1> QED
  BY <1>1, <1>2, <1>3 DEF Next

\* The ledger's order for a row of the log.
Placed(e) ==
  [user_id |-> 1, symbol |-> e.symbol, quantity |-> e.quantity, trade_type |-> e.trade_type,
   order_type |-> "MARKET", limit_price |-> 0, reserved_amount |-> 0, status |-> "EXECUTED",
   executed_price |-> e.price, created_day |-> 1]

\* The orders of a log.
PlacedAll(log) == [i \in DOMAIN log |-> Placed(log[i])]

\* A row more is an order more.
LEMMA PlacedAppend ==
  ASSUME NEW S, NEW log \in Seq(S), NEW e
  PROVE  /\ PlacedAll(Append(log, e)) = Append(PlacedAll(log), Placed(e))
         /\ Len(PlacedAll(log)) = Len(log)
         /\ DOMAIN PlacedAll(log) = 1 .. Len(log)
         /\ PlacedAll(<<>>) = <<>>
<1> DEFINE V == {Placed(log[i]) : i \in 1 .. Len(log)} \cup {Placed(e)}
           a == PlacedAll(log)
           l == Append(log, e)
<1>1. /\ Len(log) \in Nat /\ DOMAIN log = 1 .. Len(log)
      /\ Len(l) = Len(log) + 1 /\ DOMAIN l = 1 .. Len(log) + 1 /\ l[Len(log) + 1] = e
      /\ \A i \in 1 .. Len(log) : l[i] = log[i]
  <2>1. log \in Seq(S \cup {e})
    BY LenProperties, ElementOfSeq, IsASeq
  <2> QED
    BY <2>1, LenProperties, AppendProperties
<1> HIDE DEF l
<1>2. a \in Seq(V) /\ Len(a) = Len(log) /\ DOMAIN a = 1 .. Len(log)
  <2>1. a \in [1 .. Len(log) -> V]
    BY <1>1 DEF PlacedAll
  <2> HIDE DEF V, a
  <2> QED
    BY <1>1, <2>1, IsASeq, LenProperties
<1>3. PlacedAll(l) \in Seq(V) /\ Len(PlacedAll(l)) = Len(log) + 1
  <2>1. PlacedAll(l) \in [1 .. Len(log) + 1 -> V]
    BY <1>1 DEF PlacedAll
  <2> HIDE DEF V
  <2> QED
    BY <1>1, <2>1, IsASeq, LenProperties
<1>4. Placed(e) \in V
  OBVIOUS
<1> HIDE DEF V
<1>5. /\ Append(a, Placed(e)) \in Seq(V) /\ Len(Append(a, Placed(e))) = Len(log) + 1
      /\ \A i \in 1 .. Len(log) : Append(a, Placed(e))[i] = a[i]
      /\ Append(a, Placed(e))[Len(log) + 1] = Placed(e)
  <2> HIDE DEF a
  <2> QED
    BY <1>2, <1>4, AppendProperties
<1>6. \A i \in 1 .. Len(log) + 1 : PlacedAll(l)[i] = Append(a, Placed(e))[i]
  <2> SUFFICES ASSUME NEW i \in 1 .. Len(log) + 1
               PROVE  PlacedAll(l)[i] = Append(a, Placed(e))[i]
    OBVIOUS
  <2>1. PlacedAll(l)[i] = Placed(l[i])
    BY <1>1 DEF PlacedAll
  <2>2. CASE i = Len(log) + 1
    BY <1>1, <1>5, <2>1, <2>2
  <2>3. CASE i # Len(log) + 1
    <3>1. i \in 1 .. Len(log)
      BY <1>1, <2>3
    <3>2. a[i] = Placed(log[i])
      BY <1>1, <3>1 DEF PlacedAll
    <3> QED
      BY <1>1, <1>5, <2>1, <3>1, <3>2
  <2> QED
    BY <2>2, <2>3
<1>7. PlacedAll(l) = Append(a, Placed(e))
  <2> HIDE DEF a
  <2> QED
    BY <1>1, <1>3, <1>5, <1>6, SeqEqual
<1>8. PlacedAll(<<>>) = <<>>
  <2>1. PlacedAll(<<>>) \in [1 .. 0 -> V]
    BY DEF PlacedAll
  <2>2. PlacedAll(<<>>) \in Seq(V) /\ Len(PlacedAll(<<>>)) = 0
    BY <2>1, IsASeq, LenProperties
  <2> QED
    BY <2>2, EmptySeq
<1> QED
  BY <1>2, <1>7, <1>8 DEF l

\* The ledger's tables, as Books reads them.
BookPortfolio == [u \in {1} |-> portfolio]
BookHolding   == [u \in {1} |-> holding]

\* A new account is a new ledger.
LEMMA BooksInit == Init => Books!Init
<1> SUFFICES ASSUME Init PROVE Books!Init
  OBVIOUS
<1>1. PlacedAll(trades) = <<>>
  <2>1. trades = <<>> /\ <<>> \in Seq({1})
    BY DEF Init
  <2> QED
    BY <2>1, PlacedAppend
<1>2. Books!FreshPortfolio(StartingBalance) = FreshPortfolio(StartingBalance)
  BY DEF Books!FreshPortfolio, FreshPortfolio
<1>3. Books!EmptyHolding = EmptyHolding
  BY DEF Books!EmptyHolding, EmptyHolding
<1> QED
  BY <1>1, <1>2, <1>3 DEF Init, Books!Init, PlacedAll, Placed

\* There are n numbers up to n.
LEMMA CountTo ==
  ASSUME NEW n \in Nat
  PROVE  IsFiniteSet(1 .. n) /\ Cardinality(1 .. n) = n
BY FS_Interval

\* A trade is a market order of the ledger.
LEMMA FillIsOrder ==
  ASSUME HistoryTypes, NEW s \in Symbols, NEW t \in TradeTypes, NEW q \in Quantities,
         NEW p \in Prices, Fill(s, t, q, p)
  PROVE  Books!Next
<1> DEFINE e == NewTrade(s, t, q, p)
<1>1. /\ Len(trades) < MaxTrades /\ Len(trades) \in Nat /\ trades' = Append(trades, e)
  BY FillFacts
<1>2. trades \in Seq(TradeRow) /\ holding \in [Symbols -> Holding]
  BY DEF HistoryTypes
<1>3. /\ PlacedAll(trades') = Append(PlacedAll(trades), Placed(e))
      /\ Len(PlacedAll(trades)) = Len(trades) /\ DOMAIN PlacedAll(trades) = 1 .. Len(trades)
  <2> HIDE DEF e
  <2> QED
    BY <1>1, <1>2, PlacedAppend
<1>4. Placed(e) = Books!MarketOrder(1, s, t, q, p)
  BY DEF Placed, NewTrade, Books!MarketOrder
<1>5. Books!UnderBuyCap(1, t)
  <2> DEFINE B == Books!BuysOn(1, 1)
  <2>1. B \in SUBSET (1 .. Len(trades))
    BY <1>3 DEF Books!BuysOn, Books!Ids, PlacedAll, Placed
  <2>2. IsFiniteSet(1 .. Len(trades)) /\ Cardinality(1 .. Len(trades)) = Len(trades)
    BY <1>1, CountTo
  <2> HIDE DEF B
  <2>3. IsFiniteSet(B) /\ Cardinality(B) <= Len(trades) /\ Cardinality(B) \in Nat
    BY <2>1, <2>2, FS_Subset, FS_CardinalityType
  <2>4. Books!Cardinality(B) < MaxTrades
    BY <1>1, <2>3, NumberAssumption DEF Books!Cardinality, Cardinality
  <2> QED
    BY <2>4 DEF Books!UnderBuyCap, B
<1>6. /\ CanFill(portfolio, holding[s], t, q, p)
      /\ portfolio' = FillPortfolio(portfolio, holding[s], t, q, p)
      /\ holding' = [holding EXCEPT ![s] = FillHolding(holding[s], t, q, p)]
      /\ resetAt' = resetAt
  BY <1>2 DEF Fill
<1>7. /\ CanFill(portfolio, holding[s], t, q, p)
           = Books!CanFill(portfolio, holding[s], t, q, p)
      /\ FillPortfolio(portfolio, holding[s], t, q, p)
           = Books!FillPortfolio(portfolio, holding[s], t, q, p)
      /\ FillHolding(holding[s], t, q, p) = Books!FillHolding(holding[s], t, q, p)
  BY DEF CanFill, Books!CanFill, AvailableQuantity, Books!AvailableQuantity,
         FillPortfolio, Books!FillPortfolio, FillHolding, Books!FillHolding,
         AverageAfterBuy, Books!AverageAfterBuy
<1>8. Books!ApplyFill(1, s, portfolio, holding[s], t, q, p)
  <2>1. BookPortfolio' = [BookPortfolio EXCEPT ![1] = portfolio']
    BY DEF BookPortfolio
  <2>2. BookHolding' = [BookHolding EXCEPT ![1] = [holding EXCEPT ![s] = FillHolding(holding[s], t, q, p)]]
    BY <1>6 DEF BookHolding
  <2>3. BookHolding[1] = holding
    BY DEF BookHolding
  <2> QED
    BY <1>6, <1>7, <2>1, <2>2, <2>3 DEF Books!ApplyFill, Books!SetAccount, BookPortfolio, BookHolding
<1>9. Books!PlaceMarket(1, s, t, q, p)
  <2>1. BookPortfolio[1] = portfolio /\ BookHolding[1] = holding
    BY DEF BookPortfolio, BookHolding
  <2> HIDE DEF e
  <2> QED
    BY <1>1, <1>3, <1>4, <1>5, <1>6, <1>8, <2>1
    DEF Books!PlaceMarket, PlacedAll, Placed, BookPortfolio, BookHolding
<1>10. t \in Books!TradeTypes
  BY DEF TradeTypes, Books!TradeTypes
<1> QED
  BY <1>9, <1>10 DEF Books!Next

\* A reset is the ledger's.
LEMMA ResetIsReset == HistoryTypes /\ Reset => Books!Next
<1> SUFFICES ASSUME HistoryTypes, Reset PROVE Books!Next
  OBVIOUS
<1>1. Books!PendingOf(1) = {}
  BY DEF Books!PendingOf, Books!Ids
<1>2. /\ Books!FreshPortfolio(StartingBalance) = FreshPortfolio(StartingBalance)
      /\ Books!EmptyHolding = EmptyHolding
  BY DEF Books!FreshPortfolio, FreshPortfolio, Books!EmptyHolding, EmptyHolding
<1>3. Len(PlacedAll(trades)) = Len(trades)
  <2>1. trades \in Seq(TradeRow)
    BY DEF HistoryTypes
  <2> QED
    BY <2>1, PlacedAppend
<1>4. Books!ResetPortfolio(1)
  BY <1>1, <1>2, <1>3 DEF Reset, Books!ResetPortfolio, PlacedAll, Placed
<1> QED
  BY <1>4 DEF Books!Next

\* The account of TradeHistory is the ledger's: every step of it is a step of a
\* ledger with this one user, who places market orders and resets, or none.  So
\* what the ledger promises holds of it.
THEOREM HistoryImplementsLedger == Spec => Books!Spec
<1>1. HistoryTypes /\ [Next]_vars => [Books!Next]_(Books!vars)
  <2> SUFFICES ASSUME HistoryTypes, [Next]_vars PROVE [Books!Next]_(Books!vars)
    OBVIOUS
  <2>1. CASE Next
    BY <2>1, FillIsOrder, ResetIsReset DEF Next
  <2>2. CASE UNCHANGED vars
    BY <2>2 DEF vars, Books!vars
  <2> QED
    BY <2>1, <2>2
<1> QED
  BY <1>1, BooksInit, HistoryTypesInit, HistoryTypesStep, PTL DEF Spec, Books!Spec

-----------------------------------------------------------------------------
(* What the mentor reads out of the trades against the rows.               *)

\* A trade that finds the shares it sells: they leave the lots, and its value the
\* difference between what was sold and what all of it cost.
LEMMA ProcessTradeSums ==
  ASSUME NEW state \in FifoState, NEW t \in TradeRow,
         t.trade_type = "SELL" => t.quantity <= OpenQuantity(state.queue)
  PROVE  LET r == ProcessTrade(state, t)
         IN  /\ r \in FifoState /\ r.unmatched = state.unmatched
             /\ OpenQuantity(r.queue)
                  = OpenQuantity(state.queue)
                      + (IF t.trade_type = "BUY" THEN t.quantity ELSE -t.quantity)
             /\ SellValue(r.chunks) - BuyCost(r.chunks) - OpenCost(r.queue)
                  = SellValue(state.chunks) - BuyCost(state.chunks) - OpenCost(state.queue)
                      + (IF t.trade_type = "BUY" THEN -(t.price * t.quantity)
                         ELSE t.price * t.quantity)
<1> DEFINE r == ProcessTrade(state, t)
           m == MatchSale(state, t)
           v == t.price * t.quantity
<1>1. /\ state.queue \in Seq(Lots) /\ state.chunks \in Seq(Chunks) /\ state.unmatched \in Nat
      /\ t.quantity \in Nat \ {0} /\ t.price \in Nat /\ t.trade_type \in {"BUY", "SELL"}
  BY DEF FifoState, TradeRow, TradeTypes
<1>2. v \in Nat /\ t.quantity * t.price = v
  <2>1. \A a, b \in Nat : a * b \in Nat /\ a * b = b * a
    OBVIOUS
  <2> QED
    BY <1>1, <2>1
<1>3. r \in FifoState
  BY ProcessTradeType
<1>4. /\ Lot(t) \in Lots /\ Lot(t).left = t.quantity /\ Lot(t).price = t.price
  BY DEF Lot, Lots, TradeRow
<1>5. PICK c \in Chunks : TRUE
  <2>1. [buy |-> 0, sell |-> 0, quantity |-> 1, buy_price |-> 0, sell_price |-> 0] \in Chunks
    BY DEF Chunks
  <2> QED
    BY <2>1
<1>6. /\ SellValue(state.chunks) \in Nat /\ BuyCost(state.chunks) \in Nat
      /\ OpenCost(state.queue) \in Nat /\ OpenQuantity(state.queue) \in Nat
  BY <1>1, <1>4, <1>5, ChunkSums, QueueSums
<1>7. CASE t.trade_type = "BUY"
  <2>1. /\ r.queue = Append(state.queue, Lot(t)) /\ r.chunks = state.chunks
        /\ r.unmatched = state.unmatched
    BY <1>7 DEF ProcessTrade, FifoState
  <2> HIDE DEF r, v
  <2>2. /\ OpenQuantity(r.queue) = OpenQuantity(state.queue) + t.quantity
        /\ OpenCost(r.queue) = OpenCost(state.queue) + v
    BY <1>1, <1>2, <1>4, <2>1, QueueSums
  <2>4. SellValue(r.chunks) - BuyCost(r.chunks) - OpenCost(r.queue)
          = SellValue(state.chunks) - BuyCost(state.chunks) - OpenCost(state.queue) + (-v)
    <3> DEFINE x == SellValue(state.chunks)
               y == BuyCost(state.chunks)
               z == OpenCost(state.queue)
    <3>1. x - y - (z + v) = x - y - z + (-v)
      <4>1. x \in Nat /\ y \in Nat /\ z \in Nat
        BY <1>6
      <4> HIDE DEF x, y, z
      <4> QED
        BY <1>2, <4>1
    <3> QED
      BY <2>1, <2>2, <3>1, Zenon
  <2> QED
    BY <1>3, <1>7, <2>1, <2>2, <2>4 DEF r, v
<1>8. CASE t.trade_type = "SELL"
  <2>1. /\ m \in Matching /\ m.left = 0
        /\ OpenQuantity(m.queue) = OpenQuantity(state.queue) - t.quantity
        /\ OpenCost(m.queue) + BuyCost(m.chunks) = OpenCost(state.queue) + BuyCost(state.chunks)
        /\ SellValue(m.chunks) = SellValue(state.chunks) + v
    BY <1>2, <1>8, MatchSaleSums
  <2>2. r.queue = m.queue /\ r.chunks = m.chunks /\ r.unmatched = state.unmatched + m.left
    BY <1>8 DEF ProcessTrade
  <2> HIDE DEF r, v, m
  <2>3. r.unmatched = state.unmatched
    BY <1>1, <2>1, <2>2
  <2>4. OpenCost(m.queue) \in Nat /\ BuyCost(m.chunks) \in Nat
    <3>1. m.queue \in Seq(Lots) /\ m.chunks \in Seq(Chunks)
      BY <2>1 DEF Matching
    <3> QED
      BY <1>4, <1>5, <3>1, QueueSums, ChunkSums
  <2>6. SellValue(m.chunks) - BuyCost(m.chunks) - OpenCost(m.queue)
          = SellValue(state.chunks) - BuyCost(state.chunks) - OpenCost(state.queue) + v
    <3> DEFINE x  == SellValue(state.chunks)
               y  == BuyCost(state.chunks)
               z  == OpenCost(state.queue)
               y1 == BuyCost(m.chunks)
               z1 == OpenCost(m.queue)
    <3>1. (x + v) - y1 - z1 = x - y - z + v
      <4>1. /\ x \in Nat /\ y \in Nat /\ z \in Nat /\ y1 \in Nat /\ z1 \in Nat
            /\ z1 + y1 = z + y
        BY <1>6, <2>1, <2>4
      <4> HIDE DEF x, y, z, y1, z1
      <4> QED
        BY <1>2, <4>1
    <3> QED
      BY <2>1, <3>1, Zenon
  <2>7. OpenQuantity(r.queue) = OpenQuantity(state.queue) + (-t.quantity)
    BY <1>1, <1>6, <2>1, <2>2
  <2> QED
    BY <1>3, <1>8, <2>2, <2>3, <2>6, <2>7 DEF r, v
<1> QED
  BY <1>1, <1>7, <1>8

\* Before the first trade there are no lots and no chunks.
LEMMA FifoOfNone ==
  ProcessSymbolTrades(<<>>) = [queue |-> <<>>, chunks |-> <<>>, unmatched |-> 0]
<1>1. <<>> \in Seq(TradeRow) /\ Len(<<>>) = 0
  OBVIOUS
<1>2. PICK g : TradesRun(g, <<>>) /\ ProcessSymbolTrades(<<>>) = g[0]
  BY <1>1, TradesRuns
<1> QED
  BY <1>2 DEF TradesRun

\* What Fifo is, and that a fill is one turn for the symbol it trades.
LEMMA FifoStep ==
  ASSUME HistoryTypes
  PROVE  /\ Fifo \in [Symbols -> FifoState]
         /\ \A s \in Symbols, t \in TradeTypes, q \in Quantities, p \in Prices :
              Fill(s, t, q, p) =>
                /\ Fifo'[s] = ProcessTrade(Fifo[s], NewTrade(s, t, q, p))
                /\ \A r \in Symbols \ {s} : Fifo'[r] = Fifo[r]
<1>1. trades \in Seq(TradeRow)
  BY DEF HistoryTypes
<1>2. \E e : e \in TradeRow => TRUE
  OBVIOUS
<1>3. \A s \in Symbols : Fifo[s] = ProcessSymbolTrades(OfSymbol(trades, s))
  BY DEF Fifo
<1>4. ASSUME NEW s \in Symbols, NEW t \in TradeTypes, NEW q \in Quantities, NEW p \in Prices,
             Fill(s, t, q, p)
      PROVE  /\ Fifo'[s] = ProcessTrade(Fifo[s], NewTrade(s, t, q, p))
             /\ \A r \in Symbols \ {s} : Fifo'[r] = Fifo[r]
  <2> DEFINE e == NewTrade(s, t, q, p)
  <2>1. e \in TradeRow /\ e.symbol = s /\ trades' = Append(trades, e)
    BY <1>4, FillFacts DEF NewTrade
  <2> HIDE DEF e
  <2>2. \A r \in Symbols : /\ OfSymbol(trades, r) \in Seq(TradeRow)
                           /\ OfSymbol(trades', r) = IF e.symbol = r THEN Append(OfSymbol(trades, r), e)
                                                     ELSE OfSymbol(trades, r)
    BY <1>1, <2>1, OfSymbolAppend
  <2>3. Fifo' = [r \in Symbols |-> ProcessSymbolTrades(OfSymbol(trades', r))]
    BY DEF Fifo
  <2>4. ProcessSymbolTrades(Append(OfSymbol(trades, s), e))
          = ProcessTrade(ProcessSymbolTrades(OfSymbol(trades, s)), e)
    BY <2>1, <2>2, TradesAppend
  <2>5. OfSymbol(trades', s) = Append(OfSymbol(trades, s), e)
    BY <2>1, <2>2
  <2>6. Fifo'[s] = ProcessTrade(Fifo[s], e)
    BY <1>3, <2>3, <2>4, <2>5
  <2>7. ASSUME NEW r \in Symbols \ {s} PROVE Fifo'[r] = Fifo[r]
    <3>1. OfSymbol(trades', r) = OfSymbol(trades, r)
      BY <2>1, <2>2
    <3> QED
      BY <1>3, <2>3, <3>1
  <2> QED
    BY <2>6, <2>7 DEF e
<1>5. Fifo \in [Symbols -> FifoState]
  <2>1. ASSUME NEW s \in Symbols PROVE ProcessSymbolTrades(OfSymbol(trades, s)) \in FifoState
    <3> DEFINE e == [symbol |-> s, trade_type |-> "BUY", quantity |-> 1, price |-> 1, created_at |-> 1]
               l == OfSymbol(trades, s)
    <3>1. e \in TradeRow
      BY DEF TradeRow, TradeTypes
    <3> HIDE DEF e, l
    <3>2. l \in Seq(TradeRow)
      BY <1>1, <3>1, OfSymbolAppend DEF l
    <3>3. ProcessSymbolTrades(l) \in FifoState
      BY <3>1, <3>2, TradesAppend
    <3> QED
      BY <3>3 DEF l
  <2> QED
    BY <2>1 DEF Fifo
<1> QED
  BY <1>4, <1>5

\* What is left of the lots is at least what is held, since what a reset takes the
\* trades still tell: so no sale ever finds too little.
LotsCoverHoldings ==
  \A s \in Symbols :
    /\ Fifo[s].unmatched = 0
    /\ holding[s].quantity <= OpenQuantity(Fifo[s].queue)
    /\ "shares" \notin wiped => OpenQuantity(Fifo[s].queue) = holding[s].quantity

\* It holds of an empty log.
LEMMA LotsInit == Init => LotsCoverHoldings
<1> SUFFICES ASSUME Init, NEW s \in Symbols
             PROVE  /\ Fifo[s].unmatched = 0
                    /\ OpenQuantity(Fifo[s].queue) = holding[s].quantity
                    /\ holding[s].quantity = 0
  BY DEF LotsCoverHoldings
<1>1. OfSymbol(<<>>, s) = <<>>
  <2>1. <<>> \in Seq({1}) /\ Len(<<>>) = 0
    OBVIOUS
  <2>2. PICK g : GatherRun(g, {1}, <<>>, s) /\ OfSymbol(<<>>, s) = g[0]
    BY <2>1, OfSymbolRuns
  <2> QED
    BY <2>2 DEF GatherRun
<1>2. Fifo[s].queue = <<>> /\ Fifo[s].unmatched = 0
  BY <1>1, FifoOfNone DEF Fifo, Init
<1>3. OpenQuantity(<<>>) = 0
  BY TotalOfZeros DEF OpenQuantity
<1>4. holding[s].quantity = 0
  BY DEF Init, EmptyHolding
<1> QED
  BY <1>2, <1>3, <1>4

\* A fill keeps it, and moves what was sold less what all of it cost by its value.
LEMMA LotsFill ==
  ASSUME HistoryTypes, LotsCoverHoldings, NEW s \in Symbols, NEW t \in TradeTypes,
         NEW q \in Quantities, NEW p \in Prices, Fill(s, t, q, p)
  PROVE  /\ LotsCoverHoldings'
         /\ Fifo'[s] \in FifoState
         /\ SellValue(Fifo'[s].chunks) - BuyCost(Fifo'[s].chunks) - OpenCost(Fifo'[s].queue)
              = SellValue(Fifo[s].chunks) - BuyCost(Fifo[s].chunks) - OpenCost(Fifo[s].queue)
                  + (IF t = "BUY" THEN -(p * q) ELSE p * q)
<1> DEFINE e == NewTrade(s, t, q, p)
           f == Fifo[s]
<1>1. /\ e \in TradeRow
      /\ e.trade_type = t /\ e.quantity = q /\ e.price = p
  BY FillFacts DEF NewTrade
<1>2. /\ holding'[s].quantity = holding[s].quantity + (IF t = "BUY" THEN q ELSE -q)
      /\ t = "SELL" => q <= holding[s].quantity
      /\ \A r \in Symbols \ {s} : holding'[r] = holding[r]
  BY FillFacts
<1>3. /\ f \in FifoState /\ Fifo'[s] = ProcessTrade(f, e)
      /\ \A r \in Symbols \ {s} : Fifo'[r] = Fifo[r]
  BY FifoStep
<1>4. /\ f.unmatched = 0 /\ holding[s].quantity <= OpenQuantity(f.queue)
      /\ "shares" \notin wiped => OpenQuantity(f.queue) = holding[s].quantity
  BY DEF LotsCoverHoldings
<1>5. /\ q \in Nat /\ holding[s].quantity \in Nat /\ t \in {"BUY", "SELL"} /\ wiped' = wiped
  BY PositiveFacts DEF HistoryTypes, TradeTypes, Fill
<1>6. OpenQuantity(f.queue) \in Nat
  <2>1. f.queue \in Seq(Lots)
    BY <1>3 DEF FifoState
  <2>2. [buy |-> 0, price |-> 0, left |-> 1] \in Lots
    BY DEF Lots
  <2> HIDE DEF f
  <2> QED
    BY <2>1, <2>2, QueueSums
<1> HIDE DEF e, f
<1>7. e.trade_type = "SELL" => e.quantity <= OpenQuantity(f.queue)
  <2>1. \A a, b, c \in Nat : a <= b /\ b <= c => a <= c
    OBVIOUS
  <2> QED
    BY <1>1, <1>2, <1>4, <1>5, <1>6, <2>1
<1> DEFINE r == ProcessTrade(f, e)
<1>8. /\ r \in FifoState /\ r.unmatched = f.unmatched
      /\ OpenQuantity(r.queue) = OpenQuantity(f.queue) + (IF t = "BUY" THEN q ELSE -q)
      /\ SellValue(r.chunks) - BuyCost(r.chunks) - OpenCost(r.queue)
           = SellValue(f.chunks) - BuyCost(f.chunks) - OpenCost(f.queue)
               + (IF t = "BUY" THEN -(p * q) ELSE p * q)
  <2>1. /\ ProcessTrade(f, e) \in FifoState /\ ProcessTrade(f, e).unmatched = f.unmatched
        /\ OpenQuantity(ProcessTrade(f, e).queue)
             = OpenQuantity(f.queue)
                 + (IF e.trade_type = "BUY" THEN e.quantity ELSE -e.quantity)
        /\ SellValue(ProcessTrade(f, e).chunks) - BuyCost(ProcessTrade(f, e).chunks)
             - OpenCost(ProcessTrade(f, e).queue)
             = SellValue(f.chunks) - BuyCost(f.chunks) - OpenCost(f.queue)
                 + (IF e.trade_type = "BUY" THEN -(e.price * e.quantity)
                    ELSE e.price * e.quantity)
    BY <1>1, <1>3, <1>7, ProcessTradeSums
  <2> QED
    BY <1>1, <2>1
<1> HIDE DEF r
<1>9. Fifo'[s] = r
  BY <1>3 DEF r
<1>10. /\ r.unmatched = 0 /\ holding'[s].quantity <= OpenQuantity(r.queue)
       /\ "shares" \notin wiped => OpenQuantity(r.queue) = holding'[s].quantity
  <2> DEFINE d == IF t = "BUY" THEN q ELSE -q
  <2>1. d \in Int
    BY <1>5
  <2>2. OpenQuantity(r.queue) = OpenQuantity(f.queue) + d /\ r.unmatched = f.unmatched
    BY <1>8
  <2>3. holding'[s].quantity = holding[s].quantity + d
    BY <1>2
  <2> HIDE DEF d
  <2>4. \A a, b \in Nat : a <= b => a + d <= b + d
    BY <2>1
  <2> QED
    BY <1>4, <1>5, <1>6, <2>2, <2>3, <2>4
<1>11. LotsCoverHoldings'
  <2> SUFFICES ASSUME NEW y \in Symbols
               PROVE  /\ Fifo'[y].unmatched = 0
                      /\ holding'[y].quantity <= OpenQuantity(Fifo'[y].queue)
                      /\ "shares" \notin wiped' => OpenQuantity(Fifo'[y].queue) = holding'[y].quantity
    BY DEF LotsCoverHoldings
  <2>1. CASE y = s
    BY <1>5, <1>9, <1>10, <2>1
  <2>2. CASE y # s
    <3>1. Fifo'[y] = Fifo[y] /\ holding'[y] = holding[y]
      BY <1>2, <1>3, <2>2
    <3> QED
      BY <1>5, <3>1 DEF LotsCoverHoldings
  <2> QED
    BY <2>1, <2>2
<1> QED
  BY <1>8, <1>9, <1>11 DEF f

\* A reset that took no shares found none.
LEMMA LotsReset == HistoryTypes /\ LotsCoverHoldings /\ Reset => LotsCoverHoldings'
<1> SUFFICES ASSUME HistoryTypes, LotsCoverHoldings, Reset, NEW s \in Symbols
             PROVE  /\ Fifo'[s].unmatched = 0
                    /\ holding'[s].quantity <= OpenQuantity(Fifo'[s].queue)
                    /\ "shares" \notin wiped' => OpenQuantity(Fifo'[s].queue) = holding'[s].quantity
  BY DEF LotsCoverHoldings
<1>1. Fifo' = Fifo /\ holding'[s].quantity = 0
  BY DEF Reset, Fifo, EmptyHolding
<1>2. /\ Fifo[s].unmatched = 0 /\ holding[s].quantity <= OpenQuantity(Fifo[s].queue)
      /\ "shares" \notin wiped => OpenQuantity(Fifo[s].queue) = holding[s].quantity
      /\ holding[s].quantity \in Nat
  BY DEF LotsCoverHoldings, HistoryTypes
<1>3. "shares" \notin wiped' => "shares" \notin wiped /\ ~(holding[s].quantity > 0)
  BY DEF Reset
<1>4. OpenQuantity(Fifo[s].queue) \in Nat
  <2>1. Fifo[s].queue \in Seq(Lots)
    BY FifoStep DEF FifoState
  <2>2. [buy |-> 0, price |-> 0, left |-> 1] \in Lots
    BY DEF Lots
  <2> QED
    BY <2>1, <2>2, QueueSums
<1> QED
  BY <1>1, <1>2, <1>3, <1>4

Sold   == [s \in Symbols |-> SellValue(Fifo[s].chunks)]
Bought == [s \in Symbols |-> BuyCost(Fifo[s].chunks)]
Kept   == [s \in Symbols |-> OpenCost(Fifo[s].queue)]

\* Free cash is what the trades make it, as long as no reset took any.
CashFollowsTrades ==
  wiped = {} =>
    portfolio.available_balance = StartingBalance + Total(Sold) - Total(Bought) - Total(Kept)

\* Three sums over naturals.
ValuesTyped ==
  Sold \in [Symbols -> Nat] /\ Bought \in [Symbols -> Nat] /\ Kept \in [Symbols -> Nat]

\* They are.
LEMMA ValueTypes == HistoryTypes => ValuesTyped
<1> SUFFICES ASSUME HistoryTypes, NEW s \in Symbols
             PROVE  /\ SellValue(Fifo[s].chunks) \in Nat /\ BuyCost(Fifo[s].chunks) \in Nat
                    /\ OpenCost(Fifo[s].queue) \in Nat
  BY DEF ValuesTyped, Sold, Bought, Kept
<1>1. Fifo[s].queue \in Seq(Lots) /\ Fifo[s].chunks \in Seq(Chunks)
  BY FifoStep DEF FifoState
<1>2. [buy |-> 0, price |-> 0, left |-> 1] \in Lots
  BY DEF Lots
<1>3. [buy |-> 0, sell |-> 0, quantity |-> 1, buy_price |-> 0, sell_price |-> 0] \in Chunks
  BY DEF Chunks
<1> QED
  BY <1>1, <1>2, <1>3, QueueSums, ChunkSums

\* The same after a step.
LEMMA ValueTypesNext == HistoryTypes' => ValuesTyped'
BY ValueTypes, PTL

\* Sums of which only the value of k changes.
OnlyAt(D, k, f, g) ==
  f \in [D -> Nat] /\ g \in [D -> Nat] /\ \A i \in D \ {k} : g[i] = f[i]

\* Such a sum changes by that value.
LEMMA TotalMoves ==
  ASSUME NEW D, IsFiniteSet(D), NEW k \in D, NEW f, NEW g, OnlyAt(D, k, f, g)
  PROVE  /\ Total(f) \in Nat /\ Total(g) \in Nat /\ f[k] \in Nat /\ g[k] \in Nat
         /\ Total(g) = Total(f) - f[k] + g[k]
<1>1. Total(g) = Total(f) - f[k] + g[k]
  BY TotalChanges DEF OnlyAt
<1>2. Total(f) \in Nat /\ Total(g) \in Nat /\ f[k] \in Nat /\ g[k] \in Nat
  BY TotalIsNat DEF OnlyAt
<1> QED
  BY <1>1, <1>2

\* It holds of a new account.
LEMMA CashInit == Init => CashFollowsTrades
<1> SUFFICES ASSUME Init PROVE CashFollowsTrades
  OBVIOUS
<1>1. \A s \in Symbols : Fifo[s].queue = <<>> /\ Fifo[s].chunks = <<>>
  <2> SUFFICES ASSUME NEW s \in Symbols PROVE Fifo[s].queue = <<>> /\ Fifo[s].chunks = <<>>
    OBVIOUS
  <2>1. <<>> \in Seq({1}) /\ Len(<<>>) = 0
    OBVIOUS
  <2>2. PICK g : GatherRun(g, {1}, <<>>, s) /\ OfSymbol(<<>>, s) = g[0]
    BY <2>1, OfSymbolRuns
  <2>3. OfSymbol(<<>>, s) = <<>>
    BY <2>2 DEF GatherRun
  <2> QED
    BY <2>3, FifoOfNone DEF Fifo, Init
<1>2. OpenCost(<<>>) = 0 /\ SellValue(<<>>) = 0 /\ BuyCost(<<>>) = 0
  BY TotalOfZeros DEF OpenCost, SellValue, BuyCost
<1>3. Total(Sold) = 0 /\ Total(Bought) = 0 /\ Total(Kept) = 0
  BY <1>1, <1>2, TotalOfZeros DEF Sold, Bought, Kept
<1>4. portfolio.available_balance = StartingBalance
  BY DEF Init, FreshPortfolio
<1> QED
  BY <1>3, <1>4, NumberAssumption DEF CashFollowsTrades

\* Every step keeps it.
LEMMA CashStep ==
  IsFiniteSet(Symbols) =>
    (HistoryTypes /\ HistoryTypes' /\ LotsCoverHoldings /\ CashFollowsTrades /\ [Next]_vars
       => CashFollowsTrades')
<1> SUFFICES ASSUME IsFiniteSet(Symbols), HistoryTypes, HistoryTypes', LotsCoverHoldings,
                    CashFollowsTrades, [Next]_vars
             PROVE  CashFollowsTrades'
  OBVIOUS
<1>1. ASSUME NEW s \in Symbols, NEW t \in TradeTypes, NEW q \in Quantities, NEW p \in Prices,
             Fill(s, t, q, p)
      PROVE  CashFollowsTrades'
  <2> SUFFICES ASSUME wiped' = {}
               PROVE  portfolio'.available_balance
                        = StartingBalance + Total(Sold') - Total(Bought') - Total(Kept')
    BY DEF CashFollowsTrades
  <2>1. portfolio.available_balance = StartingBalance + Total(Sold) - Total(Bought) - Total(Kept)
    BY <1>1 DEF CashFollowsTrades, Fill
  <2> DEFINE v == IF t = "BUY" THEN -(p * q) ELSE p * q
  <2>2. /\ v \in Int
        /\ portfolio'.available_balance = portfolio.available_balance + v
    BY <1>1, FillFacts
  <2>3. /\ SellValue(Fifo'[s].chunks) - BuyCost(Fifo'[s].chunks) - OpenCost(Fifo'[s].queue)
             = SellValue(Fifo[s].chunks) - BuyCost(Fifo[s].chunks) - OpenCost(Fifo[s].queue) + v
        /\ \A y \in Symbols \ {s} : Fifo'[y] = Fifo[y]
    BY <1>1, LotsFill, FifoStep
  <2>4. /\ OnlyAt(Symbols, s, Sold, Sold') /\ OnlyAt(Symbols, s, Bought, Bought')
        /\ OnlyAt(Symbols, s, Kept, Kept')
    <3>1. \A y \in Symbols \ {s} : Sold'[y] = Sold[y] /\ Bought'[y] = Bought[y] /\ Kept'[y] = Kept[y]
      BY <2>3 DEF Sold, Bought, Kept
    <3> QED
      BY <3>1, ValueTypes, ValueTypesNext DEF ValuesTyped, OnlyAt
  <2>5. Sold'[s] - Bought'[s] - Kept'[s] = Sold[s] - Bought[s] - Kept[s] + v
    BY <2>3 DEF Sold, Bought, Kept
  <2> DEFINE a  == Total(Sold)
             b  == Total(Bought)
             c  == Total(Kept)
             a1 == Total(Sold')
             b1 == Total(Bought')
             c1 == Total(Kept')
             x  == Sold[s]
             x1 == Sold'[s]
             y  == Bought[s]
             y1 == Bought'[s]
             z  == Kept[s]
             z1 == Kept'[s]
             w  == portfolio.available_balance
             w1 == portfolio'.available_balance
  <2>6. a \in Nat /\ a1 \in Nat /\ x \in Nat /\ x1 \in Nat /\ a1 = a - x + x1
    BY <2>4, TotalMoves
  <2>7. b \in Nat /\ b1 \in Nat /\ y \in Nat /\ y1 \in Nat /\ b1 = b - y + y1
    BY <2>4, TotalMoves
  <2>8. c \in Nat /\ c1 \in Nat /\ z \in Nat /\ z1 \in Nat /\ c1 = c - z + z1
    BY <2>4, TotalMoves
  <2>9. /\ x1 - y1 - z1 = x - y - z + v
        /\ w = StartingBalance + a - b - c /\ w1 = w + v /\ StartingBalance \in Nat
    BY <2>1, <2>2, <2>5, NumberAssumption
  <2>10. w1 = StartingBalance + a1 - b1 - c1
    <3> HIDE DEF a, b, c, a1, b1, c1, v, x, x1, y, y1, z, z1, w, w1
    <3> QED
      BY <2>2, <2>6, <2>7, <2>8, <2>9
  <2> QED
    BY <2>10
<1>2. CASE Reset
  <2>1. Sold' = Sold /\ Bought' = Bought /\ Kept' = Kept
    BY <1>2 DEF Reset, Sold, Bought, Kept, Fifo
  <2>2. wiped' = {} => wiped = {} /\ portfolio.available_balance = StartingBalance
    BY <1>2 DEF Reset
  <2>3. portfolio'.available_balance = StartingBalance
    BY <1>2 DEF Reset, FreshPortfolio
  <2> QED
    BY <2>1, <2>2, <2>3 DEF CashFollowsTrades
<1>3. CASE UNCHANGED vars
  <2>1. Sold' = Sold /\ Bought' = Bought /\ Kept' = Kept
    BY <1>3 DEF vars, Sold, Bought, Kept, Fifo
  <2> QED
    BY <1>3, <2>1 DEF vars, CashFollowsTrades
<1> QED
  BY <1>1, <1>2, <1>3 DEF Next

\* Every step keeps LotsCoverHoldings.
LEMMA LotsStep == HistoryTypes /\ LotsCoverHoldings /\ [Next]_vars => LotsCoverHoldings'
<1>1. ASSUME LotsCoverHoldings, UNCHANGED vars PROVE LotsCoverHoldings'
  <2>1. Fifo' = Fifo
    BY <1>1 DEF vars, Fifo
  <2> QED
    BY <1>1, <2>1 DEF vars, LotsCoverHoldings
<1> QED
  BY <1>1, LotsFill, LotsReset DEF Next

\* What the mentor takes for open is what the ledger holds: first in, first out
\* over a symbol's whole log leaves lots of as many shares as the Holding row has
\* and finds a purchase for every share sold, whatever was traded.
THEOREM LotsAreHoldings == Spec => []OpenMatchesHoldings
<1>1. LotsCoverHoldings => OpenMatchesHoldings
  BY DEF LotsCoverHoldings, OpenMatchesHoldings
<1> QED
  BY <1>1, HistoryTypesInit, HistoryTypesStep, LotsInit, LotsStep, PTL DEF Spec

\* What was sold less what all of it cost, over the mentor's chunks and lots, is the
\* ledger's realized profit less what it has invested: first in, first out and
\* average cost agree in sum, whatever the averages were rounded to.
THEOREM ProfitsAgree == IsFiniteSet(Symbols) => (Spec => []PnlAgrees)
<1> SUFFICES ASSUME IsFiniteSet(Symbols) PROVE Spec => []PnlAgrees
  OBVIOUS
<1>1. /\ Init => HistoryTypes /\ LotsCoverHoldings /\ CashFollowsTrades
      /\ HistoryTypes /\ LotsCoverHoldings /\ CashFollowsTrades /\ [Next]_vars
           => HistoryTypes' /\ LotsCoverHoldings' /\ CashFollowsTrades'
  BY HistoryTypesInit, HistoryTypesStep, LotsInit, LotsStep, CashInit, CashStep
<1>2. Books!Spec => []Books!AccountingIdentity
  BY LedgerAssumptions, Books!BooksBalance
<1>3. HistoryTypes /\ CashFollowsTrades /\ Books!AccountingIdentity => PnlAgrees
  <2> SUFFICES ASSUME HistoryTypes, CashFollowsTrades, Books!AccountingIdentity, wiped = {}
               PROVE  Total(Sold) - Total(Bought) - Total(Kept)
                        = portfolio.realized_pnl - portfolio.invested_amount
    BY DEF PnlAgrees, Sold, Bought, Kept
  <2>1. portfolio.available_balance + portfolio.reserved_balance + portfolio.invested_amount
          = StartingBalance + portfolio.realized_pnl
    BY DEF Books!AccountingIdentity
  <2>2. portfolio.available_balance = StartingBalance + Total(Sold) - Total(Bought) - Total(Kept)
    BY DEF CashFollowsTrades
  <2>3. Total(Sold) \in Nat /\ Total(Bought) \in Nat /\ Total(Kept) \in Nat
    BY ValueTypes, TotalIsNat DEF ValuesTyped
  <2>4. portfolio.reserved_balance = 0 /\ portfolio.invested_amount \in Int
        /\ portfolio.realized_pnl \in Int /\ portfolio.available_balance \in Int
    BY DEF HistoryTypes, Portfolio, Money
  <2> DEFINE a == Total(Sold)
             b == Total(Bought)
             c == Total(Kept)
             w == portfolio.available_balance
             i == portfolio.invested_amount
             g == portfolio.realized_pnl
  <2>5. w + i = StartingBalance + g /\ w = StartingBalance + a - b - c /\ StartingBalance \in Nat
        /\ a \in Nat /\ b \in Nat /\ c \in Nat /\ w \in Int /\ i \in Int /\ g \in Int
    BY <2>1, <2>2, <2>3, <2>4, NumberAssumption
  <2>6. a - b - c = g - i
    <3> HIDE DEF a, b, c, w, i, g
    <3> QED
      BY <2>5
  <2> QED
    BY <2>6
<1> QED
  BY <1>1, <1>2, <1>3, HistoryImplementsLedger, PTL DEF Spec

-----------------------------------------------------------------------------
(* The replay of the trades.                                               *)

Positions    == [quantity : Nat, avg_price : Nat]
ReplayStates == [cash : Int, holdings : [Symbols -> Positions]]

\* A replayed trade moves the cash by its value and the position by its shares, when
\* they are there.
LEMMA ReplayFacts ==
  ASSUME NEW state \in ReplayStates, NEW t \in TradeRow
  PROVE  LET r == ReplayTrade(state, t)
             h == state.holdings[t.symbol].quantity
         IN  /\ r \in ReplayStates /\ h \in Nat
             /\ \A s \in Symbols \ {t.symbol} : r.holdings[s] = state.holdings[s]
             /\ t.trade_type = "BUY" =>
                  /\ r.cash = state.cash - t.price * t.quantity
                  /\ r.holdings[t.symbol].quantity = h + t.quantity
             /\ t.trade_type = "SELL" /\ t.quantity <= h =>
                  /\ r.cash = state.cash + t.price * t.quantity
                  /\ r.holdings[t.symbol].quantity = h - t.quantity
<1> DEFINE pos   == state.holdings[t.symbol]
           value == t.price * t.quantity
           total == pos.quantity + t.quantity
           left  == pos.quantity - t.quantity
           avg   == (pos.avg_price * pos.quantity + value) \div total
           r     == ReplayTrade(state, t)
           H     == state.holdings
<1>1. /\ t.symbol \in Symbols /\ t.quantity \in Nat \ {0} /\ t.price \in Nat
      /\ t.trade_type \in {"BUY", "SELL"}
      /\ state.cash \in Int /\ H \in [Symbols -> Positions]
      /\ pos \in Positions /\ pos.quantity \in Nat /\ pos.avg_price \in Nat
  BY DEF TradeRow, TradeTypes, ReplayStates, Positions
<1>2. value \in Nat /\ pos.avg_price * pos.quantity \in Nat
  <2>1. \A a, b \in Nat : a * b \in Nat
    OBVIOUS
  <2> QED
    BY <1>1, <2>1
<1>3. total \in Nat \ {0} /\ left \in Int
  BY <1>1
<1>4. avg \in Nat
  <2>1. pos.avg_price * pos.quantity + value \in Nat
    BY <1>2
  <2>2. \A a \in Nat, b \in Nat \ {0} : a \div b \in Nat
    OBVIOUS
  <2> HIDE DEF total, value, pos
  <2> QED
    BY <1>3, <2>1, <2>2
<1>5. CASE t.trade_type = "BUY"
  <2>1. r = [cash |-> state.cash - value, holdings |-> [H EXCEPT ![t.symbol] = Position(total, avg)]]
    BY <1>5 DEF ReplayTrade
  <2>2. Position(total, avg) \in Positions /\ Position(total, avg).quantity = total
    <3> HIDE DEF total, avg
    <3> QED
      BY <1>3, <1>4 DEF Position, Positions
  <2> DEFINE k == Position(total, avg)
  <2>3. state.cash - value \in Int
    BY <1>1, <1>2
  <2> HIDE DEF r, k, H, value, avg
  <2>4. r \in ReplayStates /\ r.cash = state.cash - value /\ r.holdings[t.symbol] = k
        /\ \A s \in Symbols \ {t.symbol} : r.holdings[s] = H[s]
    BY <1>1, <2>1, <2>2, <2>3 DEF ReplayStates, k
  <2> QED
    BY <1>1, <1>5, <2>2, <2>4 DEF r, k, H, value
<1>6. CASE t.trade_type = "SELL" /\ pos.quantity = 0
  BY <1>1, <1>6 DEF ReplayTrade
<1>7. CASE t.trade_type = "SELL" /\ pos.quantity # 0
  <2> DEFINE k == IF left <= 0 THEN Position(0, 0) ELSE Position(left, pos.avg_price)
  <2>1. r = [cash |-> state.cash + value, holdings |-> [H EXCEPT ![t.symbol] = k]]
    BY <1>7 DEF ReplayTrade
  <2>2. k \in Positions /\ (t.quantity <= pos.quantity => k.quantity = left)
    BY <1>1, <1>3 DEF Position, Positions
  <2>3. state.cash + value \in Int
    BY <1>1, <1>2
  <2> HIDE DEF r, k, H, value
  <2>4. r \in ReplayStates /\ r.cash = state.cash + value /\ r.holdings[t.symbol] = k
        /\ \A s \in Symbols \ {t.symbol} : r.holdings[s] = H[s]
    BY <1>1, <2>1, <2>2, <2>3 DEF ReplayStates
  <2> QED
    BY <1>1, <1>7, <2>2, <2>4 DEF r, H, value
<1> QED
  BY <1>1, <1>5, <1>6, <1>7

\* The account after each trade of log up to time T.
ReplayRun(g, log, T) ==
  /\ g \in [0 .. Len(log) -> ReplayStates]
  /\ g[0] = [cash |-> StartingBalance, holdings |-> [s \in Symbols |-> Position(0, 0)]]
  /\ \A n \in 1 .. Len(log) : g[n] = (IF Pace * log[n].created_at > T THEN g[n - 1] ELSE ReplayTrade(g[n - 1], log[n]))

\* StateAt is what it is in the end.
LEMMA ReplayRuns ==
  ASSUME NEW T, NEW log \in Seq(TradeRow)
  PROVE  \E g : ReplayRun(g, log, T) /\ StateAt(log, T) = g[Len(log)]
<1> DEFINE N       == Len(log)
           F(a, e) == (IF Pace * e.created_at > T THEN a ELSE ReplayTrade(a, e))
           start   == [cash |-> StartingBalance, holdings |-> [s \in Symbols |-> Position(0, 0)]]
           G       == [x \in ReplayStates \X TradeRow |-> F(x[1], x[2])]
           after[n \in 0 .. Len(log)] == IF n = 0 THEN start ELSE F(after[n - 1], log[n])
<1>1. N \in Nat /\ \A n \in 1 .. N : n \in 0 .. N /\ n - 1 \in 0 .. N /\ log[n] \in TradeRow
  BY LenProperties, ElementOfSeq
<1>2. StateAt(log, T) = after[N]
  BY DEF StateAt, Through
<1>3. \A a \in ReplayStates, e \in TradeRow : F(a, e) \in ReplayStates
  BY ReplayFacts, NumberAssumption DEF ReplayStates, Positions, Position
<1>4. start \in ReplayStates
  BY ReplayFacts, NumberAssumption DEF ReplayStates, Positions, Position
<1>0. ASSUME NEW g \in [0 .. N -> ReplayStates], g[0] = start,
             \A n \in 1 .. N : g[n] = F(g[n - 1], log[n]), after[N] = g[N]
      PROVE  ReplayRun(g, log, T) /\ StateAt(log, T) = g[Len(log)]
  BY <1>0, <1>2 DEF ReplayRun
<1> HIDE DEF F, start
<1>5. G \in [ReplayStates \X TradeRow -> ReplayStates]
  BY <1>3
<1>6. PICK g : IsRun(g, ReplayStates, start, G, log)
  <2> HIDE DEF G
  <2> QED
    BY <1>4, <1>5, Recursion
<1>7. \A n \in 1 .. N : g[n] = F(g[n - 1], log[n])
  BY <1>1, <1>6 DEF IsRun
<1>8. g = [n \in 0 .. Len(log) |-> IF n = 0 THEN start ELSE F(g[n - 1], log[n])]
  <2>1. \A n \in 0 .. Len(log) : g[n] = IF n = 0 THEN start ELSE F(g[n - 1], log[n])
    BY <1>1, <1>6, <1>7 DEF IsRun
  <2>2. g = [n \in 0 .. Len(log) |-> g[n]]
    BY <1>6 DEF IsRun
  <2> HIDE DEF N
  <2> QED
    BY <2>1, <2>2, Zenon
<1>9. after = CHOOSE h : h = [n \in 0 .. Len(log) |->
                 IF n = 0 THEN start ELSE F(h[n - 1], log[n])]
  OBVIOUS
<1>10. after = [n \in 0 .. Len(log) |-> IF n = 0 THEN start ELSE F(after[n - 1], log[n])]
  BY <1>8, <1>9, Zenon
<1> HIDE DEF after, G
<1> DEFINE P == {n \in 0 .. N : after[n] = g[n]}
<1>11. 0 \in P
  BY <1>1, <1>6, <1>10 DEF IsRun
<1>12. ASSUME NEW n \in 1 .. N, n - 1 \in P PROVE n \in P
  <2>1. after[n] = F(after[n - 1], log[n])
    BY <1>1, <1>10
  <2> QED
    BY <1>1, <1>7, <1>12, <2>1
<1>13. after[N] = g[N]
  <2> HIDE DEF P
  <2>1. \A n \in 0 .. N : n \in P
    BY <1>1, <1>11, <1>12, Upwards
  <2>2. N \in P
    BY <1>1, <2>1
  <2> QED
    BY <2>2 DEF P
<1>14. g \in [0 .. N -> ReplayStates] /\ g[0] = start
  BY <1>6 DEF IsRun
<1> QED
  BY <1>0, <1>7, <1>13, <1>14

\* Products of naturals grow with their second factor.
LEMMA ProductGrows ==
  ASSUME NEW a \in Nat, NEW b \in Nat, NEW c \in Nat, b <= c
  PROVE  a * b \in Nat /\ a * c \in Nat /\ a * b <= a * c
<1>1. c - b \in Nat /\ c = b + (c - b)
  OBVIOUS
<1>2. a * b \in Nat /\ a * c \in Nat /\ a * (c - b) \in Nat
  BY <1>1
<1>3. a * c = a * b + a * (c - b)
  BY <1>1
<1> QED
  BY <1>2, <1>3

\* One trade more is one turn more.
LEMMA ReplayAppend ==
  ASSUME NEW T, NEW log \in Seq(TradeRow), NEW t \in TradeRow
  PROVE  /\ StateAt(log, T) \in ReplayStates
         /\ StateAt(Append(log, t), T) = (IF Pace * t.created_at > T THEN StateAt(log, T) ELSE ReplayTrade(StateAt(log, T), t))
<1> DEFINE N       == Len(log)
           l       == Append(log, t)
           F(a, e) == (IF Pace * e.created_at > T THEN a ELSE ReplayTrade(a, e))
<1>1. /\ N \in Nat /\ l \in Seq(TradeRow) /\ Len(l) = N + 1 /\ l[N + 1] = t
      /\ \A n \in 1 .. N : l[n] = log[n]
  BY LenProperties, AppendProperties
<1>2. PICK g : ReplayRun(g, log, T) /\ StateAt(log, T) = g[N]
  BY ReplayRuns
<1> HIDE DEF l
<1>3. PICK h : ReplayRun(h, l, T) /\ StateAt(l, T) = h[Len(l)]
  BY <1>1, ReplayRuns
<1>4. /\ g[0] = h[0]
      /\ \A n \in 0 .. N : g[n] \in ReplayStates
      /\ \A n \in 1 .. N : g[n] = F(g[n - 1], log[n])
      /\ \A n \in 1 .. N + 1 : h[n] = F(h[n - 1], l[n])
  BY <1>1, <1>2, <1>3 DEF ReplayRun
<1> DEFINE P == {n \in 0 .. N : h[n] = g[n]}
<1> HIDE DEF F, N
<1>5. 0 \in P
  BY <1>1, <1>4
<1>6. \A n \in 1 .. N : n - 1 \in P => n \in P
  BY <1>1, <1>4
<1>7. N \in P
  <2> HIDE DEF P
  <2>1. \A n \in 0 .. N : n \in P
    BY <1>1, <1>5, <1>6, Upwards
  <2> QED
    BY <1>1, <2>1
<1>8. StateAt(l, T) = F(g[N], t) /\ g[N] \in ReplayStates
  <2>1. N + 1 \in 1 .. Len(l) /\ (N + 1) - 1 = N /\ N \in 0 .. N
    BY <1>1
  <2>2. h[N + 1] = F(h[N], l[N + 1])
    BY <1>4, <2>1
  <2> QED
    BY <1>1, <1>2, <1>3, <1>4, <1>7, <2>1, <2>2
<1> QED
  BY <1>2, <1>8 DEF F, l

\* Replayed to any time from the last trade on, the trades give the shares that are
\* held, and those a reset took; and the cash, when it took none.
ReplayFollows ==
  \A T \in Nat :
    Pace * Len(trades) <= T =>
      /\ StateAt(trades, T) \in ReplayStates
      /\ \A s \in Symbols :
           /\ holding[s].quantity <= StateAt(trades, T).holdings[s].quantity
           /\ "shares" \notin wiped =>
                StateAt(trades, T).holdings[s].quantity = holding[s].quantity
      /\ wiped = {} => StateAt(trades, T).cash = portfolio.available_balance

\* It holds of an empty log.
LEMMA ReplayInit == Init => ReplayFollows
<1> SUFFICES ASSUME Init, NEW T \in Nat
             PROVE  /\ StateAt(trades, T) \in ReplayStates
                    /\ \A s \in Symbols : /\ StateAt(trades, T).holdings[s].quantity = 0
                                          /\ holding[s].quantity = 0
                    /\ StateAt(trades, T).cash = portfolio.available_balance
  BY DEF ReplayFollows
<1>1. <<>> \in Seq(TradeRow) /\ Len(<<>>) = 0 /\ trades = <<>>
  BY DEF Init
<1>2. PICK g : ReplayRun(g, <<>>, T) /\ StateAt(<<>>, T) = g[0]
  BY <1>1, ReplayRuns
<1>3. /\ StateAt(<<>>, T) = [cash |-> StartingBalance,
                             holdings |-> [s \in Symbols |-> Position(0, 0)]]
      /\ StateAt(<<>>, T) \in ReplayStates
  BY <1>1, <1>2 DEF ReplayRun
<1>4. /\ \A s \in Symbols : holding[s].quantity = 0
      /\ portfolio.available_balance = StartingBalance
  BY DEF Init, EmptyHolding, FreshPortfolio
<1> QED
  BY <1>1, <1>3, <1>4 DEF Position

\* A fill keeps it.
LEMMA ReplayFill ==
  ASSUME HistoryTypes, ReplayFollows, NEW s \in Symbols, NEW t \in TradeTypes,
         NEW q \in Quantities, NEW p \in Prices, Fill(s, t, q, p)
  PROVE  ReplayFollows'
<1> DEFINE e == NewTrade(s, t, q, p)
<1>1. /\ e \in TradeRow /\ e.symbol = s /\ e.trade_type = t /\ e.quantity = q /\ e.price = p
      /\ e.created_at = Len(trades) + 1
      /\ trades' = Append(trades, e) /\ Len(trades) \in Nat
  BY FillFacts DEF NewTrade
<1>2. /\ portfolio'.available_balance
           = portfolio.available_balance + (IF t = "BUY" THEN -(p * q) ELSE p * q)
      /\ holding'[s].quantity = holding[s].quantity + (IF t = "BUY" THEN q ELSE -q)
      /\ t = "SELL" => q <= holding[s].quantity
      /\ \A y \in Symbols \ {s} : holding'[y] = holding[y]
      /\ p * q \in Nat /\ t \in {"BUY", "SELL"} /\ q \in Nat /\ p \in Nat
      /\ wiped' = wiped
  <2>1. /\ portfolio'.available_balance
             = portfolio.available_balance + (IF t = "BUY" THEN -(p * q) ELSE p * q)
        /\ holding'[s].quantity = holding[s].quantity + (IF t = "BUY" THEN q ELSE -q)
        /\ t = "SELL" => q <= holding[s].quantity
        /\ \A y \in Symbols \ {s} : holding'[y] = holding[y]
        /\ p * q \in Nat
    BY FillFacts
  <2>2. t \in {"BUY", "SELL"} /\ q \in Nat /\ p \in Nat /\ wiped' = wiped
    BY PositiveFacts DEF TradeTypes, Fill
  <2> QED
    BY <2>1, <2>2
<1>3. /\ trades \in Seq(TradeRow) /\ portfolio.available_balance \in Int
      /\ \A y \in Symbols : holding[y].quantity \in Nat
  BY DEF HistoryTypes, Portfolio, Money
<1> HIDE DEF e
<1>4. Len(trades') = Len(trades) + 1
  BY <1>1, <1>3, AppendProperties
<1> SUFFICES ASSUME NEW T \in Nat, Pace * Len(trades') <= T
             PROVE  /\ StateAt(trades', T) \in ReplayStates
                    /\ \A y \in Symbols :
                         /\ holding'[y].quantity <= StateAt(trades', T).holdings[y].quantity
                         /\ "shares" \notin wiped' =>
                              StateAt(trades', T).holdings[y].quantity = holding'[y].quantity
                    /\ wiped' = {} => StateAt(trades', T).cash = portfolio'.available_balance
  BY DEF ReplayFollows
<1> DEFINE a == StateAt(trades, T)
           r == StateAt(trades', T)
<1>5. /\ a \in ReplayStates
      /\ \A y \in Symbols :
           /\ holding[y].quantity <= a.holdings[y].quantity
           /\ "shares" \notin wiped => a.holdings[y].quantity = holding[y].quantity
      /\ wiped = {} => a.cash = portfolio.available_balance
  <2>1. Pace * Len(trades) <= T
    <3>1. /\ Pace * Len(trades) <= Pace * Len(trades')
          /\ Pace * Len(trades) \in Nat /\ Pace * Len(trades') \in Nat
      BY <1>1, <1>4, NumberAssumption, ProductGrows
    <3> QED
      BY <3>1
  <2> QED
    BY <2>1 DEF ReplayFollows
<1>6. r = ReplayTrade(a, e)
  <2>1. r = IF Pace * e.created_at > T THEN a ELSE ReplayTrade(a, e)
    BY <1>1, <1>3, ReplayAppend
  <2>2. Pace * Len(trades') \in Nat /\ e.created_at = Len(trades')
    BY <1>1, <1>4, NumberAssumption, ProductGrows
  <2>3. ~(Pace * e.created_at > T)
    BY <2>2
  <2> QED
    BY <2>1, <2>3
<1>7. \A y \in Symbols : a.holdings[y].quantity \in Nat
  BY <1>5 DEF ReplayStates, Positions
<1>8. /\ a.cash \in Int
  BY <1>5 DEF ReplayStates
<1> HIDE DEF a, r
<1> DEFINE h == a.holdings[s].quantity
           v == p * q
<1>9. q <= h \/ t = "BUY"
  <2>1. (q <= holding[s].quantity /\ holding[s].quantity <= h) \/ t = "BUY"
    BY <1>2, <1>5
  <2>2. h \in Nat /\ holding[s].quantity \in Nat
    BY <1>3, <1>7
  <2> HIDE DEF h
  <2> QED
    BY <1>2, <2>1, <2>2
<1>10. /\ r \in ReplayStates
       /\ \A y \in Symbols \ {s} : r.holdings[y] = a.holdings[y]
       /\ t = "BUY" => r.cash = a.cash - p * q /\ r.holdings[s].quantity = h + q
       /\ t = "SELL" => r.cash = a.cash + p * q /\ r.holdings[s].quantity = h - q
  <2>1. LET x == ReplayTrade(a, e)
            z == a.holdings[e.symbol].quantity
        IN  /\ x \in ReplayStates /\ z \in Nat
            /\ \A y \in Symbols \ {e.symbol} : x.holdings[y] = a.holdings[y]
            /\ e.trade_type = "BUY" =>
                 /\ x.cash = a.cash - e.price * e.quantity
                 /\ x.holdings[e.symbol].quantity = z + e.quantity
            /\ e.trade_type = "SELL" /\ e.quantity <= z =>
                 /\ x.cash = a.cash + e.price * e.quantity
                 /\ x.holdings[e.symbol].quantity = z - e.quantity
    BY <1>1, <1>5, ReplayFacts
  <2> QED
    BY <1>1, <1>6, <1>9, <2>1
<1>11. wiped' = {} => r.cash = portfolio'.available_balance
  <2> SUFFICES ASSUME wiped' = {} PROVE r.cash = portfolio'.available_balance
    OBVIOUS
  <2>1. a.cash = portfolio.available_balance
    BY <1>2, <1>5
  <2>2. r.cash = a.cash + (IF t = "BUY" THEN -v ELSE v)
    <3>1. v \in Int
      BY <1>2
    <3>2. t = "BUY" => r.cash = a.cash - v
      BY <1>10
    <3>3. t = "SELL" => r.cash = a.cash + v
      BY <1>10
    <3>4. a.cash - v = a.cash + (-v)
      <4> HIDE DEF v
      <4> QED
        BY <1>8, <3>1
    <3> HIDE DEF v
    <3> QED
      BY <1>2, <3>2, <3>3, <3>4
  <2> QED
    BY <1>2, <2>1, <2>2
<1>12. /\ holding'[s].quantity <= r.holdings[s].quantity
       /\ "shares" \notin wiped' => r.holdings[s].quantity = holding'[s].quantity
  <2> DEFINE d == IF t = "BUY" THEN q ELSE -q
             k == holding[s].quantity
  <2>1. d \in Int /\ h \in Nat /\ k \in Nat
    BY <1>2, <1>3, <1>7
  <2>2. r.holdings[s].quantity = h + d
    <3>1. t = "BUY" => r.holdings[s].quantity = h + q
      BY <1>10
    <3>2. t = "SELL" => r.holdings[s].quantity = h - q
      BY <1>10
    <3>3. h - q = h + (-q)
      <4> HIDE DEF h
      <4> QED
        BY <1>2, <2>1
    <3> HIDE DEF h
    <3> QED
      BY <1>2, <3>1, <3>2, <3>3
  <2>3. holding'[s].quantity = k + d
    BY <1>2
  <2>4. k <= h /\ ("shares" \notin wiped => h = k) /\ wiped' = wiped
    BY <1>2, <1>5
  <2> HIDE DEF h, k, d
  <2> QED
    BY <2>1, <2>2, <2>3, <2>4
<1>13. ASSUME NEW y \in Symbols
       PROVE  /\ holding'[y].quantity <= r.holdings[y].quantity
              /\ "shares" \notin wiped' => r.holdings[y].quantity = holding'[y].quantity
  <2>1. CASE y = s
    BY <1>12, <2>1
  <2>2. CASE y # s
    <3>1. holding'[y] = holding[y] /\ r.holdings[y] = a.holdings[y] /\ wiped' = wiped
      BY <1>2, <1>10, <2>2
    <3> QED
      BY <1>5, <3>1
  <2> QED
    BY <2>1, <2>2
<1> QED
  BY <1>10, <1>11, <1>13 DEF r

\* Every step keeps it.
LEMMA ReplayStep == HistoryTypes /\ ReplayFollows /\ [Next]_vars => ReplayFollows'
<1>1. ASSUME ReplayFollows, UNCHANGED vars PROVE ReplayFollows'
  BY <1>1 DEF vars, ReplayFollows
<1>2. ASSUME HistoryTypes, ReplayFollows, Reset PROVE ReplayFollows'
  <2> SUFFICES ASSUME NEW T \in Nat, Pace * Len(trades) <= T
               PROVE  /\ StateAt(trades, T) \in ReplayStates
                      /\ \A s \in Symbols :
                           /\ holding'[s].quantity <= StateAt(trades, T).holdings[s].quantity
                           /\ "shares" \notin wiped' =>
                                StateAt(trades, T).holdings[s].quantity = holding'[s].quantity
                      /\ wiped' = {} => StateAt(trades, T).cash = portfolio'.available_balance
    BY <1>2 DEF Reset, ReplayFollows
  <2>1. /\ StateAt(trades, T) \in ReplayStates
        /\ \A s \in Symbols :
             "shares" \notin wiped => StateAt(trades, T).holdings[s].quantity = holding[s].quantity
        /\ wiped = {} => StateAt(trades, T).cash = portfolio.available_balance
    BY <1>2 DEF ReplayFollows
  <2>2. /\ \A s \in Symbols : holding'[s].quantity = 0
        /\ portfolio'.available_balance = StartingBalance
        /\ "shares" \notin wiped' =>
             "shares" \notin wiped /\ \A s \in Symbols : ~(holding[s].quantity > 0)
        /\ wiped' = {} => wiped = {} /\ portfolio.available_balance = StartingBalance
    BY <1>2 DEF Reset, EmptyHolding, FreshPortfolio
  <2>3. \A s \in Symbols : /\ StateAt(trades, T).holdings[s].quantity \in Nat
                           /\ holding[s].quantity \in Nat
    BY <1>2, <2>1 DEF ReplayStates, Positions, HistoryTypes
  <2> QED
    BY <2>1, <2>2, <2>3
<1> QED
  BY <1>1, <1>2, ReplayFill DEF Next

\* The books have a page for each number of trades; unless a reset took some, the last
\* is what the rows come to now, and what the trades up to any minute give is on the
\* page of those trades.
BooksFollow ==
  /\ books \in Seq([cash : Int, quantity : [Symbols -> Int]])
  /\ Len(books) = Len(trades) + 1
  /\ wiped = {} =>
       /\ books[Len(trades) + 1] = Book(portfolio, holding)
       /\ \A T \in Nat : \A k \in 0 .. Len(trades) :
            MadeBy(k, T) =>
              /\ StateAt(trades, T).cash = books[k + 1].cash
              /\ \A s \in Symbols :
                   StateAt(trades, T).holdings[s].quantity = books[k + 1].quantity[s]

\* A page of the books.
LEMMA BookPage ==
  HistoryTypes =>
    /\ Book(portfolio, holding) \in [cash : Int, quantity : [Symbols -> Int]]
    /\ Book(portfolio, holding).cash = portfolio.available_balance
    /\ \A s \in Symbols : Book(portfolio, holding).quantity[s] = holding[s].quantity
<1> SUFFICES ASSUME HistoryTypes
             PROVE  /\ Book(portfolio, holding) \in [cash : Int, quantity : [Symbols -> Int]]
                    /\ Book(portfolio, holding).cash = portfolio.available_balance
                    /\ \A s \in Symbols :
                         Book(portfolio, holding).quantity[s] = holding[s].quantity
  OBVIOUS
<1>1. portfolio.available_balance \in Int /\ portfolio.reserved_balance = 0
  BY DEF HistoryTypes, Portfolio, Money
<1>2. \A s \in Symbols : holding[s].quantity \in Int
  BY DEF HistoryTypes
<1>3. portfolio.available_balance + portfolio.reserved_balance = portfolio.available_balance
  BY <1>1
<1> QED
  BY <1>1, <1>2, <1>3 DEF Book

\* A new account has the first page.
LEMMA BooksFollowInit == Init /\ HistoryTypes /\ ReplayFollows => BooksFollow
<1> SUFFICES ASSUME Init, HistoryTypes, ReplayFollows PROVE BooksFollow
  OBVIOUS
<1> DEFINE b == Book(portfolio, holding)
<1>1. trades = <<>> /\ Len(trades) = 0 /\ wiped = {} /\ books = <<b>>
  BY DEF Init
<1>2. /\ b \in [cash : Int, quantity : [Symbols -> Int]]
      /\ b.cash = portfolio.available_balance
      /\ \A s \in Symbols : b.quantity[s] = holding[s].quantity
  BY BookPage
<1> HIDE DEF b
<1>3. /\ books \in Seq([cash : Int, quantity : [Symbols -> Int]])
      /\ Len(books) = 1 /\ books[1] = b
  BY <1>1, <1>2
<1>4. ASSUME NEW T \in Nat
      PROVE  /\ StateAt(trades, T).cash = b.cash
             /\ \A s \in Symbols : StateAt(trades, T).holdings[s].quantity = b.quantity[s]
  <2>1. Pace * Len(trades) <= T
    BY <1>1, NumberAssumption
  <2> QED
    BY <1>1, <1>2, <2>1 DEF ReplayFollows
<1>5. \A T \in Nat : \A k \in 0 .. Len(trades) :
        /\ StateAt(trades, T).cash = books[k + 1].cash
        /\ \A s \in Symbols : StateAt(trades, T).holdings[s].quantity = books[k + 1].quantity[s]
  <2>1. \A k \in 0 .. Len(trades) : k + 1 = 1
    BY <1>1
  <2> QED
    BY <1>3, <1>4, <2>1
<1> QED
  BY <1>1, <1>3, <1>5 DEF BooksFollow, b

\* A fill turns the page: what was made before it is on the pages there are.
LEMMA BooksFollowFill ==
  ASSUME HistoryTypes, HistoryTypes', BooksFollow, ReplayFollows', NEW s \in Symbols,
         NEW t \in TradeTypes, NEW q \in Quantities, NEW p \in Prices, Fill(s, t, q, p)
  PROVE  BooksFollow'
<1> DEFINE e == NewTrade(s, t, q, p)
           b == Book(portfolio', holding')
           n == Len(trades)
           P == [cash : Int, quantity : [Symbols -> Int]]
<1>1. /\ e \in TradeRow /\ e.created_at = n + 1
      /\ trades' = Append(trades, e) /\ n \in Nat
  BY FillFacts DEF NewTrade
<1>2. /\ trades \in Seq(TradeRow) /\ wiped' = wiped
      /\ books' = Append(books, b)
  BY DEF HistoryTypes, Fill, Book
<1>3. /\ b \in P /\ b.cash = portfolio'.available_balance
      /\ \A y \in Symbols : b.quantity[y] = holding'[y].quantity
  <2>1. portfolio'.available_balance \in Int /\ portfolio'.reserved_balance = 0
    BY DEF HistoryTypes, Portfolio, Money
  <2>2. \A y \in Symbols : holding'[y].quantity \in Int
    BY DEF HistoryTypes
  <2>3. portfolio'.available_balance + portfolio'.reserved_balance = portfolio'.available_balance
    BY <2>1
  <2> QED
    BY <2>1, <2>2, <2>3 DEF Book
<1>4. books \in Seq(P) /\ Len(books) = n + 1
  BY DEF BooksFollow
<1> HIDE DEF e, P
<1>5. Len(trades') = n + 1
  BY <1>1, <1>2, AppendProperties
<1>6. /\ books' \in Seq(P) /\ Len(books') = n + 2 /\ books'[n + 2] = b
      /\ \A k \in 0 .. n : books'[k + 1] = books[k + 1]
  <2> HIDE DEF b
  <2>1. /\ books' \in Seq(P) /\ Len(books') = Len(books) + 1
        /\ books'[Len(books) + 1] = b
        /\ \A k \in 1 .. Len(books) : books'[k] = books[k]
    BY <1>2, <1>3, <1>4, AppendProperties
  <2> QED
    BY <1>1, <1>4, <2>1
<1>7. ASSUME wiped = {}, NEW T \in Nat, NEW k \in 0 .. n + 1, MadeBy(k, T)'
      PROVE  /\ StateAt(trades', T).cash = books'[k + 1].cash
             /\ \A y \in Symbols :
                  StateAt(trades', T).holdings[y].quantity = books'[k + 1].quantity[y]
  <2>1. /\ k > 0 => Pace * k <= T
        /\ k < n + 1 => T < Pace * (k + 1)
    BY <1>5, <1>7 DEF MadeBy
  <2>2. CASE k = n + 1
    <3>1. Pace * Len(trades') <= T
      BY <1>1, <1>5, <2>1, <2>2
    <3>2. /\ StateAt(trades', T).cash = portfolio'.available_balance
          /\ \A y \in Symbols : StateAt(trades', T).holdings[y].quantity = holding'[y].quantity
      BY <1>2, <1>7, <3>1 DEF ReplayFollows
    <3>3. books'[k + 1] = b
      BY <1>1, <1>6, <2>2
    <3> HIDE DEF b
    <3> QED
      BY <1>3, <3>2, <3>3
  <2>3. CASE k # n + 1
    <3>1. k \in 0 .. n /\ k \in Nat /\ k + 1 <= n + 1
      BY <1>1, <2>3
    <3>2. /\ Pace * (k + 1) \in Nat /\ Pace * (n + 1) \in Nat
          /\ Pace * (k + 1) <= Pace * (n + 1)
      BY <1>1, <3>1, NumberAssumption, ProductGrows
    <3>3. Pace * e.created_at > T
      BY <1>1, <2>1, <3>1, <3>2
    <3>4. StateAt(trades', T) = StateAt(trades, T)
      BY <1>1, <1>2, <3>3, ReplayAppend
    <3>5. MadeBy(k, T)
      BY <1>1, <2>1, <3>1 DEF MadeBy
    <3>6. /\ StateAt(trades, T).cash = books[k + 1].cash
          /\ \A y \in Symbols :
               StateAt(trades, T).holdings[y].quantity = books[k + 1].quantity[y]
      BY <1>7, <3>1, <3>5 DEF BooksFollow
    <3>7. books'[k + 1] = books[k + 1]
      BY <1>6, <3>1
    <3> QED
      BY <3>4, <3>6, <3>7
  <2> QED
    BY <2>2, <2>3
<1> QED
  BY <1>1, <1>2, <1>5, <1>6, <1>7 DEF BooksFollow, P

\* Every step keeps the books.
LEMMA BooksFollowStep ==
  HistoryTypes /\ HistoryTypes' /\ BooksFollow /\ ReplayFollows' /\ [Next]_vars => BooksFollow'
<1>1. ASSUME BooksFollow, UNCHANGED vars PROVE BooksFollow'
  BY <1>1 DEF vars, BooksFollow, MadeBy, Book
<1>2. ASSUME HistoryTypes, HistoryTypes', BooksFollow, Reset PROVE BooksFollow'
  <2>1. /\ trades' = trades /\ books' = books
        /\ wiped' = {} => /\ wiped = {} /\ portfolio.available_balance = StartingBalance
                          /\ \A s \in Symbols : ~(holding[s].quantity > 0)
        /\ \A s \in Symbols : holding'[s].quantity = 0
        /\ portfolio'.available_balance = StartingBalance /\ portfolio'.reserved_balance = 0
    BY <1>2 DEF Reset, EmptyHolding, FreshPortfolio
  <2>2. /\ portfolio.reserved_balance = 0
        /\ \A s \in Symbols : holding[s].quantity \in Nat
    BY <1>2 DEF HistoryTypes
  <2>3. wiped' = {} => Book(portfolio, holding)' = Book(portfolio, holding)
    BY <2>1, <2>2 DEF Book
  <2>4. wiped' = {} =>
          /\ books'[Len(trades') + 1] = Book(portfolio, holding)'
          /\ \A T \in Nat : \A k \in 0 .. Len(trades') :
               MadeBy(k, T)' =>
                 /\ StateAt(trades', T).cash = books'[k + 1].cash
                 /\ \A s \in Symbols :
                      StateAt(trades', T).holdings[s].quantity = books'[k + 1].quantity[s]
    BY <1>2, <2>1, <2>3 DEF BooksFollow, MadeBy
  <2> QED
    BY <1>2, <2>1, <2>4 DEF BooksFollow
<1> QED
  BY <1>1, <1>2, BooksFollowFill DEF Next

\* The symbol whose candles the curve follows after each trade of log.
LongestRun(g, log, closes) ==
  /\ g \in [0 .. Len(log) -> Symbols]
  /\ g[0] = Head(log).symbol
  /\ \A n \in 1 .. Len(log) :
       g[n] = (IF Cardinality(DOMAIN closes[log[n].symbol]) > Cardinality(DOMAIN closes[g[n - 1]])
               THEN log[n].symbol ELSE g[n - 1])

\* The curve follows the candles of a symbol.
LEMMA TimelineOfSymbol ==
  ASSUME HistoryTypes, trades # <<>>, NEW closes
  PROVE  \E s \in Symbols : Timeline(closes) = DOMAIN closes[s]
<1> DEFINE N       == Len(trades)
           F(a, e) == (IF Cardinality(DOMAIN closes[e.symbol]) > Cardinality(DOMAIN closes[a])
                       THEN e.symbol ELSE a)
           start   == Head(trades).symbol
           G       == [x \in Symbols \X TradeRow |-> F(x[1], x[2])]
           after[n \in 0 .. Len(trades)] == IF n = 0 THEN start ELSE F(after[n - 1], trades[n])
<1>1. /\ trades \in Seq(TradeRow) /\ N \in Nat
      /\ \A n \in 1 .. N : n \in 0 .. N /\ n - 1 \in 0 .. N /\ trades[n] \in TradeRow
  BY LenProperties, ElementOfSeq DEF HistoryTypes
<1>2. Timeline(closes) = DOMAIN closes[after[N]]
  BY DEF Timeline, Through
<1>3. \A a \in Symbols, e \in TradeRow : F(a, e) \in Symbols
  BY DEF TradeRow
<1>4. start \in Symbols
  BY <1>1, HeadTailProperties DEF TradeRow
<1> HIDE DEF F, start
<1>5. G \in [Symbols \X TradeRow -> Symbols]
  BY <1>3
<1>6. PICK g : IsRun(g, Symbols, start, G, trades)
  <2> HIDE DEF G
  <2> QED
    BY <1>1, <1>4, <1>5, Recursion
<1>7. \A n \in 1 .. N : g[n] = F(g[n - 1], trades[n])
  BY <1>1, <1>6 DEF IsRun
<1>8. g = [n \in 0 .. Len(trades) |-> IF n = 0 THEN start ELSE F(g[n - 1], trades[n])]
  <2>1. \A n \in 0 .. N : g[n] = IF n = 0 THEN start ELSE F(g[n - 1], trades[n])
    BY <1>1, <1>6, <1>7 DEF IsRun
  <2>2. g = [n \in 0 .. Len(trades) |-> g[n]]
    BY <1>6 DEF IsRun
  <2> QED
    BY <2>1, <2>2, Zenon
<1>9. after = CHOOSE h : h = [n \in 0 .. Len(trades) |->
                 IF n = 0 THEN start ELSE F(h[n - 1], trades[n])]
  OBVIOUS
<1>10. after = [n \in 0 .. Len(trades) |-> IF n = 0 THEN start ELSE F(after[n - 1], trades[n])]
  BY <1>8, <1>9, Zenon
<1> HIDE DEF after, G
<1> DEFINE P == {n \in 0 .. N : after[n] \in Symbols}
<1>11. 0 \in P
  BY <1>1, <1>4, <1>10
<1>12. ASSUME NEW n \in 1 .. N, n - 1 \in P PROVE n \in P
  <2>1. after[n] = F(after[n - 1], trades[n])
    BY <1>1, <1>10
  <2> QED
    BY <1>1, <1>3, <1>12, <2>1
<1>13. after[N] \in Symbols
  <2> HIDE DEF P
  <2>1. \A n \in 0 .. N : n \in P
    BY <1>1, <1>11, <1>12, Upwards
  <2>2. N \in P
    BY <1>1, <2>1
  <2> QED
    BY <2>2 DEF P
<1> QED
  BY <1>2, <1>13

\* Each point of the equity curve is the ledger's past at the closes, whichever symbols
\* have candles, at whatever times; and the last is the net worth, when the candles
\* are up to date.
THEOREM CurveIsTheLedger == Spec => []CurveIsTheLedgersPast
<1>1. HistoryTypes /\ BooksFollow => CurveIsTheLedgersPast
  <2> SUFFICES ASSUME HistoryTypes, BooksFollow, wiped = {}, NEW closes \in Frames,
                      NEW T \in DOMAIN History(closes)
               PROVE  /\ \A k \in 0 .. Len(trades) :
                           MadeBy(k, T) =>
                             History(closes)[T]
                               = books[k + 1].cash + AtCloses(books[k + 1].quantity, closes, T)
                      /\ \A live \in [Symbols -> Prices \cup {NoPrice}] :
                           UpToDate(closes, live, T) => History(closes)[T] = NetWorth(live)
    BY DEF CurveIsTheLedgersPast
  <2>1. T \in Nat /\ History(closes)[T] = ValueAt(closes, T)
    <3>1. trades # <<>> /\ T \in Timeline(closes) /\ History(closes)[T] = ValueAt(closes, T)
      BY DEF History
    <3>2. PICK s \in Symbols : T \in DOMAIN closes[s]
      BY <3>1, TimelineOfSymbol
    <3>3. closes[s] \in UNION {[stamps -> Prices] : stamps \in Stamps}
      BY DEF Frames
    <3>4. PICK stamps \in Stamps : closes[s] \in [stamps -> Prices]
      BY <3>3
    <3> QED
      BY <3>1, <3>2, <3>4, StampsAssumption
  <2>2. ASSUME NEW k \in 0 .. Len(trades), MadeBy(k, T)
        PROVE  ValueAt(closes, T)
                 = books[k + 1].cash + AtCloses(books[k + 1].quantity, closes, T)
    <3> DEFINE r == StateAt(trades, T)
    <3>1. /\ r.cash = books[k + 1].cash
          /\ \A s \in Symbols : r.holdings[s].quantity = books[k + 1].quantity[s]
      BY <2>1, <2>2 DEF BooksFollow
    <3>2. books[k + 1] \in [cash : Int, quantity : [Symbols -> Int]]
      <4>1. k + 1 \in 1 .. Len(books)
        BY LenProperties DEF BooksFollow, HistoryTypes
      <4> QED
        BY <4>1, ElementOfSeq DEF BooksFollow
    <3> HIDE DEF r
    <3>3. [s \in Symbols |-> r.holdings[s].quantity] = books[k + 1].quantity
      BY <3>1, <3>2
    <3> QED
      BY <3>1, <3>3 DEF ValueAt, r
  <2>3. ASSUME NEW live \in [Symbols -> Prices \cup {NoPrice}], UpToDate(closes, live, T)
        PROVE  ValueAt(closes, T) = NetWorth(live)
    <3> DEFINE k    == Len(trades)
               b    == Book(portfolio, holding)
               held == {r \in Symbols : holding[r].quantity > 0}
    <3>1. k \in 0 .. k /\ MadeBy(k, T) /\ books[k + 1] = b
      BY <2>3 DEF UpToDate, MadeBy, BooksFollow
    <3>2. ValueAt(closes, T) = b.cash + AtCloses(b.quantity, closes, T)
      BY <2>2, <3>1
    <3>3. \A s \in Symbols : b.quantity[s] = holding[s].quantity
      BY BookPage
    <3>4. {r \in Symbols : b.quantity[r] > 0 /\ DOMAIN closes[r] # {}} = held
      BY <2>3, <3>3 DEF UpToDate
    <3>5. \A s \in held : CloseAtOrBefore(closes[s], T) = LivePrice(live, s)
      <4> SUFFICES ASSUME NEW s \in held PROVE CloseAtOrBefore(closes[s], T) = LivePrice(live, s)
        OBVIOUS
      <4>1. /\ DOMAIN closes[s] # {} /\ \A u \in DOMAIN closes[s] : u <= T
            /\ closes[s][Max(DOMAIN closes[s])] = LivePrice(live, s)
        BY <2>3 DEF UpToDate
      <4>2. {u \in DOMAIN closes[s] : u <= T} = DOMAIN closes[s]
        BY <4>1
      <4> QED
        BY <4>1, <4>2 DEF CloseAtOrBefore
    <3> HIDE DEF held
    <3>6. [s \in held |-> CloseAtOrBefore(closes[s], T) * b.quantity[s]]
            = [s \in held |-> LivePrice(live, s) * holding[s].quantity]
      BY <3>3, <3>5 DEF held
    <3>7. AtCloses(b.quantity, closes, T)
            = Total([s \in held |-> LivePrice(live, s) * holding[s].quantity])
      BY <3>4, <3>6 DEF AtCloses
    <3> QED
      BY <3>2, <3>7 DEF NetWorth, Book, held
  <2> QED
    BY <2>1, <2>2, <2>3
<1> QED
  BY <1>1, HistoryTypesInit, HistoryTypesStep, ReplayInit, ReplayStep, BooksFollowInit,
     BooksFollowStep, PTL DEF Spec

-----------------------------------------------------------------------------
(* The meaning of first in, first out: shares numbered through.              *)

\* What queue has left of the lot bought at b.
LeftOf(queue, b) ==
  Total([i \in DOMAIN queue |-> IF queue[i].buy = b THEN queue[i].left ELSE 0])

\* A lot more in what is left of one.
LEMMA LeftOfAppend ==
  ASSUME NEW q \in Seq(Lots), NEW lot \in Lots, NEW b
  PROVE  /\ LeftOf(<<>>, b) = 0 /\ LeftOf(q, b) \in Nat
         /\ LeftOf(Append(q, lot), b) = LeftOf(q, b) + (IF lot.buy = b THEN lot.left ELSE 0)
<1> DEFINE f == [l \in Lots |-> IF l.buy = b THEN l.left ELSE 0]
<1>1. f \in [Lots -> Nat] /\ f[lot] = IF lot.buy = b THEN lot.left ELSE 0
  BY DEF Lots
<1>2. ASSUME NEW s \in Seq(Lots) PROVE LeftOf(s, b) = Summed(f, s)
  <2>1. \A i \in DOMAIN s : s[i] \in Lots
    BY LenProperties, ElementOfSeq
  <2>2. [i \in DOMAIN s |-> f[s[i]]]
          = [i \in DOMAIN s |-> IF s[i].buy = b THEN s[i].left ELSE 0]
    BY <2>1
  <2> HIDE DEF f
  <2> QED
    BY <2>2 DEF LeftOf, Summed
<1>3. <<>> \in Seq(Lots) /\ Append(q, lot) \in Seq(Lots)
  BY AppendProperties
<1> HIDE DEF f
<1>4. /\ Summed(f, <<>>) = 0 /\ Summed(f, q) \in Nat
      /\ Summed(f, Append(q, lot)) = Summed(f, q) + f[lot]
  BY <1>1, SummedAppend
<1> QED
  BY <1>1, <1>2, <1>3, <1>4

\* A chunk more in what a sale took from a lot.
LEMMA MatchedAppend ==
  ASSUME NEW q \in Seq(Chunks), NEW c \in Chunks, NEW b, NEW u
  PROVE  /\ Matched(<<>>, b, u) = 0 /\ Matched(q, b, u) \in Nat
         /\ Matched(Append(q, c), b, u)
              = Matched(q, b, u) + (IF c.buy = b /\ c.sell = u THEN c.quantity ELSE 0)
<1> DEFINE f == [l \in Chunks |-> IF l.buy = b /\ l.sell = u THEN l.quantity ELSE 0]
<1>1. f \in [Chunks -> Nat] /\ f[c] = IF c.buy = b /\ c.sell = u THEN c.quantity ELSE 0
  BY DEF Chunks
<1>2. ASSUME NEW s \in Seq(Chunks) PROVE Matched(s, b, u) = Summed(f, s)
  <2>1. \A i \in DOMAIN s : s[i] \in Chunks
    BY LenProperties, ElementOfSeq
  <2>2. [i \in DOMAIN s |-> f[s[i]]]
          = [i \in DOMAIN s |-> IF s[i].buy = b /\ s[i].sell = u THEN s[i].quantity ELSE 0]
    BY <2>1
  <2> HIDE DEF f
  <2> QED
    BY <2>2 DEF Matched, Summed
<1>3. <<>> \in Seq(Chunks) /\ Append(q, c) \in Seq(Chunks)
  BY AppendProperties
<1> HIDE DEF f
<1>4. /\ Summed(f, <<>>) = 0 /\ Summed(f, q) \in Nat
      /\ Summed(f, Append(q, c)) = Summed(f, q) + f[c]
  BY <1>1, SummedAppend
<1> QED
  BY <1>1, <1>2, <1>3, <1>4

\* A trade more in the shares before time k.
LEMMA BeforeAppend ==
  ASSUME NEW log \in Seq(TradeRow), NEW t \in TradeRow, NEW kind, NEW k
  PROVE  /\ Before(<<>>, kind, k) = 0 /\ Before(log, kind, k) \in Nat
         /\ Before(Append(log, t), kind, k)
              = Before(log, kind, k)
                  + (IF t.trade_type = kind /\ t.created_at < k THEN t.quantity ELSE 0)
<1> DEFINE f == [l \in TradeRow |->
                   IF l.trade_type = kind /\ l.created_at < k THEN l.quantity ELSE 0]
<1>1. f \in [TradeRow -> Nat]
      /\ f[t] = IF t.trade_type = kind /\ t.created_at < k THEN t.quantity ELSE 0
  BY DEF TradeRow
<1>2. ASSUME NEW s \in Seq(TradeRow) PROVE Before(s, kind, k) = Summed(f, s)
  <2>1. \A i \in DOMAIN s : s[i] \in TradeRow
    BY LenProperties, ElementOfSeq
  <2>2. [i \in DOMAIN s |-> f[s[i]]]
          = [i \in DOMAIN s |-> IF s[i].trade_type = kind /\ s[i].created_at < k
                                THEN s[i].quantity ELSE 0]
    BY <2>1
  <2> HIDE DEF f
  <2> QED
    BY <2>2 DEF Before, Summed
<1>3. <<>> \in Seq(TradeRow) /\ Append(log, t) \in Seq(TradeRow)
  BY AppendProperties
<1> HIDE DEF f
<1>4. /\ Summed(f, <<>>) = 0 /\ Summed(f, log) \in Nat
      /\ Summed(f, Append(log, t)) = Summed(f, log) + f[t]
  BY <1>1, SummedAppend
<1> QED
  BY <1>1, <1>2, <1>3, <1>4

\* Nothing is traded after the last trade.
LEMMA BeforeEnd ==
  ASSUME NEW log \in Seq(TradeRow), NEW kind, NEW T \in Nat, NEW k \in Nat, T <= k,
         \A i \in DOMAIN log : log[i].created_at < T
  PROVE  Before(log, kind, k) = Before(log, kind, T)
<1>1. \A i \in DOMAIN log : log[i].created_at \in Nat
  <2>1. \A i \in DOMAIN log : log[i] \in TradeRow
    BY LenProperties, ElementOfSeq
  <2> QED
    BY <2>1 DEF TradeRow
<1>2. \A i \in DOMAIN log : log[i].created_at < T /\ log[i].created_at < k
  BY <1>1
<1>3. [i \in DOMAIN log |->
         IF log[i].trade_type = kind /\ log[i].created_at < k THEN log[i].quantity ELSE 0]
      = [i \in DOMAIN log |->
           IF log[i].trade_type = kind /\ log[i].created_at < T THEN log[i].quantity ELSE 0]
  BY <1>2
<1> QED
  BY <1>3 DEF Before

\* A lot that gave m shares.
LEMMA PartOfLot ==
  ASSUME NEW lot \in Lots, NEW m
  PROVE  [lot EXCEPT !.left = @ - m]
           = [buy |-> lot.buy, price |-> lot.price, left |-> lot.left - m]
BY DEF Lots

\* What a sale takes from a lot is gone from the lot.
LEMMA LotGives ==
  ASSUME NEW acc \in Matching, NEW lot \in Lots, NEW t \in TradeRow, NEW b, NEW u
  PROVE  LET r == MatchLot(acc, lot, t)
         IN  /\ u # t.created_at => Matched(r.chunks, b, u) = Matched(acc.chunks, b, u)
             /\ u = t.created_at =>
                  Matched(r.chunks, b, u) + LeftOf(r.queue, b)
                    = Matched(acc.chunks, b, u) + LeftOf(acc.queue, b)
                        + (IF lot.buy = b THEN lot.left ELSE 0)
<1> DEFINE m    == Smaller(acc.left, lot.left)
           rest == [lot EXCEPT !.left = @ - m]
           c    == Chunk(lot, t, m)
           r    == MatchLot(acc, lot, t)
<1>1. /\ acc.left \in Nat /\ acc.queue \in Seq(Lots) /\ acc.chunks \in Seq(Chunks)
      /\ lot.left \in Nat \ {0} /\ lot.price \in Nat /\ lot.buy \in Nat
      /\ t.price \in Nat /\ t.created_at \in Nat
  BY DEF Matching, Lots, TradeRow
<1>2. m \in Nat /\ m <= lot.left
  BY <1>1 DEF Smaller
<1>3. /\ r.queue = IF m = lot.left THEN acc.queue ELSE Append(acc.queue, rest)
      /\ r.chunks = IF m = 0 THEN acc.chunks ELSE Append(acc.chunks, c)
  BY DEF MatchLot
<1>4. /\ rest = [buy |-> lot.buy, price |-> lot.price, left |-> lot.left - m]
      /\ m # lot.left => rest \in Lots
      /\ rest.buy = lot.buy /\ rest.left = lot.left - m
  <2>1. rest = [buy |-> lot.buy, price |-> lot.price, left |-> lot.left - m]
    BY DEF Lots
  <2>2. m # lot.left => lot.left - m \in Nat \ {0}
    BY <1>1, <1>2
  <2> HIDE DEF rest, m
  <2> QED
    BY <1>1, <2>1, <2>2 DEF Lots
<1>5. /\ m # 0 => c \in Chunks
      /\ c.buy = lot.buy /\ c.sell = t.created_at /\ c.quantity = m
  <2> HIDE DEF m
  <2> QED
    BY <1>1, <1>2 DEF Chunk, Chunks
<1> HIDE DEF m, rest, c, r
<1> DEFINE M == Matched(acc.chunks, b, u)
           N == Matched(r.chunks, b, u)
           L == LeftOf(acc.queue, b)
           K == LeftOf(r.queue, b)
<1>6. /\ M \in Nat
      /\ N = M + (IF lot.buy = b /\ t.created_at = u THEN m ELSE 0)
  <2>1. [buy |-> 0, sell |-> 0, quantity |-> 1, buy_price |-> 0, sell_price |-> 0] \in Chunks
    BY DEF Chunks
  <2>2. M \in Nat
    BY <1>1, <2>1, MatchedAppend
  <2>3. CASE m = 0
    BY <1>3, <2>2, <2>3
  <2>4. CASE m # 0
    BY <1>1, <1>3, <1>5, <2>2, <2>4, MatchedAppend
  <2> QED
    BY <2>2, <2>3, <2>4
<1>7. L \in Nat /\ K = L + (IF lot.buy = b THEN lot.left - m ELSE 0)
  <2>2. L \in Nat
    BY <1>1, LeftOfAppend
  <2>3. CASE m = lot.left
    BY <1>1, <1>2, <1>3, <2>2, <2>3
  <2>4. CASE m # lot.left
    BY <1>1, <1>3, <1>4, <2>2, <2>4, LeftOfAppend
  <2> QED
    BY <2>2, <2>3, <2>4
<1> HIDE DEF M, N, L, K
<1>8. /\ u # t.created_at => N = M
      /\ u = t.created_at => N + K = M + L + (IF lot.buy = b THEN lot.left ELSE 0)
  BY <1>1, <1>2, <1>6, <1>7
<1> QED
  BY <1>8 DEF M, N, L, K, r

\* A longer sequence has the prefixes of the shorter one.
LEMMA PrefixOfAppend ==
  ASSUME NEW S, NEW q \in Seq(S), NEW e \in S
  PROVE  /\ \A j \in 0 .. Len(q) : Prefix(Append(q, e), j) = Prefix(q, j)
         /\ Prefix(Append(q, e), Len(q) + 1) = Append(q, e)
         /\ Len(Append(q, e)) = Len(q) + 1
<1> DEFINE l == Append(q, e)
           N == Len(q)
<1>1. /\ N \in Nat /\ l \in Seq(S) /\ Len(l) = N + 1
      /\ \A i \in 1 .. N : l[i] = q[i]
  BY LenProperties, AppendProperties
<1>2. Prefix(l, Len(l)) = l
  <2> HIDE DEF l
  <2> QED
    BY <1>1, PrefixGrows
<1>3. ASSUME NEW j \in 0 .. N PROVE Prefix(l, j) = Prefix(q, j)
  <2>1. \A i \in 1 .. j : l[i] = q[i]
    BY <1>1
  <2> HIDE DEF l
  <2> QED
    BY <2>1 DEF Prefix
<1> HIDE DEF l
<1> QED
  BY <1>1, <1>2, <1>3 DEF l

\* The sum over the first n lots of q.
UpToLot(q, n) == OpenQuantity(Prefix(q, n))

\* It grows from lot to lot.
LEMMA UpToLotGrows ==
  ASSUME NEW q \in Seq(Lots)
  PROVE  /\ UpToLot(q, 0) = 0 /\ UpToLot(q, Len(q)) = OpenQuantity(q)
         /\ \A n \in 0 .. Len(q) : UpToLot(q, n) \in Nat
         /\ \A n \in 1 .. Len(q) :
              q[n] \in Lots /\ UpToLot(q, n) = UpToLot(q, n - 1) + q[n].left
<1> DEFINE one == [buy |-> 0, price |-> 0, left |-> 1]
<1>0. one \in Lots /\ <<>> \in Seq(Lots)
  BY DEF Lots
<1>1. /\ Prefix(q, 0) = <<>> /\ Prefix(q, Len(q)) = q
      /\ \A n \in 0 .. Len(q) : Prefix(q, n) \in Seq(Lots)
      /\ \A n \in 1 .. Len(q) : q[n] \in Lots /\ Prefix(q, n) = Append(Prefix(q, n - 1), q[n])
  BY PrefixGrows
<1> HIDE DEF one
<1>2. OpenQuantity(<<>>) = 0
  BY <1>0, QueueSums
<1>3. ASSUME NEW n \in 0 .. Len(q) PROVE UpToLot(q, n) \in Nat
  BY <1>0, <1>1, QueueSums DEF UpToLot
<1>4. ASSUME NEW n \in 1 .. Len(q)
      PROVE  UpToLot(q, n) = UpToLot(q, n - 1) + q[n].left
  <2> DEFINE p == Prefix(q, n - 1)
             x == q[n]
  <2>1. n - 1 \in 0 .. Len(q)
    BY LenProperties
  <2>2. p \in Seq(Lots) /\ x \in Lots /\ Prefix(q, n) = Append(p, x)
    BY <1>1, <2>1
  <2> HIDE DEF p, x
  <2>3. OpenQuantity(Append(p, x)) = OpenQuantity(p) + x.left
    BY <2>2, QueueSums
  <2> QED
    BY <2>2, <2>3 DEF UpToLot, p, x
<1> QED
  BY <1>1, <1>2, <1>3, <1>4 DEF UpToLot

\* queue is what is left of the first n lots of q when sale shares are asked of them:
\* d are gone, and those behind come as many shares earlier.  left is still to sell.
Shift(queue, q, n, sale, left, d) ==
  /\ d \in 0 .. n /\ Len(queue) = n - d
  /\ UpToLot(q, d) <= sale
  /\ left > 0 => d = n
  /\ UpToLot(q, n) + left = sale + OpenQuantity(queue)
  /\ \A j \in 1 .. n - d :
       queue[j].buy = q[d + j].buy /\ UpToLot(queue, j) + sale = UpToLot(q, d + j)

Shifted(queue, q, n, sale, left) == \E d : Shift(queue, q, n, sale, left, d)

\* One lot behind the others: while something is left to sell, it gives.
LEMMA LotShifts ==
  ASSUME NEW acc \in Matching, NEW q \in Seq(Lots), NEW n \in 1 .. Len(q), NEW t \in TradeRow,
         NEW sale \in Nat, Shifted(acc.queue, q, n - 1, sale, acc.left)
  PROVE  Shifted(MatchLot(acc, q[n], t).queue, q, n, sale, MatchLot(acc, q[n], t).left)
<1> DEFINE lot  == q[n]
           m    == Smaller(acc.left, lot.left)
           rest == [lot EXCEPT !.left = @ - m]
           r    == MatchLot(acc, lot, t)
           a    == acc.queue
           l    == acc.left
           x    == lot.left
           u    == UpToLot(q, n - 1)
           o    == OpenQuantity(a)
<1>1. PICK d : Shift(a, q, n - 1, sale, l, d)
  BY DEF Shifted
<1>2. /\ l \in Nat /\ a \in Seq(Lots) /\ lot \in Lots /\ x \in Nat \ {0}
      /\ n \in Nat /\ n - 1 \in Nat /\ n - 1 \in 0 .. Len(q) /\ n \in 0 .. Len(q)
      /\ Len(q) \in Nat /\ Len(a) \in Nat
  <2>1. lot \in Lots /\ Len(q) \in Nat
    BY LenProperties, ElementOfSeq
  <2>2. l \in Nat /\ a \in Seq(Lots)
    BY DEF Matching
  <2> HIDE DEF lot, a
  <2> QED
    BY <2>1, <2>2, LenProperties DEF Lots
<1>3. u \in Nat /\ UpToLot(q, n) = u + x
  BY <1>2, UpToLotGrows
<1>4. o \in Nat
  BY <1>2, QueueSums
<1>5. /\ m \in Nat /\ m = (IF l <= x THEN l ELSE x)
  <2> HIDE DEF l, x
  <2> QED
    BY <1>2 DEF Smaller, l, x
<1>6. /\ r.left = l - m
      /\ r.queue = IF m = x THEN a ELSE Append(a, rest)
  BY DEF MatchLot
<1>7. /\ m # x => rest \in Lots
      /\ rest.buy = lot.buy /\ rest.left = x - m
  <2>1. rest = [buy |-> lot.buy, price |-> lot.price, left |-> x - m]
    BY <1>2, PartOfLot
  <2>2. m # x => x - m \in Nat \ {0}
    BY <1>2, <1>5
  <2> HIDE DEF rest, m, x
  <2> QED
    BY <1>2, <2>1, <2>2 DEF Lots
<1>8. /\ d \in 0 .. n - 1 /\ Len(a) = (n - 1) - d
      /\ UpToLot(q, d) <= sale
      /\ l > 0 => d = n - 1
      /\ u + l = sale + o
      /\ \A j \in 1 .. (n - 1) - d :
           a[j].buy = q[d + j].buy /\ UpToLot(a, j) + sale = UpToLot(q, d + j)
  BY <1>1 DEF Shift
<1> HIDE DEF r, rest, m, a, l, x, u, o
\* Nothing of the lot is left: none was left of those before it either.
<1>9. CASE m = x
  <2>1. l > 0 /\ d = n - 1 /\ Len(a) = 0
    BY <1>2, <1>5, <1>8, <1>9
  <2>2. a = <<>>
    BY <1>2, <2>1, EmptySeq
  <2>3. o = 0
    BY <1>2, <2>2, QueueSums DEF o
  <2>4. UpToLot(q, n) <= sale /\ UpToLot(q, n) + (l - m) = sale + o
    BY <1>2, <1>3, <1>5, <1>8, <1>9, <2>3
  <2>5. n \in 0 .. n /\ n - n = 0 /\ 1 .. n - n = {}
    BY <1>2
  <2>6. Shift(a, q, n, sale, l - m, n)
    BY <2>1, <2>4, <2>5 DEF Shift, o
  <2> QED
    BY <1>6, <1>9, <2>6 DEF Shifted, r, lot
\* It stays, in part or as it is.
<1>10. CASE m # x
  <2> DEFINE b == Append(a, rest)
  <2>1. m = l /\ l < x
    BY <1>2, <1>5, <1>10
  <2>2. rest \in Lots
    BY <1>7, <1>10
  <2>3. /\ Len(b) = n - d /\ OpenQuantity(b) = o + (x - l)
        /\ \A j \in 0 .. (n - 1) - d : UpToLot(b, j) = UpToLot(a, j)
        /\ UpToLot(b, n - d) = OpenQuantity(b)
        /\ b[n - d] = rest
        /\ \A j \in 1 .. (n - 1) - d : b[j] = a[j]
    <3>1. /\ \A j \in 0 .. Len(a) : Prefix(b, j) = Prefix(a, j)
          /\ Prefix(b, Len(a) + 1) = b /\ Len(b) = Len(a) + 1
      BY <1>2, <2>2, PrefixOfAppend
    <3>2. b[Len(a) + 1] = rest /\ \A j \in 1 .. Len(a) : b[j] = a[j]
      BY <1>2, <2>2, AppendProperties
    <3>3. OpenQuantity(b) = o + (x - l)
      BY <1>2, <1>7, <2>1, <2>2, QueueSums DEF o
    <3>4. Len(a) + 1 = n - d /\ Len(a) = (n - 1) - d
      BY <1>2, <1>8
    <3> HIDE DEF b
    <3> QED
      BY <3>1, <3>2, <3>3, <3>4 DEF UpToLot
  <2> HIDE DEF b
  <2>4. d \in 0 .. n /\ d \in Nat
    BY <1>2, <1>8
  <2>5. UpToLot(q, n) + (l - m) = sale + OpenQuantity(b)
    BY <1>2, <1>3, <1>4, <1>8, <2>1, <2>3
  <2>6. ASSUME NEW j \in 1 .. n - d
        PROVE  b[j].buy = q[d + j].buy /\ UpToLot(b, j) + sale = UpToLot(q, d + j)
    <3>1. CASE j = n - d
      <4>1. d + j = n
        BY <1>2, <2>4, <3>1
      <4>2. b[j].buy = q[d + j].buy
        BY <1>7, <2>3, <3>1, <4>1 DEF lot
      <4>3. UpToLot(b, j) + sale = UpToLot(q, d + j)
        <5>1. UpToLot(b, j) = o + (x - l) /\ UpToLot(q, d + j) = u + x
          BY <1>3, <2>3, <3>1, <4>1
        <5>2. u \in Nat /\ l \in Nat /\ o \in Nat /\ x \in Nat /\ u + l = sale + o
          BY <1>2, <1>3, <1>4, <1>8
        <5>3. (o + (x - l)) + sale = u + x
          BY <5>2
        <5> QED
          BY <5>1, <5>3
      <4> QED
        BY <4>2, <4>3
    <3>2. CASE j # n - d
      <4>1. j \in 1 .. (n - 1) - d /\ j \in 0 .. (n - 1) - d
        BY <1>2, <2>4, <3>2
      <4> QED
        BY <1>8, <2>3, <4>1
    <3> QED
      BY <3>1, <3>2
  <2>7. ~(l - m > 0)
    BY <1>2, <2>1
  <2>8. Shift(b, q, n, sale, l - m, d)
    BY <1>8, <2>3, <2>4, <2>5, <2>6, <2>7 DEF Shift
  <2> QED
    BY <1>6, <1>10, <2>8 DEF Shifted, r, lot, b
<1> QED
  BY <1>9, <1>10

\* A sale takes its shares from the front of the queue.
LEMMA SaleShifts ==
  ASSUME NEW state \in FifoState, NEW t \in TradeRow
  PROVE  LET r == MatchSale(state, t)
         IN  Shifted(r.queue, state.queue, Len(state.queue), t.quantity, r.left)
<1> DEFINE q == state.queue
           N == Len(q)
           sale == t.quantity
<1>1. q \in Seq(Lots) /\ N \in Nat /\ sale \in Nat
  BY LenProperties DEF FifoState, TradeRow
<1>2. PICK g : SaleRun(g, state, q, t) /\ MatchSale(state, t) = g[N]
  BY <1>1, MatchSaleRuns
<1>3. /\ \A n \in 0 .. N : g[n] \in Matching
      /\ g[0] = [left |-> sale, queue |-> <<>>, chunks |-> state.chunks]
      /\ \A n \in 1 .. N : g[n] = MatchLot(g[n - 1], q[n], t)
  BY <1>2 DEF SaleRun
<1> HIDE DEF q, N, sale
<1> DEFINE P == {n \in 0 .. N : Shifted(g[n].queue, q, n, sale, g[n].left)}
<1>4. 0 \in P
  <2>1. UpToLot(q, 0) = 0 /\ Len(<<>>) = 0 /\ 1 .. 0 - 0 = {} /\ 0 \in 0 .. 0 /\ 0 \in 0 .. N
    BY <1>1, UpToLotGrows
  <2>2. OpenQuantity(<<>>) = 0
    <3>1. <<>> \in Seq(Lots) /\ [buy |-> 0, price |-> 0, left |-> 1] \in Lots
      BY DEF Lots
    <3> QED
      BY <3>1, QueueSums
  <2>3. Shift(<<>>, q, 0, sale, sale, 0)
    BY <1>1, <2>1, <2>2 DEF Shift
  <2>4. Shifted(g[0].queue, q, 0, sale, g[0].left)
    BY <1>3, <2>3 DEF Shifted
  <2> QED
    BY <2>1, <2>4
<1>5. ASSUME NEW n \in 1 .. N, n - 1 \in P PROVE n \in P
  <2>1. Shifted(g[n - 1].queue, q, n - 1, sale, g[n - 1].left)
    BY <1>5
  <2>2. n - 1 \in 0 .. N /\ n \in 0 .. N /\ n \in 1 .. Len(q)
    BY <1>1 DEF N
  <2>3. g[n - 1] \in Matching /\ g[n] = MatchLot(g[n - 1], q[n], t)
    BY <1>3, <2>2
  <2>4. Shifted(g[n].queue, q, n, sale, g[n].left)
    BY <1>1, <2>1, <2>2, <2>3, LotShifts
  <2> QED
    BY <2>2, <2>4
<1>6. N \in P
  <2> HIDE DEF P
  <2>1. \A n \in 0 .. N : n \in P
    BY <1>1, <1>4, <1>5, Upwards
  <2> QED
    BY <1>1, <2>1
<1> QED
  BY <1>2, <1>6 DEF q, N, sale

\* And gives each share to a chunk of its lot.
LEMMA SaleTakes ==
  ASSUME NEW state \in FifoState, NEW t \in TradeRow, NEW b, NEW u
  PROVE  LET r == MatchSale(state, t)
         IN  /\ u # t.created_at => Matched(r.chunks, b, u) = Matched(state.chunks, b, u)
             /\ u = t.created_at =>
                  Matched(r.chunks, b, u) + LeftOf(r.queue, b)
                    = Matched(state.chunks, b, u) + LeftOf(state.queue, b)
<1> DEFINE q == state.queue
           N == Len(q)
           k == state.chunks
           x == t.created_at
<1>1. q \in Seq(Lots) /\ N \in Nat /\ k \in Seq(Chunks)
  BY LenProperties DEF FifoState
<1>2. PICK g : SaleRun(g, state, q, t) /\ MatchSale(state, t) = g[N]
  BY <1>1, MatchSaleRuns
<1>3. /\ \A n \in 0 .. N : g[n] \in Matching
      /\ g[0] = [left |-> t.quantity, queue |-> <<>>, chunks |-> k]
      /\ \A n \in 1 .. N : g[n] = MatchLot(g[n - 1], q[n], t)
  BY <1>2 DEF SaleRun
<1>4. /\ \A n \in 1 .. N : q[n] \in Lots
      /\ Prefix(q, 0) = <<>> /\ Prefix(q, N) = q
      /\ \A n \in 0 .. N : Prefix(q, n) \in Seq(Lots)
      /\ \A n \in 1 .. N : Prefix(q, n) = Append(Prefix(q, n - 1), q[n])
  <2> HIDE DEF q
  <2> QED
    BY <1>1, PrefixGrows
<1>5. <<>> \in Seq(Lots) /\ [buy |-> 0, price |-> 0, left |-> 1] \in Lots
      /\ [buy |-> 0, sell |-> 0, quantity |-> 1, buy_price |-> 0, sell_price |-> 0] \in Chunks
  BY DEF Lots, Chunks
<1>6. /\ LeftOf(<<>>, b) = 0 /\ Matched(k, b, u) \in Nat
      /\ \A n \in 0 .. N : LeftOf(Prefix(q, n), b) \in Nat
  BY <1>1, <1>4, <1>5, LeftOfAppend, MatchedAppend
<1> HIDE DEF q, k, N, x
<1> DEFINE M(n) == Matched(g[n].chunks, b, u)
           L(n) == LeftOf(g[n].queue, b)
           p(n) == LeftOf(Prefix(q, n), b)
           o    == Matched(k, b, u)
           P == {n \in 0 .. N : /\ u # x => M(n) = o
                                /\ u = x => M(n) + L(n) = o + p(n)}
<1>7. 0 \in P
  BY <1>1, <1>3, <1>4, <1>6
<1>8. ASSUME NEW n \in 1 .. N, n - 1 \in P PROVE n \in P
  <2>2. n - 1 \in 0 .. N /\ n \in 0 .. N
    BY <1>1
  <2> DEFINE lot == q[n]
             y   == IF lot.buy = b THEN lot.left ELSE 0
  <2>3. g[n - 1] \in Matching /\ g[n] = MatchLot(g[n - 1], lot, t) /\ lot \in Lots
    BY <1>3, <1>4, <2>2
  <2>4. /\ u # x => M(n) = M(n - 1)
        /\ u = x => M(n) + L(n) = M(n - 1) + L(n - 1) + y
    <3> HIDE DEF lot
    <3> QED
      BY <2>3, LotGives DEF x
  <2>5. p(n) = p(n - 1) + y /\ p(n - 1) \in Nat
    <3> DEFINE f == Prefix(q, n - 1)
    <3>1. f \in Seq(Lots) /\ Prefix(q, n) = Append(f, lot)
      BY <1>4, <2>2
    <3> HIDE DEF f, lot
    <3>2. LeftOf(Append(f, lot), b) = LeftOf(f, b) + y /\ LeftOf(f, b) \in Nat
      BY <2>3, <3>1, LeftOfAppend
    <3> QED
      BY <3>1, <3>2 DEF f
  <2>6. y \in Nat
    <3> HIDE DEF lot
    <3> QED
      BY <2>3 DEF Lots
  <2>7. /\ u # x => M(n - 1) = o
        /\ u = x => M(n - 1) + L(n - 1) = o + p(n - 1)
    BY <1>8
  <2> HIDE DEF M, L, p, o, y
  <2>8. /\ u # x => M(n) = o
        /\ u = x => M(n) + L(n) = o + p(n)
    <3>1. CASE u # x
      BY <2>4, <2>7, <3>1
    <3>2. CASE u = x
      <4>1. M(n) + L(n) = (o + p(n - 1)) + y
        BY <2>4, <2>7, <3>2
      <4>2. o \in Nat
        BY <1>6 DEF o
      <4> QED
        BY <2>5, <2>6, <3>2, <4>1, <4>2
    <3> QED
      BY <3>1, <3>2
  <2> QED
    BY <2>2, <2>8
<1>9. N \in P
  <2> HIDE DEF P
  <2>1. \A n \in 0 .. N : n \in P
    BY <1>1, <1>7, <1>8, Upwards
  <2> QED
    BY <1>1, <2>1
<1> QED
  BY <1>2, <1>4, <1>9 DEF q, N, k, x

\* More lots, more shares.
LEMMA UpToLotMonotone ==
  ASSUME NEW q \in Seq(Lots), NEW d \in 0 .. Len(q), NEW i \in 0 .. d
  PROVE  UpToLot(q, i) <= UpToLot(q, d)
<1> DEFINE u(n) == UpToLot(q, n)
           P == {n \in 0 .. d : n >= i => u(i) <= u(n)}
<1>1. /\ Len(q) \in Nat /\ d \in Nat /\ i \in Nat
      /\ \A n \in 0 .. d : u(n) \in Nat
      /\ \A n \in 1 .. d : q[n] \in Lots /\ u(n) = u(n - 1) + q[n].left
  BY LenProperties, UpToLotGrows
<1>2. \A n \in 1 .. d : q[n].left \in Nat /\ n - 1 \in 0 .. d /\ n \in 0 .. d
  BY <1>1 DEF Lots
<1>3. ASSUME NEW n \in 1 .. d PROVE u(n - 1) <= u(n)
  <2>1. u(n) = u(n - 1) + q[n].left /\ q[n].left \in Nat /\ u(n - 1) \in Nat
    BY <1>1, <1>2
  <2> HIDE DEF u
  <2> QED
    BY <2>1
<1> HIDE DEF u
<1>4. 0 \in P
  BY <1>1
<1>5. ASSUME NEW n \in 1 .. d, n - 1 \in P PROVE n \in P
  <2>1. CASE i = n
    BY <1>1, <1>2, <2>1
  <2>2. CASE i < n
    <3>1. u(i) <= u(n - 1)
      BY <1>1, <1>5, <2>2
    <3>2. u(i) \in Nat /\ u(n - 1) \in Nat /\ u(n) \in Nat /\ u(n - 1) <= u(n)
      BY <1>1, <1>2, <1>3
    <3> QED
      BY <1>2, <3>1, <3>2
  <2>3. CASE i > n
    BY <1>1, <1>2, <2>3
  <2> QED
    BY <1>1, <2>1, <2>2, <2>3
<1>6. d \in P
  <2> HIDE DEF P
  <2>1. \A n \in 0 .. d : n \in P
    BY <1>1, <1>4, <1>5, Upwards
  <2> QED
    BY <1>1, <2>1
<1> QED
  BY <1>1, <1>6 DEF u

\* The shares of the trades of one kind, numbered through: trade at has those after
\* number from, up to number to.
Numbered(log, kind) ==
  {[at |-> log[k].created_at, from |-> Before(log, kind, log[k].created_at),
    to |-> Before(log, kind, log[k].created_at) + log[k].quantity] :
     k \in {i \in DOMAIN log : log[i].trade_type = kind}}

Numbers == [at : Nat, from : Nat, to : Nat]

DatedBefore(log, time) == \A i \in DOMAIN log : log[i].created_at < time

\* The lots and chunks of a log in the numbers of shares.  sold shares are sold: lots
\* bought up to there are gone, and the queue begins there and has the others in turn.
LotsFollow(bought, queue, sold) ==
  \A b \in bought :
    /\ \A i \in 1 .. Len(queue) :
         queue[i].buy = b.at =>
           /\ b.to = sold + UpToLot(queue, i)
           /\ Larger(b.from, sold) = sold + UpToLot(queue, i - 1)
    /\ (\A i \in 1 .. Len(queue) : queue[i].buy # b.at) => b.to <= sold

Overlap(b, t) == Larger(0, Smaller(b.to, t.to) - Larger(b.from, t.from))

ChunksFollow(bought, sold, chunks) ==
  \A b \in bought, t \in sold : Matched(chunks, b.at, t.at) = Overlap(b, t)

\* Lots are of different trades, and these and those of the chunks are in the past.
LotsDated(queue, time) ==
  /\ \A i \in 1 .. Len(queue) : queue[i].buy < time
  /\ \A i, j \in 1 .. Len(queue) : queue[i].buy = queue[j].buy => i = j

ChunksDated(chunks, time) ==
  \A b, u \in Nat : b >= time \/ u >= time => Matched(chunks, b, u) = 0

MatchingFollows(log, state, time) ==
  /\ DatedBefore(log, time)
  /\ LotsDated(state.queue, time)
  /\ ChunksDated(state.chunks, time)
  /\ Before(log, "BUY", time) = Before(log, "SELL", time) + OpenQuantity(state.queue)
  /\ \A t \in Numbered(log, "SELL") : t.to <= Before(log, "SELL", time)
  /\ LotsFollow(Numbered(log, "BUY"), state.queue, Before(log, "SELL", time))
  /\ ChunksFollow(Numbered(log, "BUY"), Numbered(log, "SELL"), state.chunks)

\* A trade more has the next numbers.
LEMMA NumberedAppend ==
  ASSUME NEW log \in Seq(TradeRow), NEW t \in TradeRow, DatedBefore(log, t.created_at),
         NEW kind
  PROVE  LET T == t.created_at
             n == Before(log, kind, T)
         IN  /\ Numbered(log, kind) \subseteq Numbers
             /\ \A b \in Numbered(log, kind) : b.at < T
             /\ n \in Nat
             /\ Before(Append(log, t), kind, T + 1)
                  = n + (IF t.trade_type = kind THEN t.quantity ELSE 0)
             /\ Numbered(Append(log, t), kind)
                  = Numbered(log, kind)
                      \cup (IF t.trade_type = kind
                            THEN {[at |-> T, from |-> n, to |-> n + t.quantity]} ELSE {})
             /\ DatedBefore(Append(log, t), T + 1)
<1> DEFINE T == t.created_at
           n == Before(log, kind, T)
           l == Append(log, t)
           N == Len(log)
           B(k) == Before(log, kind, k)
           C(k) == Before(l, kind, k)
           num(f, r) == [at |-> r.created_at, from |-> f, to |-> f + r.quantity]
<1>1. /\ N \in Nat /\ DOMAIN log = 1 .. N /\ l \in Seq(TradeRow) /\ DOMAIN l = 1 .. N + 1
      /\ l[N + 1] = t /\ \A i \in 1 .. N : l[i] = log[i] /\ log[i] \in TradeRow
  BY LenProperties, AppendProperties, ElementOfSeq
<1>2. /\ T \in Nat /\ t.quantity \in Nat
      /\ \A i \in 1 .. N : log[i].created_at \in Nat /\ log[i].quantity \in Nat
  BY <1>1 DEF TradeRow
<1>3. \A i \in 1 .. N : log[i].created_at < T
  BY <1>1 DEF DatedBefore
<1>4. ASSUME NEW k
      PROVE  B(k) \in Nat
             /\ C(k) = B(k) + (IF t.trade_type = kind /\ T < k THEN t.quantity ELSE 0)
  BY BeforeAppend
<1>5. B(T + 1) = n
  <2>1. T + 1 \in Nat /\ T <= T + 1
    BY <1>2
  <2>2. \A i \in DOMAIN log : log[i].created_at < T
    BY DEF DatedBefore
  <2> HIDE DEF T
  <2> QED
    BY <1>2, <2>1, <2>2, BeforeEnd DEF B, n
<1>6. C(T + 1) = n + (IF t.trade_type = kind THEN t.quantity ELSE 0) /\ n \in Nat
  BY <1>2, <1>4, <1>5
<1>7. DatedBefore(l, T + 1)
  <2> HIDE DEF l
  <2> QED
    BY <1>1, <1>2, <1>3 DEF DatedBefore
<1>8. \A i \in 1 .. N : C(log[i].created_at) = B(log[i].created_at)
  <2> SUFFICES ASSUME NEW i \in 1 .. N
               PROVE  C(log[i].created_at) = B(log[i].created_at)
    OBVIOUS
  <2>1. ~(T < log[i].created_at)
    BY <1>2, <1>3
  <2> HIDE DEF B, C, T
  <2> QED
    BY <1>4, <2>1
<1>9. C(T) = n
  <2>1. ~(T < T)
    BY <1>2
  <2> HIDE DEF C, T
  <2> QED
    BY <1>4, <2>1 DEF B
<1> HIDE DEF l
<1>10. Numbered(log, kind)
         = {num(B(log[k].created_at), log[k]) : k \in {i \in 1 .. N : log[i].trade_type = kind}}
  BY <1>1 DEF Numbered
<1>11. Numbered(l, kind)
         = {num(C(l[k].created_at), l[k]) : k \in {i \in 1 .. N + 1 : l[i].trade_type = kind}}
  BY <1>1 DEF Numbered
<1> HIDE DEF B, C
<1>12. Numbered(log, kind) \subseteq Numbers
  BY <1>2, <1>4, <1>10 DEF Numbers
<1>13. \A b \in Numbered(log, kind) : b.at < T
  BY <1>3, <1>10
<1>14. ASSUME NEW b \in Numbered(log, kind) PROVE b \in Numbered(l, kind)
  <2>1. PICK k \in 1 .. N : log[k].trade_type = kind /\ b = num(B(log[k].created_at), log[k])
    BY <1>10
  <2>2. k \in 1 .. N + 1 /\ l[k] = log[k] /\ C(log[k].created_at) = B(log[k].created_at)
    BY <1>1, <1>8
  <2> QED
    BY <1>11, <2>1, <2>2
<1>15. t.trade_type = kind => num(n, t) \in Numbered(l, kind)
  <2>1. N + 1 \in 1 .. N + 1
    BY <1>1
  <2> QED
    BY <1>1, <1>9, <1>11, <2>1
<1>16. ASSUME NEW b \in Numbered(l, kind)
       PROVE  b \in Numbered(log, kind) \/ (t.trade_type = kind /\ b = num(n, t))
  <2>1. PICK k \in 1 .. N + 1 : l[k].trade_type = kind /\ b = num(C(l[k].created_at), l[k])
    BY <1>11
  <2>2. CASE k = N + 1
    BY <1>1, <1>9, <2>1, <2>2
  <2>3. CASE k # N + 1
    <3>1. k \in 1 .. N
      BY <1>1, <2>3
    <3>2. l[k] = log[k] /\ C(log[k].created_at) = B(log[k].created_at)
      BY <1>1, <1>8, <3>1
    <3> QED
      BY <1>10, <2>1, <3>1, <3>2
  <2> QED
    BY <2>2, <2>3
<1>17. Numbered(l, kind)
         = Numbered(log, kind) \cup (IF t.trade_type = kind THEN {num(n, t)} ELSE {})
  <2> HIDE DEF num, n
  <2> QED
    BY <1>14, <1>15, <1>16
<1> QED
  BY <1>6, <1>7, <1>12, <1>13, <1>17 DEF l, C

\* Left of a lot are its shares whose numbers are not sold yet.
LEMMA LeftIsUnsold ==
  ASSUME NEW bought \in SUBSET Numbers, NEW queue \in Seq(Lots), NEW sold \in Nat, NEW time,
         LotsDated(queue, time), LotsFollow(bought, queue, sold), NEW b \in bought
  PROVE  LeftOf(queue, b.at) = Larger(0, b.to - Larger(b.from, sold))
<1> DEFINE N == Len(queue)
           f == [i \in DOMAIN queue |-> IF queue[i].buy = b.at THEN queue[i].left ELSE 0]
           z == [i \in DOMAIN queue |-> 0]
           from == b.from
           to == b.to
<1>1. /\ N \in Nat /\ DOMAIN queue = 1 .. N /\ from \in Nat /\ to \in Nat
      /\ \A i \in 1 .. N : queue[i] \in Lots
  BY LenProperties, ElementOfSeq DEF Numbers
<1>2. \A i \in 1 .. N : queue[i].left \in Nat
  BY <1>1 DEF Lots
<1>3. CASE \E i \in 1 .. N : queue[i].buy = b.at
  <2>1. PICK i \in 1 .. N : queue[i].buy = b.at
    BY <1>3
  <2>2. \A j \in 1 .. N : j # i => queue[j].buy # b.at
    BY <2>1 DEF LotsDated
  <2>3. f \in [1 .. N -> Nat] /\ z \in [1 .. N -> Nat] /\ IsFiniteSet(1 .. N)
    <3>1. z \in [1 .. N -> Nat]
      BY <1>1
    <3>2. f \in [1 .. N -> Nat]
      BY <1>1, <1>2
    <3> HIDE DEF N, f, z
    <3>3. IsFiniteSet(1 .. N)
      BY <1>1, FS_Interval
    <3> QED
      BY <3>1, <3>2, <3>3
  <2>4. f[i] = queue[i].left /\ z[i] = 0 /\ \A j \in (1 .. N) \ {i} : f[j] = z[j]
    BY <1>1, <2>1, <2>2
  <2>5. Total(z) = 0
    BY TotalOfZeros
  <2> DEFINE u == UpToLot(queue, i)
             v == UpToLot(queue, i - 1)
             x == queue[i].left
  <2>6. to = sold + u /\ Larger(from, sold) = sold + v
    BY <2>1 DEF LotsFollow
  <2>7. v \in Nat /\ x \in Nat /\ u = v + x
    <3>1. i - 1 \in 0 .. N
      BY <1>1
    <3> QED
      BY <1>2, <3>1, UpToLotGrows
  <2> HIDE DEF f, z, N, u, v, from, to
  <2>8. Total(f) = Total(z) - z[i] + f[i]
    <3> DEFINE D == 1 .. N
    <3>1. OnlyAt(D, i, z, f) /\ IsFiniteSet(D) /\ i \in D
      BY <2>3, <2>4 DEF OnlyAt
    <3> HIDE DEF D
    <3> QED
      BY <3>1, TotalMoves
  <2>9. Total(f) = x
    <3> HIDE DEF x
    <3> QED
      BY <2>4, <2>5, <2>7, <2>8 DEF x
  <2> HIDE DEF x
  <2>10. Larger(0, to - Larger(from, sold)) = x
    <3>1. to - Larger(from, sold) = x
      BY <2>6, <2>7
    <3> QED
      BY <2>7, <3>1 DEF Larger
  <2> QED
    BY <2>9, <2>10 DEF LeftOf, f, from, to
<1>4. CASE \A i \in 1 .. N : queue[i].buy # b.at
  <2>1. \A i \in DOMAIN f : f[i] = 0
    BY <1>1, <1>4
  <2> HIDE DEF f
  <2>2. Total(f) = 0
    BY <2>1, TotalOfZeros
  <2>3. to <= sold
    BY <1>4 DEF LotsFollow
  <2> HIDE DEF from, to
  <2>4. Larger(0, to - Larger(from, sold)) = 0
    BY <1>1, <2>3 DEF Larger
  <2> QED
    BY <2>2, <2>4 DEF LeftOf, f, from, to
<1> QED
  BY <1>3, <1>4

\* A sale of the next shares takes them from the lots they were bought in.
LEMMA SaleFollowsLots ==
  ASSUME NEW bought \in SUBSET Numbers, NEW q \in Seq(Lots), NEW r \in Seq(Lots),
         NEW sold \in Nat, NEW sale \in Nat, LotsFollow(bought, q, sold),
         Shifted(r, q, Len(q), sale, 0)
  PROVE  LotsFollow(bought, r, sold + sale)
<1> DEFINE N == Len(q)
           U(j) == UpToLot(q, j)
           V(j) == UpToLot(r, j)
<1>1. PICK d : Shift(r, q, N, sale, 0, d)
  BY DEF Shifted
<1>2. /\ N \in Nat /\ d \in 0 .. N /\ d \in Nat /\ Len(r) = N - d
      /\ \A j \in 0 .. N : U(j) \in Nat
      /\ \A j \in 0 .. N - d : V(j) \in Nat
      /\ V(0) = 0
      /\ U(d) <= sale
      /\ \A j \in 1 .. N - d : r[j].buy = q[d + j].buy /\ V(j) + sale = U(d + j)
  <2>1. d \in 0 .. N /\ Len(r) = N - d /\ N \in Nat
    BY <1>1, LenProperties DEF Shift
  <2>2. UpToLot(q, d) <= sale
        /\ \A j \in 1 .. N - d :
             r[j].buy = q[d + j].buy /\ UpToLot(r, j) + sale = UpToLot(q, d + j)
    BY <1>1 DEF Shift
  <2> QED
    BY <2>1, <2>2, UpToLotGrows
<1> SUFFICES ASSUME NEW b \in bought
             PROVE  /\ \A j \in 1 .. Len(r) :
                         r[j].buy = b.at =>
                           /\ b.to = (sold + sale) + V(j)
                           /\ Larger(b.from, sold + sale) = (sold + sale) + V(j - 1)
                    /\ (\A j \in 1 .. Len(r) : r[j].buy # b.at) => b.to <= sold + sale
  BY DEF LotsFollow
<1> DEFINE from == b.from
           to == b.to
<1>3. /\ from \in Nat /\ to \in Nat
      /\ \A i \in 1 .. N : q[i].buy = b.at =>
           to = sold + U(i) /\ Larger(from, sold) = sold + U(i - 1)
      /\ (\A i \in 1 .. N : q[i].buy # b.at) => to <= sold
  BY DEF LotsFollow, Numbers
<1>4. \A i \in 0 .. d : U(i) <= U(d)
  BY <1>2, UpToLotMonotone
<1> HIDE DEF U, V, from, to, N
<1>5. ASSUME NEW j \in 1 .. Len(r), r[j].buy = b.at
      PROVE  to = (sold + sale) + V(j) /\ Larger(from, sold + sale) = (sold + sale) + V(j - 1)
  <2>1. /\ j \in 1 .. N - d /\ j \in Nat /\ d + j \in 1 .. N /\ d + j \in 0 .. N
        /\ j - 1 \in 0 .. N - d /\ j \in 0 .. N - d
    BY <1>2
  <2>2. q[d + j].buy = b.at
    BY <1>2, <1>5, <2>1
  <2>3. to = sold + U(d + j) /\ Larger(from, sold) = sold + U((d + j) - 1)
    BY <1>3, <2>1, <2>2
  <2>4. V(j) + sale = U(d + j) /\ V(j) \in Nat
    BY <1>2, <2>1
  <2> DEFINE v == V(j - 1)
             u == U((d + j) - 1)
             e == Larger(from, sold)
  <2>5. v \in Nat /\ u \in Nat
    <3>1. (d + j) - 1 \in 0 .. N
      BY <1>2, <2>1
    <3> QED
      BY <1>2, <2>1, <3>1
  <2>6. (u <= sale /\ v = 0) \/ v + sale = u
    <3>1. CASE j = 1
      <4>1. (d + j) - 1 = d /\ j - 1 = 0
        BY <1>2, <3>1
      <4> QED
        BY <1>2, <4>1
    <3>2. CASE j # 1
      <4>1. j - 1 \in 1 .. N - d /\ d + (j - 1) = (d + j) - 1
        BY <1>2, <2>1, <3>2
      <4> QED
        BY <1>2, <4>1
    <3> QED
      BY <3>1, <3>2
  <2>7. Larger(from, sold) = sold + u
    BY <2>3
  <2> HIDE DEF v, u
  <2>8. Larger(from, sold + sale) = (sold + sale) + v
    BY <1>3, <2>5, <2>6, <2>7 DEF Larger
  <2>9. to = (sold + sale) + V(j)
    <3> DEFINE y == V(j)
               x == U(d + j)
    <3>1. y \in Nat /\ y + sale = x /\ to = sold + x
      BY <2>3, <2>4
    <3> HIDE DEF y, x
    <3>2. to = (sold + sale) + y
      BY <3>1
    <3> QED
      BY <3>2 DEF y
  <2> QED
    BY <2>8, <2>9 DEF v
<1>6. ASSUME \A j \in 1 .. Len(r) : r[j].buy # b.at PROVE to <= sold + sale
  <2>1. CASE \A i \in 1 .. N : q[i].buy # b.at
    BY <1>3, <2>1
  <2>2. CASE \E i \in 1 .. N : q[i].buy = b.at
    <3>1. PICK i \in 1 .. N : q[i].buy = b.at
      BY <2>2
    <3>2. i <= d
      <4> SUFFICES ASSUME i > d PROVE FALSE
        BY <1>2
      <4>1. i - d \in 1 .. N - d /\ d + (i - d) = i
        BY <1>2
      <4> QED
        BY <1>2, <1>6, <3>1, <4>1
    <3> DEFINE x == U(i)
               y == U(d)
    <3>3. x \in Nat /\ y \in Nat /\ x <= y /\ y <= sale /\ to = sold + x
      <4>1. i \in 0 .. d /\ i \in 0 .. N
        BY <1>2, <3>2
      <4> QED
        BY <1>2, <1>3, <1>4, <3>1, <4>1
    <3> HIDE DEF x, y
    <3> QED
      BY <3>3
  <2> QED
    BY <2>1, <2>2
<1> QED
  BY <1>5, <1>6 DEF from, to

\* Nothing is left of lots of the future.
LEMMA LeftOfLater ==
  ASSUME NEW queue \in Seq(Lots), NEW time \in Nat, LotsDated(queue, time),
         NEW b \in Nat, b >= time
  PROVE  LeftOf(queue, b) = 0
<1> DEFINE f == [i \in DOMAIN queue |-> IF queue[i].buy = b THEN queue[i].left ELSE 0]
<1>1. \A i \in DOMAIN queue : queue[i] \in Lots /\ queue[i].buy < time
  BY LenProperties, ElementOfSeq DEF LotsDated
<1>2. \A i \in DOMAIN queue : queue[i].buy # b
  <2>1. \A i \in DOMAIN queue : queue[i].buy \in Nat
    BY <1>1 DEF Lots
  <2> QED
    BY <1>1, <2>1
<1>3. \A i \in DOMAIN f : f[i] = 0
  BY <1>2
<1> HIDE DEF f
<1>4. Total(f) = 0
  BY <1>3, TotalOfZeros
<1> QED
  BY <1>4 DEF LeftOf, f

\* What the next sale takes of a lot are the shares the two have in common.
LEMMA UnsoldDiffers ==
  ASSUME NEW from \in Nat, NEW to \in Nat, NEW sold \in Nat, NEW next \in Nat, sold <= next
  PROVE  Larger(0, to - Larger(from, sold))
           = Larger(0, to - Larger(from, next))
               + Larger(0, Smaller(to, next) - Larger(from, sold))
BY DEF Larger, Smaller

\* Time that passes without a trade.
LEMMA TimeFollows ==
  ASSUME NEW log \in Seq(TradeRow), NEW state \in FifoState, NEW T \in Nat,
         MatchingFollows(log, state, T)
  PROVE  MatchingFollows(log, state, T + 1)
<1>1. DatedBefore(log, T) /\ T + 1 \in Nat /\ T <= T + 1
  BY DEF MatchingFollows
<1>2. DatedBefore(log, T + 1)
  <2>1. \A i \in DOMAIN log : log[i] \in TradeRow
    BY LenProperties, ElementOfSeq
  <2>2. \A i \in DOMAIN log : log[i].created_at \in Nat
    BY <2>1 DEF TradeRow
  <2> QED
    BY <1>1, <2>2 DEF DatedBefore
<1>3. \A i \in DOMAIN log : log[i].created_at < T
  BY <1>1 DEF DatedBefore
<1>4. Before(log, "BUY", T + 1) = Before(log, "BUY", T)
      /\ Before(log, "SELL", T + 1) = Before(log, "SELL", T)
  BY <1>1, <1>3, BeforeEnd
<1>5. LotsDated(state.queue, T + 1)
  <2>1. state.queue \in Seq(Lots)
    BY DEF FifoState
  <2> DEFINE q == state.queue
  <2> HIDE DEF q
  <2>2. q \in Seq(Lots) /\ LotsDated(q, T)
    BY <2>1 DEF MatchingFollows, q
  <2>3. \A i \in 1 .. Len(q) : q[i] \in Lots
    BY <2>2, LenProperties, ElementOfSeq
  <2>4. \A i \in 1 .. Len(q) : q[i].buy \in Nat
    BY <2>3 DEF Lots
  <2>5. ASSUME NEW i \in 1 .. Len(q) PROVE q[i].buy < T + 1
    <3>1. q[i].buy \in Nat /\ q[i].buy < T
      BY <2>2, <2>4 DEF LotsDated
    <3> QED
      BY <3>1
  <2>6. LotsDated(q, T + 1)
    BY <2>2, <2>5 DEF LotsDated
  <2> QED
    BY <2>6 DEF q
<1>6. ChunksDated(state.chunks, T + 1)
  BY DEF MatchingFollows, ChunksDated
<1> QED
  BY <1>2, <1>4, <1>5, <1>6 DEF MatchingFollows

\* A purchase is a lot behind the others.
LEMMA BuyFollows ==
  ASSUME NEW log \in Seq(TradeRow), NEW state \in FifoState, NEW t \in TradeRow,
         t.trade_type = "BUY", MatchingFollows(log, state, t.created_at)
  PROVE  MatchingFollows(Append(log, t), ProcessTrade(state, t), t.created_at + 1)
<1> DEFINE T    == t.created_at
           l    == Append(log, t)
           q    == state.queue
           k    == state.chunks
           lot  == Lot(t)
           r    == Append(q, lot)
           N    == Len(q)
           x    == t.quantity
           bs   == Numbered(log, "BUY")
           ss   == Numbered(log, "SELL")
           sold == Before(log, "SELL", T)
           b0   == Before(log, "BUY", T)
           new  == [at |-> T, from |-> b0, to |-> b0 + x]
<1>1. /\ q \in Seq(Lots) /\ k \in Seq(Chunks) /\ N \in Nat /\ T \in Nat /\ x \in Nat \ {0}
      /\ lot \in Lots /\ lot.buy = T /\ lot.left = x
  <2>1. q \in Seq(Lots) /\ k \in Seq(Chunks)
    BY DEF FifoState
  <2>2. T \in Nat /\ x \in Nat \ {0} /\ lot \in Lots /\ lot.buy = T /\ lot.left = x
    BY DEF TradeRow, Lot, Lots
  <2> QED
    BY <2>1, <2>2, LenProperties
<1>2. ProcessTrade(state, t).queue = r /\ ProcessTrade(state, t).chunks = k
  BY DEF ProcessTrade, FifoState
<1>3. /\ DatedBefore(log, T) /\ LotsDated(q, T) /\ ChunksDated(k, T)
      /\ b0 = sold + OpenQuantity(q)
      /\ \A u \in ss : u.to <= sold
      /\ LotsFollow(bs, q, sold) /\ ChunksFollow(bs, ss, k)
  BY DEF MatchingFollows
<1>4. /\ bs \subseteq Numbers /\ ss \subseteq Numbers
      /\ \A b \in bs : b.at < T
      /\ b0 \in Nat /\ sold \in Nat
      /\ Numbered(l, "BUY") = bs \cup {new} /\ Numbered(l, "SELL") = ss
      /\ Before(l, "BUY", T + 1) = b0 + x /\ Before(l, "SELL", T + 1) = sold
      /\ DatedBefore(l, T + 1)
  <2>1. "BUY" # "SELL" /\ t.trade_type = "BUY" /\ x \in Nat
    BY <1>1
  <2>2. /\ bs \subseteq Numbers /\ (\A b \in bs : b.at < T) /\ b0 \in Nat
        /\ Numbered(l, "BUY") = bs \cup {new} /\ Before(l, "BUY", T + 1) = b0 + x
        /\ DatedBefore(l, T + 1)
    BY <1>3, NumberedAppend
  <2>3. /\ ss \subseteq Numbers /\ sold \in Nat
        /\ Numbered(l, "SELL") = ss \cup {} /\ Before(l, "SELL", T + 1) = sold + 0
    BY <1>3, <2>1, NumberedAppend
  <2> QED
    BY <2>2, <2>3
<1>5. /\ Len(r) = N + 1 /\ r[N + 1] = lot /\ r \in Seq(Lots)
      /\ \A i \in 1 .. N : r[i] = q[i] /\ r[i] \in Lots
      /\ \A i \in 0 .. N : UpToLot(r, i) = UpToLot(q, i)
      /\ UpToLot(q, N) = OpenQuantity(q) /\ OpenQuantity(q) \in Nat
      /\ UpToLot(r, N + 1) = OpenQuantity(q) + x
      /\ OpenQuantity(r) = OpenQuantity(q) + x
  <2> HIDE DEF q, lot
  <2>1. /\ \A j \in 0 .. N : Prefix(r, j) = Prefix(q, j)
        /\ Prefix(r, N + 1) = r
    BY <1>1, PrefixOfAppend
  <2>2. /\ Len(r) = N + 1 /\ r[N + 1] = lot /\ r \in Seq(Lots)
        /\ \A i \in 1 .. N : r[i] = q[i] /\ r[i] \in Lots
    BY <1>1, AppendProperties, ElementOfSeq
  <2>3. OpenQuantity(q) \in Nat /\ OpenQuantity(r) = OpenQuantity(q) + x
    BY <1>1, QueueSums
  <2>4. UpToLot(q, N) = OpenQuantity(q)
    BY <1>1, UpToLotGrows
  <2> QED
    BY <2>1, <2>2, <2>3, <2>4 DEF UpToLot
<1> HIDE DEF r, q, k, lot, l, T, N, bs, ss, sold, b0, x
<1>6. \A i \in 1 .. N : r[i].buy \in Nat /\ r[i].buy < T /\ r[i].buy = q[i].buy
  <2>1. \A i \in 1 .. N : r[i].buy = q[i].buy /\ r[i].buy \in Nat
    BY <1>5 DEF Lots
  <2> QED
    BY <1>3, <2>1 DEF LotsDated, N
<1>7. LotsDated(r, T + 1)
  <2>1. \A i \in 1 .. N + 1 : r[i].buy < T + 1
    BY <1>1, <1>5, <1>6
  <2>2. ASSUME NEW i \in 1 .. N + 1, NEW j \in 1 .. N + 1, r[i].buy = r[j].buy PROVE i = j
    <3>1. CASE i \in 1 .. N /\ j \in 1 .. N
      BY <1>3, <1>6, <2>2, <3>1 DEF LotsDated, N
    <3>2. CASE i = N + 1 /\ j \in 1 .. N
      BY <1>1, <1>5, <1>6, <2>2, <3>2
    <3>3. CASE i \in 1 .. N /\ j = N + 1
      BY <1>1, <1>5, <1>6, <2>2, <3>3
    <3> QED
      BY <1>1, <3>1, <3>2, <3>3
  <2> QED
    BY <1>5, <2>1, <2>2 DEF LotsDated
<1>8. ChunksDated(k, T + 1)
  BY <1>1, <1>3 DEF ChunksDated
<1>9. LotsFollow(bs \cup {new}, r, sold)
  <2>1. ASSUME NEW b \in bs
        PROVE  /\ \A i \in 1 .. N + 1 :
                    r[i].buy = b.at =>
                      /\ b.to = sold + UpToLot(r, i)
                      /\ Larger(b.from, sold) = sold + UpToLot(r, i - 1)
               /\ (\A i \in 1 .. N + 1 : r[i].buy # b.at) => b.to <= sold
    <3>1. b.at < T /\ b.at \in Nat
      BY <1>4 DEF Numbers
    <3>2. ASSUME NEW i \in 1 .. N + 1, r[i].buy = b.at
          PROVE  b.to = sold + UpToLot(r, i) /\ Larger(b.from, sold) = sold + UpToLot(r, i - 1)
      <4>1. i \in 1 .. N /\ i \in 0 .. N /\ i - 1 \in 0 .. N
        BY <1>1, <1>5, <3>1, <3>2
      <4>2. q[i].buy = b.at /\ UpToLot(r, i) = UpToLot(q, i)
            /\ UpToLot(r, i - 1) = UpToLot(q, i - 1)
        BY <1>5, <1>6, <3>2, <4>1
      <4> QED
        BY <1>3, <4>1, <4>2 DEF LotsFollow, N
    <3>3. ASSUME \A i \in 1 .. N + 1 : r[i].buy # b.at PROVE b.to <= sold
      <4>1. \A i \in 1 .. N : i \in 1 .. N + 1
        BY <1>1
      <4>2. \A i \in 1 .. N : q[i].buy # b.at
        BY <1>6, <3>3, <4>1
      <4> QED
        BY <1>3, <4>2 DEF LotsFollow, N
    <3> QED
      BY <3>2, <3>3
  <2>2. /\ \A i \in 1 .. N + 1 :
             r[i].buy = new.at =>
               /\ new.to = sold + UpToLot(r, i)
               /\ Larger(new.from, sold) = sold + UpToLot(r, i - 1)
        /\ (\A i \in 1 .. N + 1 : r[i].buy # new.at) => new.to <= sold
    <3>1. N + 1 \in 1 .. N + 1 /\ r[N + 1].buy = new.at /\ (N + 1) - 1 = N /\ N \in 0 .. N
      BY <1>1, <1>5
    <3>2. ASSUME NEW i \in 1 .. N + 1, r[i].buy = new.at PROVE i = N + 1
      BY <1>1, <1>6, <3>2
    <3> DEFINE o == OpenQuantity(q)
    <3>3. UpToLot(r, N + 1) = o + x /\ UpToLot(r, N) = o /\ o \in Nat
      BY <1>5, <3>1
    <3>4. b0 = sold + o /\ x \in Nat
      BY <1>1, <1>3
    <3> HIDE DEF o
    <3>5. b0 + x = sold + (o + x) /\ Larger(b0, sold) = sold + o
      BY <1>4, <3>3, <3>4 DEF Larger
    <3> QED
      BY <3>1, <3>2, <3>3, <3>5
  <2> HIDE DEF new
  <2> QED
    BY <1>5, <2>1, <2>2 DEF LotsFollow
<1>10. ChunksFollow(bs \cup {new}, ss, k)
  <2>1. ASSUME NEW u \in ss PROVE Matched(k, new.at, u.at) = Overlap(new, u)
    <3>1. u.at \in Nat /\ u.from \in Nat /\ u.to \in Nat /\ u.to <= sold
      BY <1>3, <1>4 DEF Numbers
    <3>2. Matched(k, T, u.at) = 0
      BY <1>1, <1>3, <3>1 DEF ChunksDated
    <3>3. OpenQuantity(q) \in Nat /\ x \in Nat
      BY <1>1, <1>5
    <3>4. Overlap(new, u) = 0
      BY <1>3, <1>4, <3>1, <3>3 DEF Overlap, Larger, Smaller
    <3> QED
      BY <3>2, <3>4
  <2> HIDE DEF new
  <2> QED
    BY <1>3, <2>1 DEF ChunksFollow
<1>11. b0 + x = sold + OpenQuantity(r)
  BY <1>1, <1>3, <1>4, <1>5
<1> HIDE DEF new
<1> QED
  BY <1>2, <1>3, <1>4, <1>7, <1>8, <1>9, <1>10, <1>11 DEF MatchingFollows, T, l, r, q, k, lot

\* A sale that finds its shares takes the next ones.
LEMMA SaleFollows ==
  ASSUME NEW log \in Seq(TradeRow), NEW state \in FifoState, NEW t \in TradeRow,
         t.trade_type = "SELL", MatchingFollows(log, state, t.created_at),
         MatchSale(state, t).left = 0
  PROVE  MatchingFollows(Append(log, t), ProcessTrade(state, t), t.created_at + 1)
<1> DEFINE T    == t.created_at
           l    == Append(log, t)
           q    == state.queue
           k    == state.chunks
           m    == MatchSale(state, t)
           r    == m.queue
           c    == m.chunks
           N    == Len(q)
           x    == t.quantity
           bs   == Numbered(log, "BUY")
           ss   == Numbered(log, "SELL")
           sold == Before(log, "SELL", T)
           b0   == Before(log, "BUY", T)
           new  == [at |-> T, from |-> sold, to |-> sold + x]
<1>1. /\ q \in Seq(Lots) /\ k \in Seq(Chunks) /\ N \in Nat /\ T \in Nat /\ x \in Nat \ {0}
      /\ r \in Seq(Lots) /\ c \in Seq(Chunks)
  <2>1. q \in Seq(Lots) /\ k \in Seq(Chunks)
    BY DEF FifoState
  <2>2. T \in Nat /\ x \in Nat \ {0}
    BY DEF TradeRow
  <2>3. m \in Matching
    BY MatchSaleType
  <2>4. r \in Seq(Lots) /\ c \in Seq(Chunks)
    <3> HIDE DEF m
    <3> QED
      BY <2>3 DEF Matching
  <2> QED
    BY <2>1, <2>2, <2>4, LenProperties
<1>2. ProcessTrade(state, t).queue = r /\ ProcessTrade(state, t).chunks = c
  BY DEF ProcessTrade
<1>3. /\ DatedBefore(log, T) /\ LotsDated(q, T) /\ ChunksDated(k, T)
      /\ b0 = sold + OpenQuantity(q)
      /\ \A u \in ss : u.to <= sold
      /\ LotsFollow(bs, q, sold) /\ ChunksFollow(bs, ss, k)
  BY DEF MatchingFollows
<1>4. /\ bs \subseteq Numbers /\ ss \subseteq Numbers
      /\ \A u \in ss : u.at < T
      /\ b0 \in Nat /\ sold \in Nat
      /\ Numbered(l, "BUY") = bs /\ Numbered(l, "SELL") = ss \cup {new}
      /\ Before(l, "BUY", T + 1) = b0 /\ Before(l, "SELL", T + 1) = sold + x
      /\ DatedBefore(l, T + 1)
  <2>1. "BUY" # "SELL" /\ t.trade_type = "SELL" /\ x \in Nat
    BY <1>1
  <2>2. /\ ss \subseteq Numbers /\ (\A u \in ss : u.at < T) /\ sold \in Nat
        /\ Numbered(l, "SELL") = ss \cup {new} /\ Before(l, "SELL", T + 1) = sold + x
        /\ DatedBefore(l, T + 1)
    BY <1>3, NumberedAppend
  <2>3. /\ bs \subseteq Numbers /\ b0 \in Nat
        /\ Numbered(l, "BUY") = bs \cup {} /\ Before(l, "BUY", T + 1) = b0 + 0
    BY <1>3, <2>1, NumberedAppend
  <2> QED
    BY <2>2, <2>3
<1>5. Shifted(r, q, N, x, 0)
  <2>1. Shifted(r, q, N, x, m.left)
    BY SaleShifts
  <2> QED
    BY <2>1
<1>6. ASSUME NEW b, NEW u
      PROVE  /\ u # T => Matched(c, b, u) = Matched(k, b, u)
             /\ u = T => Matched(c, b, u) + LeftOf(r, b) = Matched(k, b, u) + LeftOf(q, b)
  BY SaleTakes
<1>7. ASSUME NEW b, NEW u
      PROVE  Matched(c, b, u) \in Nat /\ LeftOf(r, b) \in Nat /\ LeftOf(q, b) \in Nat
  <2>1. [buy |-> 0, price |-> 0, left |-> 1] \in Lots
        /\ [buy |-> 0, sell |-> 0, quantity |-> 1, buy_price |-> 0, sell_price |-> 0] \in Chunks
    BY DEF Lots, Chunks
  <2> HIDE DEF c, r, q
  <2> QED
    BY <1>1, <2>1, MatchedAppend, LeftOfAppend
<1> HIDE DEF m, r, c, q, k, l, T, N, bs, ss, sold, b0, x
<1>8. PICK d : Shift(r, q, N, x, 0, d)
  BY <1>5 DEF Shifted
<1>9. LotsDated(r, T)
  <2>1. /\ d \in 0 .. N /\ d \in Nat /\ Len(r) = N - d
        /\ \A j \in 1 .. N - d : r[j].buy = q[d + j].buy
    BY <1>1, <1>8 DEF Shift
  <2>2. \A j \in 1 .. N - d : d + j \in 1 .. N
    BY <1>1, <2>1
  <2>3. \A j \in 1 .. N - d : r[j].buy < T
    BY <1>3, <2>1, <2>2 DEF LotsDated, N
  <2>4. ASSUME NEW i \in 1 .. N - d, NEW j \in 1 .. N - d, r[i].buy = r[j].buy PROVE i = j
    <3>1. d + i = d + j
      BY <1>3, <2>1, <2>2, <2>4 DEF LotsDated, N
    <3> QED
      BY <2>1, <3>1
  <2> QED
    BY <2>1, <2>3, <2>4 DEF LotsDated
<1>10. LotsDated(r, T + 1)
  <2>1. ASSUME NEW i \in 1 .. Len(r) PROVE r[i].buy < T + 1
    <3>1. r[i] \in Lots
      BY <1>1, LenProperties, ElementOfSeq
    <3>2. r[i].buy \in Nat /\ r[i].buy < T
      BY <1>9, <3>1 DEF LotsDated, Lots
    <3> QED
      BY <1>1, <3>2
  <2> QED
    BY <1>9, <2>1 DEF LotsDated
<1>11. ChunksDated(c, T + 1)
  <2> SUFFICES ASSUME NEW b \in Nat, NEW u \in Nat, b >= T + 1 \/ u >= T + 1
               PROVE  Matched(c, b, u) = 0
    BY DEF ChunksDated
  <2>1. b >= T \/ u >= T
    BY <1>1
  <2>2. Matched(k, b, u) = 0
    BY <1>3, <2>1 DEF ChunksDated
  <2>3. CASE u # T
    BY <1>6, <2>2, <2>3
  <2>4. CASE u = T
    <3>1. b >= T
      BY <1>1, <2>4
    <3>2. LeftOf(q, b) = 0
      BY <1>1, <1>3, <3>1, LeftOfLater
    <3>3. Matched(c, b, u) + LeftOf(r, b) = 0 + 0
      BY <1>6, <2>2, <2>4, <3>2
    <3> DEFINE v == Matched(c, b, u)
               w == LeftOf(r, b)
    <3>4. v \in Nat /\ w \in Nat /\ v + w = 0
      BY <1>7, <3>3
    <3> HIDE DEF v, w
    <3>5. v = 0
      BY <3>4
    <3> QED
      BY <3>5 DEF v
  <2> QED
    BY <2>3, <2>4
<1>12. b0 = (sold + x) + OpenQuantity(r)
  <2>1. UpToLot(q, N) + 0 = x + OpenQuantity(r)
    BY <1>8 DEF Shift
  <2> DEFINE o == OpenQuantity(q)
             p == OpenQuantity(r)
  <2>2. o \in Nat /\ p \in Nat /\ UpToLot(q, N) = o
    <3>1. [buy |-> 0, price |-> 0, left |-> 1] \in Lots
      BY DEF Lots
    <3> QED
      BY <1>1, <3>1, QueueSums, UpToLotGrows DEF N
  <2>3. o + 0 = x + p /\ b0 = sold + o
    BY <1>3, <2>1, <2>2
  <2> HIDE DEF o, p
  <2>4. b0 = (sold + x) + p
    BY <1>1, <1>4, <2>2, <2>3
  <2> QED
    BY <2>4 DEF p
<1>13. LotsFollow(bs, r, sold + x)
  BY <1>1, <1>3, <1>4, <1>5, SaleFollowsLots DEF N
<1>14. ChunksFollow(bs, ss \cup {new}, c)
  <2>1. ASSUME NEW b \in bs, NEW u \in ss PROVE Matched(c, b.at, u.at) = Overlap(b, u)
    <3>1. u.at # T
      <4>1. u.at < T /\ u.at \in Nat
        BY <1>4 DEF Numbers
      <4> QED
        BY <1>1, <4>1
    <3> QED
      BY <1>3, <1>6, <3>1 DEF ChunksFollow
  <2>2. ASSUME NEW b \in bs PROVE Matched(c, b.at, new.at) = Overlap(b, new)
    <3> DEFINE v == Matched(c, b.at, T)
               w == LeftOf(r, b.at)
               e == Larger(0, b.to - Larger(b.from, sold))
               f == Larger(0, b.to - Larger(b.from, sold + x))
    <3>1. b.at \in Nat /\ b.from \in Nat /\ b.to \in Nat
      BY <1>4 DEF Numbers
    <3>2. Matched(k, b.at, T) = 0
      <4>1. T >= T
        BY <1>1
      <4> QED
        BY <1>1, <1>3, <3>1, <4>1 DEF ChunksDated
    <3>3. v + w = 0 + LeftOf(q, b.at)
      BY <1>6, <3>2
    <3>4. LeftOf(q, b.at) = e
      BY <1>1, <1>3, <1>4, LeftIsUnsold
    <3>5. w = f
      <4>1. sold + x \in Nat
        BY <1>1, <1>4
      <4> QED
        BY <1>1, <1>4, <1>9, <1>13, <4>1, LeftIsUnsold
    <3>6. e = f + Overlap(b, new)
      <4>1. x \in Nat /\ sold \in Nat
        BY <1>1, <1>4
      <4>2. Overlap(b, new) = Larger(0, Smaller(b.to, sold + x) - Larger(b.from, sold))
        BY DEF Overlap
      <4> DEFINE next == sold + x
      <4>3. next \in Nat /\ sold <= next
        BY <4>1
      <4> HIDE DEF next
      <4>4. Larger(0, b.to - Larger(b.from, sold))
              = Larger(0, b.to - Larger(b.from, next))
                  + Larger(0, Smaller(b.to, next) - Larger(b.from, sold))
        BY <3>1, <4>1, <4>3, UnsoldDiffers
      <4> QED
        BY <4>2, <4>4 DEF next
    <3>7. v \in Nat /\ f \in Nat /\ Overlap(b, new) \in Nat
      <4>1. v \in Nat
        BY <1>7
      <4>2. sold + x \in Nat /\ x \in Nat
        BY <1>1, <1>4
      <4>3. f \in Nat
        BY <3>1, <4>2 DEF Larger
      <4>4. Overlap(b, new) \in Nat
        BY <1>4, <3>1, <4>2 DEF Overlap, Larger, Smaller
      <4> QED
        BY <4>1, <4>3, <4>4
    <3> DEFINE y == Overlap(b, new)
    <3> HIDE DEF v, w, e, f, y
    <3>8. v + f = 0 + (f + y) /\ v \in Nat /\ f \in Nat /\ y \in Nat
      BY <3>3, <3>4, <3>5, <3>6, <3>7 DEF y
    <3>9. v = y
      BY <3>8
    <3> QED
      BY <3>9 DEF v, y
  <2> HIDE DEF new
  <2> QED
    BY <2>1, <2>2 DEF ChunksFollow
<1>15. \A u \in ss \cup {new} : u.to <= sold + x
  <2>1. ASSUME NEW u \in ss PROVE u.to <= sold + x
    <3>1. u.to \in Nat /\ u.to <= sold
      BY <1>3, <1>4 DEF Numbers
    <3> QED
      BY <1>1, <1>4, <3>1
  <2>2. new.to <= sold + x
    BY <1>1, <1>4
  <2> HIDE DEF new
  <2> QED
    BY <2>1, <2>2
<1> HIDE DEF new
<1> QED
  BY <1>2, <1>4, <1>10, <1>11, <1>12, <1>13, <1>14, <1>15 DEF MatchingFollows, T, l, r, c

\* For each symbol: lots and chunks are where the numbers of the shares put them.
MatchingIsFifo ==
  \A s \in Symbols : MatchingFollows(OfSymbol(trades, s), Fifo[s], Len(trades) + 1)

\* It holds of an empty log.
LEMMA MatchingInit == Init => MatchingIsFifo
<1> SUFFICES ASSUME Init, NEW s \in Symbols
             PROVE  MatchingFollows(OfSymbol(trades, s), Fifo[s], Len(trades) + 1)
  BY DEF MatchingIsFifo
<1>1. OfSymbol(<<>>, s) = <<>>
  <2>1. <<>> \in Seq({1}) /\ Len(<<>>) = 0
    OBVIOUS
  <2>2. PICK g : GatherRun(g, {1}, <<>>, s) /\ OfSymbol(<<>>, s) = g[0]
    BY <2>1, OfSymbolRuns
  <2> QED
    BY <2>2 DEF GatherRun
<1>2. /\ OfSymbol(trades, s) = <<>> /\ Len(trades) + 1 = 1
      /\ Fifo[s].queue = <<>> /\ Fifo[s].chunks = <<>>
  BY <1>1, FifoOfNone DEF Fifo, Init
<1>3. OpenQuantity(<<>>) = 0 /\ \A b, u : Matched(<<>>, b, u) = 0
  BY TotalOfZeros DEF OpenQuantity, Matched
<1>4. Before(<<>>, "BUY", 1) = 0 /\ Before(<<>>, "SELL", 1) = 0
  BY TotalOfZeros DEF Before
<1>5. Numbered(<<>>, "BUY") = {} /\ Numbered(<<>>, "SELL") = {}
  BY DEF Numbered
<1>6. DatedBefore(<<>>, 1) /\ LotsDated(<<>>, 1)
  BY DEF DatedBefore, LotsDated
<1> QED
  BY <1>2, <1>3, <1>4, <1>5, <1>6 DEF MatchingFollows, LotsFollow, ChunksFollow, ChunksDated

\* A sale that leaves nothing unmatched took all it sold from lots.
LEMMA SaleIsMatched ==
  ASSUME NEW state \in FifoState, NEW t \in TradeRow, t.trade_type = "SELL",
         ProcessTrade(state, t).unmatched = 0
  PROVE  MatchSale(state, t).left = 0
<1> DEFINE v == MatchSale(state, t).left
           w == state.unmatched
<1>1. v \in Nat /\ w \in Nat
  <2> DEFINE m == MatchSale(state, t)
  <2>1. m \in Matching
    BY MatchSaleType
  <2> HIDE DEF m
  <2>2. m.left \in Nat /\ w \in Nat
    BY <2>1 DEF Matching, FifoState
  <2> QED
    BY <2>2 DEF m
<1>2. w + v = 0
  BY DEF ProcessTrade
<1> HIDE DEF v, w
<1>3. v = 0
  BY <1>1, <1>2
<1> QED
  BY <1>3 DEF v

\* A fill is one trade more for one symbol, and for the others time.
LEMMA MatchingFill ==
  ASSUME HistoryTypes, LotsCoverHoldings, LotsCoverHoldings', MatchingIsFifo,
         NEW s \in Symbols, NEW t \in TradeTypes,
         NEW q \in Quantities, NEW p \in Prices, Fill(s, t, q, p)
  PROVE  MatchingIsFifo'
<1> DEFINE e == NewTrade(s, t, q, p)
           N == Len(trades)
<1>1. /\ e \in TradeRow /\ trades' = Append(trades, e) /\ N \in Nat
      /\ e.symbol = s /\ e.trade_type = t /\ e.created_at = N + 1
  BY FillFacts DEF NewTrade
<1>2. /\ Fifo \in [Symbols -> FifoState]
      /\ Fifo'[s] = ProcessTrade(Fifo[s], e)
      /\ \A r \in Symbols \ {s} : Fifo'[r] = Fifo[r]
  BY FifoStep
<1> HIDE DEF e
<1>3. trades \in Seq(TradeRow)
  BY DEF HistoryTypes
<1>4. \A r \in Symbols :
        /\ OfSymbol(trades, r) \in Seq(TradeRow)
        /\ OfSymbol(trades', r) = IF e.symbol = r THEN Append(OfSymbol(trades, r), e)
                                  ELSE OfSymbol(trades, r)
  BY <1>1, <1>3, OfSymbolAppend
<1>5. Len(trades') = N + 1
  BY <1>1, <1>3, AppendProperties
<1> SUFFICES ASSUME NEW r \in Symbols
             PROVE  MatchingFollows(OfSymbol(trades', r), Fifo'[r], Len(trades') + 1)
  BY DEF MatchingIsFifo
<1> DEFINE log == OfSymbol(trades, r)
           f   == Fifo[r]
           T   == N + 1
<1>6. log \in Seq(TradeRow) /\ f \in FifoState /\ T \in Nat /\ MatchingFollows(log, f, T)
  BY <1>1, <1>2, <1>4 DEF MatchingIsFifo
<1> HIDE DEF log, f, T, N
<1>7. CASE r # s
  <2>1. OfSymbol(trades', r) = log /\ Fifo'[r] = f /\ Len(trades') + 1 = T + 1
    BY <1>1, <1>2, <1>4, <1>5, <1>7 DEF log, f, T
  <2>2. MatchingFollows(log, f, T + 1)
    BY <1>6, TimeFollows
  <2> QED
    BY <2>1, <2>2
<1>8. CASE r = s
  <2>1. /\ OfSymbol(trades', r) = Append(log, e) /\ Fifo'[r] = ProcessTrade(f, e)
        /\ Len(trades') + 1 = T + 1 /\ e.created_at = T
    BY <1>1, <1>2, <1>4, <1>5, <1>8 DEF log, f, T
  <2>2. CASE t = "BUY"
    <3>1. MatchingFollows(Append(log, e), ProcessTrade(f, e), T + 1)
      BY <1>1, <1>6, <2>1, <2>2, BuyFollows
    <3> QED
      BY <2>1, <3>1
  <2>3. CASE t = "SELL"
    <3>1. ProcessTrade(f, e).unmatched = 0
      BY <2>1 DEF LotsCoverHoldings
    <3>2. MatchSale(f, e).left = 0
      BY <1>1, <1>6, <2>3, <3>1, SaleIsMatched
    <3>3. MatchingFollows(Append(log, e), ProcessTrade(f, e), T + 1)
      BY <1>1, <1>6, <2>1, <2>3, <3>2, SaleFollows
    <3> QED
      BY <2>1, <3>3
  <2> QED
    BY <2>2, <2>3 DEF TradeTypes
<1> QED
  BY <1>7, <1>8

\* Every step keeps it: a reset leaves the trades alone.
LEMMA MatchingStep ==
  HistoryTypes /\ LotsCoverHoldings /\ MatchingIsFifo /\ [Next]_vars => MatchingIsFifo'
<1> SUFFICES ASSUME HistoryTypes, LotsCoverHoldings, MatchingIsFifo, [Next]_vars
             PROVE  MatchingIsFifo'
  OBVIOUS
<1>1. LotsCoverHoldings'
  BY LotsStep
<1>2. ASSUME trades' = trades PROVE MatchingIsFifo'
  <2>1. Fifo' = Fifo
    BY <1>2 DEF Fifo
  <2> QED
    BY <1>2, <2>1 DEF MatchingIsFifo
<1>3. CASE Reset
  BY <1>2, <1>3 DEF Reset
<1>4. CASE UNCHANGED vars
  BY <1>2, <1>4 DEF vars
<1>5. ASSUME NEW s \in Symbols, NEW t \in TradeTypes, NEW q \in Quantities, NEW p \in Prices,
             Fill(s, t, q, p)
      PROVE  MatchingIsFifo'
  BY <1>1, <1>5, MatchingFill
<1> QED
  BY <1>3, <1>4, <1>5 DEF Next

\* What first in, first out means, without a queue: a sale takes from a purchase as
\* many shares as the two have numbers in common, when the shares bought and the
\* shares sold of a symbol are each numbered through; whatever else was traded.
THEOREM MatchingIsOverlap == Spec => []FifoIsOverlap
<1>1. MatchingIsFifo => FifoIsOverlap
  <2> SUFFICES ASSUME MatchingIsFifo, NEW s \in Symbols,
                      NEW i \in DOMAIN OfSymbol(trades, s),
                      NEW j \in DOMAIN OfSymbol(trades, s),
                      OfSymbol(trades, s)[i].trade_type = "BUY",
                      OfSymbol(trades, s)[j].trade_type = "SELL"
               PROVE  Matched(Fifo[s].chunks, OfSymbol(trades, s)[i].created_at,
                              OfSymbol(trades, s)[j].created_at)
                        = Common(OfSymbol(trades, s), OfSymbol(trades, s)[i],
                                 OfSymbol(trades, s)[j])
    BY DEF FifoIsOverlap
  <2> DEFINE log == OfSymbol(trades, s)
             b == [at |-> log[i].created_at, from |-> Before(log, "BUY", log[i].created_at),
                   to |-> Before(log, "BUY", log[i].created_at) + log[i].quantity]
             t == [at |-> log[j].created_at, from |-> Before(log, "SELL", log[j].created_at),
                   to |-> Before(log, "SELL", log[j].created_at) + log[j].quantity]
  <2>1. ChunksFollow(Numbered(log, "BUY"), Numbered(log, "SELL"), Fifo[s].chunks)
    BY DEF MatchingIsFifo, MatchingFollows
  <2>2. b \in Numbered(log, "BUY") /\ t \in Numbered(log, "SELL")
    BY DEF Numbered
  <2>3. Matched(Fifo[s].chunks, b.at, t.at) = Overlap(b, t)
    BY <2>1, <2>2 DEF ChunksFollow
  <2>4. Overlap(b, t) = Common(log, log[i], log[j])
    BY DEF Overlap, Common
  <2> QED
    BY <2>3, <2>4
<1> QED
  BY <1>1, HistoryTypesInit, HistoryTypesStep, LotsInit, LotsStep, MatchingInit, MatchingStep,
     PTL DEF Spec

-----------------------------------------------------------------------------
(* Campaigns, and cycles of the holding.                                     *)

\* Campaigns are not empty.
Campaigns == Seq(Seq(Chunks) \ {<<>>})

\* One turn of GroupChunksIntoPositions.
Grouped(acc, c) ==
  IF acc # <<>> /\ SameCampaign(Last(Last(acc)), c)
  THEN [acc EXCEPT ![Len(acc)] = Append(@, c)]
  ELSE Append(acc, <<c>>)

\* A chunk more joins the last campaign or begins one, and the others stay.
LEMMA GroupedFacts ==
  ASSUME NEW acc \in Campaigns, NEW c \in Chunks
  PROVE  LET r == Grouped(acc, c)
         IN  /\ r \in Campaigns /\ r # <<>> /\ Last(Last(r)) = c
             /\ Len(r) = IF acc # <<>> /\ SameCampaign(Last(Last(acc)), c)
                         THEN Len(acc) ELSE Len(acc) + 1
             /\ \A i \in 1 .. Len(r) : \A d :
                  d \in Range(r[i])
                    <=> \/ i \in 1 .. Len(acc) /\ d \in Range(acc[i])
                        \/ i = Len(r) /\ d = c
<1> DEFINE S == Seq(Chunks) \ {<<>>}
           r == Grouped(acc, c)
           N == Len(acc)
<1>1. /\ acc \in Seq(S) /\ N \in Nat /\ \A i \in 1 .. N : acc[i] \in S
      /\ acc = <<>> <=> N = 0
  <2>1. acc \in Seq(S)
    BY DEF Campaigns
  <2> HIDE DEF S
  <2> QED
    BY <2>1, LenProperties, ElementOfSeq, EmptySeq
<1>2. /\ <<c>> \in S /\ Len(<<c>>) = 1 /\ <<c>>[1] = c
      /\ \A d : d \in Range(<<c>>) <=> d = c
  BY DEF Range
<1>3. ASSUME NEW s \in S
      PROVE  /\ Append(s, c) \in S /\ Last(Append(s, c)) = c
             /\ \A d : d \in Range(Append(s, c)) <=> d \in Range(s) \/ d = c
  <2> DEFINE a == Append(s, c)
             n == Len(s)
  <2>1. /\ s \in Seq(Chunks) /\ n \in Nat /\ DOMAIN s = 1 .. n
        /\ a \in Seq(Chunks) /\ a # <<>> /\ Len(a) = n + 1
        /\ \A i \in 1 .. n : a[i] = s[i]
        /\ a[n + 1] = c
    BY AppendProperties, LenProperties
  <2> HIDE DEF a, n
  <2>2. DOMAIN a = 1 .. n + 1
    BY <2>1, LenProperties
  <2>3. \A i \in 1 .. n + 1 : i \in 1 .. n \/ i = n + 1
    BY <2>1
  <2>4. \A d : d \in Range(a) <=> d \in Range(s) \/ d = c
    BY <2>1, <2>2, <2>3 DEF Range
  <2> QED
    BY <2>1, <2>4 DEF Last, a
<1> HIDE DEF S
<1>4. CASE acc # <<>> /\ SameCampaign(Last(Last(acc)), c)
  <2>1. N \in 1 .. N /\ acc[N] \in S
    BY <1>1, <1>4
  <2> DEFINE a == Append(acc[N], c)
  <2>2. a \in S /\ Last(a) = c /\ \A d : d \in Range(a) <=> d \in Range(acc[N]) \/ d = c
    BY <1>3, <2>1
  <2>3. r = [acc EXCEPT ![N] = a]
    BY <1>4 DEF Grouped
  <2> HIDE DEF a, r
  <2>4. /\ r \in Seq(S) /\ Len(r) = N
        /\ \A j \in 1 .. N : r[j] = IF j = N THEN a ELSE acc[j]
    BY <1>1, <2>1, <2>2, <2>3, ExceptSeq
  <2>5. r # <<>> /\ Last(Last(r)) = c
    BY <1>1, <2>1, <2>2, <2>4, EmptySeq DEF Last
  <2>6. \A i \in 1 .. N : \A d :
          d \in Range(r[i]) <=> (i \in 1 .. N /\ d \in Range(acc[i])) \/ (i = N /\ d = c)
    BY <2>2, <2>4
  <2>7. \A i \in 1 .. Len(r) : \A d :
          d \in Range(r[i]) <=> (i \in 1 .. N /\ d \in Range(acc[i])) \/ (i = Len(r) /\ d = c)
    BY <2>4, <2>6
  <2>8. r \in Campaigns
    BY <2>4 DEF Campaigns, S
  <2> QED
    BY <1>4, <2>4, <2>5, <2>7, <2>8 DEF r
<1>5. CASE ~(acc # <<>> /\ SameCampaign(Last(Last(acc)), c))
  <2>1. r = Append(acc, <<c>>)
    BY <1>5 DEF Grouped
  <2> DEFINE a == <<c>>
  <2>2. a \in S /\ Last(a) = c /\ \A d : d \in Range(a) <=> d = c
    BY <1>2 DEF Last
  <2>3. r = Append(acc, a)
    BY <2>1
  <2> HIDE DEF a, r
  <2>4. /\ r \in Seq(S) /\ r # <<>> /\ Len(r) = N + 1 /\ r[N + 1] = a
        /\ \A j \in 1 .. N : r[j] = acc[j]
    BY <1>1, <2>2, <2>3, AppendProperties
  <2>5. Last(Last(r)) = c
    BY <2>2, <2>4 DEF Last
  <2>6. \A i \in 1 .. N + 1 : i = N + 1 \/ i \in 1 .. N
    BY <1>1
  <2>7. N + 1 \notin 1 .. N
    BY <1>1
  <2>8. \A i \in 1 .. N + 1 : \A d :
          d \in Range(r[i]) <=> (i \in 1 .. N /\ d \in Range(acc[i])) \/ (i = N + 1 /\ d = c)
    BY <2>2, <2>4, <2>6, <2>7
  <2> QED
    BY <1>5, <2>4, <2>5, <2>8 DEF Campaigns, S, r
<1> QED
  BY <1>4, <1>5

\* The campaigns after each chunk.
GroupRun(g, chunks) ==
  /\ g \in [0 .. Len(chunks) -> Campaigns]
  /\ g[0] = <<>>
  /\ \A n \in 1 .. Len(chunks) : g[n] = Grouped(g[n - 1], chunks[n])

\* GroupChunksIntoPositions is what they are in the end.
LEMMA GroupRuns ==
  ASSUME NEW chunks \in Seq(Chunks)
  PROVE  \E g : GroupRun(g, chunks) /\ GroupChunksIntoPositions(chunks) = g[Len(chunks)]
<1> DEFINE N       == Len(chunks)
           F(a, e) == Grouped(a, e)
           start   == <<>>
           G       == [x \in Campaigns \X Chunks |-> F(x[1], x[2])]
           after[n \in 0 .. Len(chunks)] == IF n = 0 THEN start ELSE F(after[n - 1], chunks[n])
<1>1. N \in Nat /\ \A n \in 1 .. N : n \in 0 .. N /\ n - 1 \in 0 .. N /\ chunks[n] \in Chunks
  BY LenProperties, ElementOfSeq
<1>2. GroupChunksIntoPositions(chunks) = after[N]
  BY DEF GroupChunksIntoPositions, Grouped, Through
<1>3. \A a \in Campaigns, e \in Chunks : F(a, e) \in Campaigns
  BY GroupedFacts
<1>4. start \in Campaigns
  BY DEF Campaigns
<1>0. ASSUME NEW g \in [0 .. N -> Campaigns], g[0] = start,
             \A n \in 1 .. N : g[n] = F(g[n - 1], chunks[n]), after[N] = g[N]
      PROVE  GroupRun(g, chunks) /\ GroupChunksIntoPositions(chunks) = g[Len(chunks)]
  BY <1>0, <1>2 DEF GroupRun, F
<1> HIDE DEF F, start
<1>5. G \in [Campaigns \X Chunks -> Campaigns]
  BY <1>3
<1>6. PICK g : IsRun(g, Campaigns, start, G, chunks)
  <2> HIDE DEF G
  <2> QED
    BY <1>4, <1>5, Recursion
<1>7. \A n \in 1 .. N : g[n] = F(g[n - 1], chunks[n])
  BY <1>1, <1>6 DEF IsRun
<1>8. g = [n \in 0 .. Len(chunks) |-> IF n = 0 THEN start ELSE F(g[n - 1], chunks[n])]
  <2>1. \A n \in 0 .. Len(chunks) : g[n] = IF n = 0 THEN start ELSE F(g[n - 1], chunks[n])
    BY <1>1, <1>6, <1>7 DEF IsRun
  <2>2. g = [n \in 0 .. Len(chunks) |-> g[n]]
    BY <1>6 DEF IsRun
  <2> HIDE DEF N
  <2> QED
    BY <2>1, <2>2, Zenon
<1>9. after = CHOOSE h : h = [n \in 0 .. Len(chunks) |->
                 IF n = 0 THEN start ELSE F(h[n - 1], chunks[n])]
  OBVIOUS
<1>10. after = [n \in 0 .. Len(chunks) |-> IF n = 0 THEN start ELSE F(after[n - 1], chunks[n])]
  BY <1>8, <1>9, Zenon
<1> HIDE DEF after, G
<1> DEFINE P == {n \in 0 .. N : after[n] = g[n]}
<1>11. 0 \in P
  BY <1>1, <1>6, <1>10 DEF IsRun
<1>12. ASSUME NEW n \in 1 .. N, n - 1 \in P PROVE n \in P
  <2>1. after[n] = F(after[n - 1], chunks[n])
    BY <1>1, <1>10
  <2> QED
    BY <1>1, <1>7, <1>12, <2>1
<1>13. after[N] = g[N]
  <2> HIDE DEF P
  <2>1. \A n \in 0 .. N : n \in P
    BY <1>1, <1>11, <1>12, Upwards
  <2>2. N \in P
    BY <1>1, <2>1
  <2> QED
    BY <2>2 DEF P
<1>14. g \in [0 .. N -> Campaigns] /\ g[0] = start
  BY <1>6 DEF IsRun
<1> QED
  BY <1>0, <1>7, <1>13, <1>14

\* Shares are held at all times from one sale up to another.
HeldBetween(log, from, to) == \A k \in from .. to - 1 : Held(log, k) > 0

\* And in two parts.
LEMMA HeldInParts ==
  ASSUME NEW log, NEW a \in Nat, NEW b \in Nat, NEW c \in Nat, a <= b, b <= c
  PROVE  HeldBetween(log, a, c) <=> HeldBetween(log, a, b) /\ HeldBetween(log, b, c)
<1>1. \A k \in a .. c - 1 : k \in a .. b - 1 \/ k \in b .. c - 1
  OBVIOUS
<1>2. /\ \A k \in a .. b - 1 : k \in a .. c - 1
      /\ \A k \in b .. c - 1 : k \in a .. c - 1
  OBVIOUS
<1> QED
  BY <1>1, <1>2 DEF HeldBetween

\* Two chunks are in one campaign just if shares were held between their sales.
ByCycles(log, acc) ==
  \A i, j \in 1 .. Len(acc) : \A c \in Range(acc[i]), d \in Range(acc[j]) :
    c.sell < d.sell => (i = j <=> HeldBetween(log, c.sell, d.sell))

\* So it is up to the chunk last, and a chunk is in the campaign of that one just if
\* shares were held since.
CampaignsFollow(log, acc, last) ==
  /\ acc # <<>> /\ Last(Last(acc)) = last
  /\ \A i \in 1 .. Len(acc) : \A c \in Range(acc[i]) :
       /\ c.sell <= last.sell
       /\ i = Len(acc) <=> HeldBetween(log, c.sell, last.sell)
  /\ ByCycles(log, acc)

\* The first chunk.
LEMMA CampaignStart ==
  ASSUME NEW log, NEW c \in Chunks
  PROVE  CampaignsFollow(log, Grouped(<<>>, c), c)
<1> DEFINE r == Grouped(<<>>, c)
<1>1. <<>> \in Campaigns /\ Len(<<>>) = 0
  BY DEF Campaigns
<1>2. /\ r # <<>> /\ Last(Last(r)) = c /\ Len(r) = 1
      /\ \A i \in 1 .. Len(r) : \A d \in Range(r[i]) : d = c
  <2> DEFINE acc == <<>>
  <2>1. acc \in Campaigns /\ Len(acc) = 0 /\ acc = <<>>
    BY <1>1
  <2> HIDE DEF acc
  <2> DEFINE t == Grouped(acc, c)
  <2>2. /\ t # <<>> /\ Last(Last(t)) = c
        /\ Len(t) = IF acc # <<>> /\ SameCampaign(Last(Last(acc)), c)
                    THEN Len(acc) ELSE Len(acc) + 1
        /\ \A i \in 1 .. Len(t) : \A d :
             d \in Range(t[i])
               <=> (i \in 1 .. Len(acc) /\ d \in Range(acc[i])) \/ (i = Len(t) /\ d = c)
    BY <2>1, GroupedFacts
  <2>3. t = r
    BY <2>1
  <2> HIDE DEF t, r
  <2>4. \A i : i \notin 1 .. Len(acc)
    BY <2>1
  <2>5. Len(t) = 1
    BY <2>1, <2>2
  <2> QED
    BY <2>2, <2>3, <2>4, <2>5
<1>3. c.sell \in Nat /\ HeldBetween(log, c.sell, c.sell)
  BY DEF HeldBetween, Chunks
<1> HIDE DEF r
<1>4. ByCycles(log, r)
  BY <1>2, <1>3 DEF ByCycles
<1>5. \A i \in 1 .. Len(r) : \A d \in Range(r[i]) :
        d.sell <= c.sell /\ (i = Len(r) <=> HeldBetween(log, d.sell, c.sell))
  BY <1>2, <1>3
<1> QED
  BY <1>2, <1>4, <1>5 DEF CampaignsFollow, r

\* A chunk that goes on with the last campaign just if shares were held since.
LEMMA CampaignStep ==
  ASSUME NEW log, NEW acc \in Campaigns, NEW last \in Chunks, NEW c \in Chunks,
         CampaignsFollow(log, acc, last), last.sell <= c.sell,
         c.buy <= last.sell <=> HeldBetween(log, last.sell, c.sell)
  PROVE  CampaignsFollow(log, Grouped(acc, c), c)
<1> DEFINE r == Grouped(acc, c)
           N == Len(acc)
           R == Len(r)
           joined == HeldBetween(log, last.sell, c.sell)
<1>1. /\ acc # <<>> /\ Last(Last(acc)) = last /\ N \in Nat /\ N >= 1
      /\ \A i \in 1 .. N : \A d \in Range(acc[i]) : d \in Chunks
  <2>1. acc \in Seq(Seq(Chunks) \ {<<>>})
    BY DEF Campaigns
  <2>2. N \in Nat /\ N >= 1
    BY <2>1, LenProperties, EmptySeq DEF CampaignsFollow
  <2>3. \A i \in 1 .. N : acc[i] \in Seq(Chunks)
    BY <2>1, ElementOfSeq
  <2>4. ASSUME NEW s \in Seq(Chunks) PROVE \A d \in Range(s) : d \in Chunks
    BY LenProperties DEF Range
  <2> QED
    BY <2>2, <2>3, <2>4 DEF CampaignsFollow
<1>2. /\ r # <<>> /\ Last(Last(r)) = c
      /\ R = IF joined THEN N ELSE N + 1
      /\ \A i \in 1 .. R : \A d :
           d \in Range(r[i]) => (i \in 1 .. N /\ d \in Range(acc[i])) \/ (i = R /\ d = c)
  <2>1. SameCampaign(Last(Last(acc)), c) <=> joined
    BY <1>1 DEF SameCampaign
  <2> HIDE DEF joined
  <2>2. /\ r # <<>> /\ Last(Last(r)) = c
        /\ R = IF acc # <<>> /\ SameCampaign(Last(Last(acc)), c) THEN N ELSE N + 1
        /\ \A i \in 1 .. R : \A d :
             d \in Range(r[i]) <=> (i \in 1 .. N /\ d \in Range(acc[i])) \/ (i = R /\ d = c)
    BY GroupedFacts
  <2> HIDE DEF r, R, N
  <2> QED
    BY <1>1, <2>1, <2>2
<1>3. R \in Nat /\ R >= N
  BY <1>1, <1>2
<1>4. /\ c.sell \in Nat /\ last.sell \in Nat /\ last.sell <= c.sell
      /\ \A d \in Chunks : d.sell \in Nat
  BY DEF Chunks
<1>5. HeldBetween(log, c.sell, c.sell)
  BY <1>4 DEF HeldBetween
<1> HIDE DEF r, R, joined
<1>6. ASSUME NEW i \in 1 .. N, NEW d \in Range(acc[i])
      PROVE  d.sell <= c.sell /\ (i = R <=> HeldBetween(log, d.sell, c.sell))
  <2>1. /\ d.sell \in Nat /\ d.sell <= last.sell
        /\ i = N <=> HeldBetween(log, d.sell, last.sell)
    BY <1>1, <1>4, <1>6 DEF CampaignsFollow
  <2>2. HeldBetween(log, d.sell, c.sell) <=> HeldBetween(log, d.sell, last.sell) /\ joined
    BY <1>4, <2>1, HeldInParts DEF joined
  <2>3. i = R <=> i = N /\ joined
    BY <1>1, <1>2
  <2>4. d.sell <= c.sell
    BY <1>4, <2>1
  <2> QED
    BY <2>1, <2>2, <2>3, <2>4
<1>7. ASSUME NEW i \in 1 .. R, NEW d \in Range(r[i])
      PROVE  d.sell <= c.sell /\ (i = R <=> HeldBetween(log, d.sell, c.sell))
  <2>1. CASE i \in 1 .. N /\ d \in Range(acc[i])
    BY <1>6, <2>1
  <2>2. CASE i = R /\ d = c
    BY <1>4, <1>5, <2>2
  <2> QED
    BY <1>2, <2>1, <2>2
<1>8. ByCycles(log, r)
  <2> SUFFICES ASSUME NEW i \in 1 .. R, NEW j \in 1 .. R,
                      NEW d \in Range(r[i]), NEW e \in Range(r[j]), d.sell < e.sell
               PROVE  i = j <=> HeldBetween(log, d.sell, e.sell)
    BY DEF ByCycles, R
  <2>1. CASE j = R /\ e = c
    BY <1>7, <2>1
  <2>2. CASE i = R /\ d = c
    <3>1. e \in Chunks
      BY <1>1, <1>2
    <3>2. e.sell <= c.sell /\ c.sell < e.sell /\ e.sell \in Nat
      BY <1>4, <1>7, <2>2, <3>1
    <3> QED
      BY <1>4, <3>2
  <2>3. CASE i \in 1 .. N /\ d \in Range(acc[i]) /\ j \in 1 .. N /\ e \in Range(acc[j])
    BY <2>3 DEF CampaignsFollow, ByCycles
  <2> QED
    BY <1>2, <2>1, <2>2, <2>3
<1> QED
  BY <1>2, <1>7, <1>8 DEF CampaignsFollow, r, R

\* Chunks come by sale, each after its purchase, and the next goes on with a position
\* just if shares were held since the sale before.
ChunksInCycles(log, chunks, time) ==
  /\ \A n \in 1 .. Len(chunks) : chunks[n].buy <= chunks[n].sell /\ chunks[n].sell < time
  /\ \A n \in 2 .. Len(chunks) :
       /\ chunks[n - 1].sell <= chunks[n].sell
       /\ chunks[n].buy <= chunks[n - 1].sell
            <=> HeldBetween(log, chunks[n - 1].sell, chunks[n].sell)

\* Chunks of that kind are grouped by cycles.
LEMMA CampaignsOfChunks ==
  ASSUME NEW log, NEW time, NEW chunks \in Seq(Chunks), ChunksInCycles(log, chunks, time)
  PROVE  ByCycles(log, GroupChunksIntoPositions(chunks))
<1> DEFINE N == Len(chunks)
<1>1. N \in Nat /\ \A n \in 1 .. N : chunks[n] \in Chunks
  BY LenProperties, ElementOfSeq
<1>2. PICK g : GroupRun(g, chunks) /\ GroupChunksIntoPositions(chunks) = g[N]
  BY GroupRuns
<1>3. /\ \A n \in 0 .. N : g[n] \in Campaigns
      /\ g[0] = <<>>
      /\ \A n \in 1 .. N : g[n] = Grouped(g[n - 1], chunks[n])
  BY <1>2 DEF GroupRun
<1>4. \A n \in 2 .. N :
        /\ chunks[n - 1].sell <= chunks[n].sell
        /\ chunks[n].buy <= chunks[n - 1].sell
             <=> HeldBetween(log, chunks[n - 1].sell, chunks[n].sell)
  BY DEF ChunksInCycles
<1> HIDE DEF N
<1> DEFINE P == {n \in 0 .. N : n # 0 => CampaignsFollow(log, g[n], chunks[n])}
<1>5. 0 \in P
  BY <1>1
<1>6. ASSUME NEW n \in 1 .. N, n - 1 \in P PROVE n \in P
  <2> SUFFICES CampaignsFollow(log, g[n], chunks[n])
    BY <1>1
  <2>1. n \in 1 .. N /\ chunks[n] \in Chunks /\ g[n] = Grouped(g[n - 1], chunks[n])
    BY <1>1, <1>3
  <2>2. CASE n = 1
    <3>1. g[n - 1] = <<>>
      BY <1>3, <2>2
    <3>2. CampaignsFollow(log, Grouped(<<>>, chunks[n]), chunks[n])
      BY <2>1, CampaignStart
    <3> QED
      BY <2>1, <3>1, <3>2
  <2>3. CASE n # 1
    <3> DEFINE m == n - 1
    <3>1. m \in 1 .. N /\ m \in 0 .. N /\ n \in 2 .. N /\ m # 0
      BY <1>1, <2>3
    <3>2. /\ chunks[m] \in Chunks /\ g[m] \in Campaigns
          /\ CampaignsFollow(log, g[m], chunks[m])
          /\ chunks[m].sell <= chunks[n].sell
          /\ chunks[n].buy <= chunks[m].sell <=> HeldBetween(log, chunks[m].sell, chunks[n].sell)
      BY <1>1, <1>3, <1>4, <1>6, <3>1
    <3>3. g[n] = Grouped(g[m], chunks[n])
      BY <2>1
    <3> HIDE DEF m
    <3>4. CampaignsFollow(log, Grouped(g[m], chunks[n]), chunks[n])
      BY <2>1, <3>2, CampaignStep
    <3> QED
      BY <3>3, <3>4
  <2> QED
    BY <2>2, <2>3
<1>7. N \in P
  <2> HIDE DEF P
  <2>1. \A n \in 0 .. N : n \in P
    BY <1>1, <1>5, <1>6, Upwards
  <2> QED
    BY <1>1, <2>1
<1>8. CASE N = 0
  BY <1>2, <1>3, <1>8 DEF ByCycles
<1>9. CASE N # 0
  BY <1>2, <1>7, <1>9 DEF CampaignsFollow
<1> QED
  BY <1>8, <1>9

\* chunks are those of before, and one each for some of the first n lots, the first
\* lot among them, all of a sale at time.
Taken(before, chunks, queue, n, time) ==
  /\ Len(before) <= Len(chunks)
  /\ \A i \in 1 .. Len(before) : chunks[i] = before[i]
  /\ \A i \in 1 .. Len(chunks) : i > Len(before) =>
       chunks[i].sell = time /\ \E j \in 1 .. n : chunks[i].buy = queue[j].buy
  /\ n >= 1 => Len(chunks) > Len(before) /\ chunks[Len(before) + 1].buy = queue[1].buy

\* What a lot adds to the chunks.
LEMMA LotTaken ==
  ASSUME NEW acc \in Matching, NEW lot \in Lots, NEW t \in TradeRow
  PROVE  LET r == MatchLot(acc, lot, t)
         IN  \/ r.chunks = acc.chunks /\ acc.left = 0
             \/ \E c \in Chunks : /\ c.buy = lot.buy /\ c.sell = t.created_at
                                  /\ r.chunks = Append(acc.chunks, c)
<1> DEFINE m == Smaller(acc.left, lot.left)
           c == Chunk(lot, t, m)
<1>1. /\ acc.left \in Nat /\ lot.left \in Nat \ {0} /\ lot.buy \in Nat /\ lot.price \in Nat
      /\ t.created_at \in Nat /\ t.price \in Nat
  BY DEF Matching, Lots, TradeRow
<1>2. m \in Nat /\ (m = 0 => acc.left = 0)
  BY <1>1 DEF Smaller
<1>3. c.buy = lot.buy /\ c.sell = t.created_at /\ (m # 0 => c \in Chunks)
  BY <1>1, <1>2 DEF Chunk, Chunks
<1>4. MatchLot(acc, lot, t).chunks = IF m = 0 THEN acc.chunks ELSE Append(acc.chunks, c)
  BY DEF MatchLot
<1> HIDE DEF m, c
<1> QED
  BY <1>2, <1>3, <1>4

\* A lot more is taken from.
LEMMA TakenOn ==
  ASSUME NEW before \in Seq(Chunks), NEW chunks \in Seq(Chunks), NEW queue,
         NEW n \in Nat, NEW time, Taken(before, chunks, queue, n, time),
         NEW c \in Chunks, c.sell = time, NEW m, m = n + 1, c.buy = queue[m].buy,
         n = 0 => chunks = before
  PROVE  Taken(before, Append(chunks, c), queue, m, time)
<1> DEFINE r == Append(chunks, c)
           B == Len(before)
           N == Len(chunks)
<1>1. /\ B \in Nat /\ N \in Nat /\ Len(r) = N + 1 /\ r[N + 1] = c
      /\ \A i \in 1 .. N : r[i] = chunks[i]
  BY LenProperties, AppendProperties
<1> HIDE DEF r
<1>2. /\ B <= N /\ \A i \in 1 .. B : chunks[i] = before[i]
      /\ \A i \in 1 .. N : i > B =>
           chunks[i].sell = time /\ \E j \in 1 .. n : chunks[i].buy = queue[j].buy
      /\ n >= 1 => N > B /\ chunks[B + 1].buy = queue[1].buy
      /\ n = 0 => N = B
  BY DEF Taken
<1> HIDE DEF B, N
<1>3. \A i \in 1 .. B : r[i] = before[i]
  BY <1>1, <1>2
<1>4. ASSUME NEW i \in 1 .. N + 1, i > B
      PROVE  r[i].sell = time /\ \E j \in 1 .. m : r[i].buy = queue[j].buy
  <2>1. CASE i = N + 1
    BY <1>1, <2>1
  <2>2. CASE i # N + 1
    <3>1. i \in 1 .. N /\ \A j \in 1 .. n : j \in 1 .. m
      BY <1>1, <2>2
    <3> QED
      BY <1>1, <1>2, <1>4, <3>1
  <2> QED
    BY <2>1, <2>2
<1>5. N + 1 > B /\ r[B + 1].buy = queue[1].buy
  <2>1. CASE n = 0
    BY <1>1, <1>2, <2>1
  <2>2. CASE n # 0
    <3>1. n >= 1 /\ B + 1 \in 1 .. N
      BY <1>1, <1>2, <2>2
    <3> QED
      BY <1>1, <1>2, <3>1
  <2> QED
    BY <2>1, <2>2
<1>6. B <= N + 1
  BY <1>1, <1>2
<1> QED
  BY <1>1, <1>3, <1>4, <1>5, <1>6 DEF Taken, r, B

\* The chunks of a sale.
LEMMA SaleChunks ==
  ASSUME NEW state \in FifoState, NEW t \in TradeRow,
         NEW q \in Seq(Lots), q = state.queue
  PROVE  Taken(state.chunks, MatchSale(state, t).chunks, q, Len(q), t.created_at)
<1> DEFINE N == Len(q)
           k == state.chunks
           T == t.created_at
<1>1. k \in Seq(Chunks) /\ N \in Nat /\ t.quantity \in Nat \ {0}
  BY LenProperties DEF FifoState, TradeRow
<1>2. PICK g : SaleRun(g, state, q, t) /\ MatchSale(state, t) = g[N]
  BY MatchSaleRuns
<1>3. /\ \A n \in 0 .. N : g[n] \in Matching
      /\ g[0].left = t.quantity /\ g[0].chunks = k
      /\ \A n \in 1 .. N : g[n] = MatchLot(g[n - 1], q[n], t)
  BY <1>2 DEF SaleRun
<1>4. /\ \A n \in 1 .. N : q[n] \in Lots
      /\ \A n \in 0 .. N : g[n].chunks \in Seq(Chunks)
  BY <1>3, ElementOfSeq DEF Matching
<1> HIDE DEF N, k, T
<1> DEFINE P == {n \in 0 .. N : Taken(k, g[n].chunks, q, n, T)}
<1>5. 0 \in P
  <2>1. Taken(k, k, q, 0, T)
    BY <1>1, LenProperties DEF Taken
  <2> QED
    BY <1>1, <1>3, <2>1
<1>6. ASSUME NEW n \in 1 .. N, n - 1 \in P PROVE n \in P
  <2> DEFINE p == n - 1
             a == g[p].chunks
             b == g[n].chunks
  <2>1. /\ p \in Nat /\ p \in 0 .. N /\ n = p + 1 /\ n \in 0 .. N
        /\ a \in Seq(Chunks) /\ Taken(k, a, q, p, T) /\ q[n] \in Lots
        /\ g[n] = MatchLot(g[p], q[n], t) /\ g[p] \in Matching
    BY <1>1, <1>3, <1>4, <1>6
  <2>2. \/ b = a /\ g[p].left = 0
        \/ \E c \in Chunks : c.buy = q[n].buy /\ c.sell = T /\ b = Append(a, c)
    <3> DEFINE x == g[p]
               y == MatchLot(x, q[n], t)
    <3>1. x \in Matching /\ q[n] \in Lots /\ b = y.chunks /\ a = x.chunks
      BY <2>1
    <3> HIDE DEF x, a, b
    <3>2. \/ y.chunks = x.chunks /\ x.left = 0
          \/ \E c \in Chunks : c.buy = q[n].buy /\ c.sell = t.created_at
                               /\ y.chunks = Append(x.chunks, c)
      BY <3>1, LotTaken
    <3> HIDE DEF y
    <3>3. \/ b = a /\ x.left = 0
          \/ \E c \in Chunks : c.buy = q[n].buy /\ c.sell = T /\ b = Append(a, c)
      BY <3>1, <3>2 DEF T
    <3> QED
      BY <3>3 DEF x
  <2>3. p = 0 => g[p].left # 0 /\ a = k
    BY <1>1, <1>3
  <2> HIDE DEF p, a, b
  <2>4. Taken(k, b, q, n, T)
    <3>1. CASE b = a /\ g[p].left = 0
      <4>1. p >= 1 /\ \A j \in 1 .. p : j \in 1 .. n
        BY <2>1, <2>3, <3>1
      <4> QED
        BY <2>1, <3>1, <4>1 DEF Taken
    <3>2. ASSUME NEW c \in Chunks, c.buy = q[n].buy, c.sell = T, b = Append(a, c)
          PROVE  Taken(k, b, q, n, T)
      <4>1. Taken(k, Append(a, c), q, n, T)
        BY <1>1, <2>1, <2>3, <3>2, TakenOn
      <4> QED
        BY <3>2, <4>1
    <3> QED
      BY <2>2, <3>1, <3>2
  <2> QED
    BY <2>1, <2>4 DEF b
<1>7. N \in P
  <2> HIDE DEF P
  <2>1. \A n \in 0 .. N : n \in P
    BY <1>1, <1>5, <1>6, Upwards
  <2> QED
    BY <1>1, <2>1
<1> QED
  BY <1>2, <1>7 DEF N, k, T

\* Whoever has a lot has shares.
LEMMA OpenPositive ==
  ASSUME NEW q \in Seq(Lots)
  PROVE  OpenQuantity(q) \in Nat /\ (OpenQuantity(q) > 0 <=> q # <<>>)
<1> DEFINE N == Len(q)
<1>1. N \in Nat /\ (q # <<>> <=> N # 0)
  BY LenProperties, EmptySeq
<1>2. OpenQuantity(<<>>) = 0
  BY TotalOfZeros DEF OpenQuantity
<1>3. CASE q = <<>>
  BY <1>2, <1>3
<1>4. CASE q # <<>>
  <2> DEFINE p == Prefix(q, N - 1)
             lot == q[N]
  <2>1. N \in 1 .. N /\ N - 1 \in 0 .. N
    BY <1>1, <1>4
  <2>2. p \in Seq(Lots) /\ q = Append(p, lot) /\ lot \in Lots
    BY <2>1, PrefixGrows
  <2> HIDE DEF p, lot
  <2>3. OpenQuantity(p) \in Nat /\ OpenQuantity(q) = OpenQuantity(p) + lot.left
    BY <2>2, QueueSums
  <2>4. lot.left \in Nat \ {0}
    BY <2>2 DEF Lots
  <2> QED
    BY <1>4, <2>3, <2>4
<1> QED
  BY <1>3, <1>4

\* The shares held are those of the open lots.
LEMMA HeldIsOpen ==
  ASSUME NEW log \in Seq(TradeRow), NEW t \in TradeRow, NEW state \in FifoState,
         NEW k \in Nat, NEW time, time = k + 1, MatchingFollows(log, state, time)
  PROVE  Held(log, k) \in Int /\ (Held(log, k) > 0 <=> state.queue # <<>>)
<1>1. Before(log, "BUY", time) \in Nat /\ Before(log, "SELL", time) \in Nat
  BY BeforeAppend
<1>2. state.queue \in Seq(Lots)
  BY DEF FifoState
<1>3. OpenQuantity(state.queue) \in Nat
      /\ (OpenQuantity(state.queue) > 0 <=> state.queue # <<>>)
  BY <1>2, OpenPositive
<1>4. Before(log, "BUY", time) = Before(log, "SELL", time) + OpenQuantity(state.queue)
  BY DEF MatchingFollows
<1>5. Held(log, k) = Before(log, "BUY", time) - Before(log, "SELL", time)
  BY DEF Held
<1> QED
  BY <1>1, <1>3, <1>4, <1>5

\* A trade does not change what was held before it.
LEMMA HeldPast ==
  ASSUME NEW log \in Seq(TradeRow), NEW t \in TradeRow, NEW from \in Nat, NEW to \in Nat,
         to <= t.created_at
  PROVE  HeldBetween(Append(log, t), from, to) <=> HeldBetween(log, from, to)
<1>1. ASSUME NEW k \in from .. to - 1 PROVE Held(Append(log, t), k) = Held(log, k)
  <2> DEFINE m == k + 1
  <2>1. t.created_at \in Nat /\ m \in Nat /\ ~(t.created_at < m)
    BY DEF TradeRow
  <2> HIDE DEF m
  <2>2. \A kind : Before(log, kind, m) \in Nat
                  /\ Before(Append(log, t), kind, m) = Before(log, kind, m) + 0
    BY <2>1, BeforeAppend
  <2>3. \A kind : Before(Append(log, t), kind, m) = Before(log, kind, m)
    BY <2>2
  <2> QED
    BY <2>3 DEF Held, m
<1> QED
  BY <1>1 DEF HeldBetween

\* The lot that is next to be sold from, bought before the last sale or after it.
QueueInCycle(log, queue, chunks, time) ==
  queue # <<>> /\ chunks # <<>> =>
    (queue[1].buy <= Last(chunks).sell <=> HeldBetween(log, Last(chunks).sell, time))

\* What a log, and the lots and chunks of it, keep with every trade.
CyclesFollow(log, state, time) ==
  /\ ChunksInCycles(log, state.chunks, time)
  /\ QueueInCycle(log, state.queue, state.chunks, time)

\* What was held before time is the same in both logs.
SamePast(log, l, time) ==
  \A from, to \in Nat : to <= time => (HeldBetween(l, from, to) <=> HeldBetween(log, from, to))

\* The last chunk is of the past.
LEMMA LastInPast ==
  ASSUME NEW log, NEW chunks \in Seq(Chunks), NEW time \in Nat,
         ChunksInCycles(log, chunks, time), chunks # <<>>
  PROVE  Last(chunks).sell \in Nat /\ Last(chunks).sell < time
<1>1. Len(chunks) \in 1 .. Len(chunks)
  BY LenProperties, EmptySeq
<1>2. chunks[Len(chunks)] \in Chunks
  BY <1>1, ElementOfSeq
<1> QED
  BY <1>1, <1>2 DEF Last, ChunksInCycles, Chunks

\* Chunks of before are as they were.
LEMMA ChunksLater ==
  ASSUME NEW log, NEW l, NEW chunks \in Seq(Chunks), NEW time \in Nat,
         ChunksInCycles(log, chunks, time), SamePast(log, l, time)
  PROVE  ChunksInCycles(l, chunks, time + 1)
<1>1. \A n \in 1 .. Len(chunks) : chunks[n].sell \in Nat /\ chunks[n].sell < time
                                  /\ chunks[n].buy <= chunks[n].sell
  <2>1. \A n \in 1 .. Len(chunks) : chunks[n] \in Chunks
    BY ElementOfSeq
  <2> QED
    BY <2>1 DEF ChunksInCycles, Chunks
<1>2. ASSUME NEW n \in 2 .. Len(chunks)
      PROVE  /\ chunks[n - 1].sell <= chunks[n].sell
             /\ chunks[n].buy <= chunks[n - 1].sell
                  <=> HeldBetween(l, chunks[n - 1].sell, chunks[n].sell)
  <2> DEFINE from == chunks[n - 1].sell
             to   == chunks[n].sell
  <2>1. n \in 1 .. Len(chunks) /\ n - 1 \in 1 .. Len(chunks)
    BY LenProperties
  <2>2. from \in Nat /\ to \in Nat /\ to <= time
    BY <1>1, <2>1
  <2>3. from <= to /\ (chunks[n].buy <= from <=> HeldBetween(log, from, to))
    BY DEF ChunksInCycles
  <2> HIDE DEF from, to
  <2>4. HeldBetween(l, from, to) <=> HeldBetween(log, from, to)
    BY <2>2 DEF SamePast
  <2> QED
    BY <2>3, <2>4 DEF from, to
<1>3. \A n \in 1 .. Len(chunks) : chunks[n].buy <= chunks[n].sell /\ chunks[n].sell < time + 1
  BY <1>1
<1> QED
  BY <1>2, <1>3 DEF ChunksInCycles

\* Without a sale the position goes on if it was open, and else begins anew.
LEMMA QueueLater ==
  ASSUME NEW log \in Seq(TradeRow), NEW l \in Seq(TradeRow), NEW t \in TradeRow,
         NEW state \in FifoState, NEW x \in FifoState, NEW time \in Nat,
         MatchingFollows(log, state, time), MatchingFollows(l, x, time + 1),
         CyclesFollow(log, state, time), SamePast(log, l, time),
         x.chunks = state.chunks,
         state.queue # <<>> => x.queue # <<>> /\ x.queue[1] = state.queue[1],
         state.queue = <<>> /\ x.queue # <<>> => x.queue[1].buy = time
  PROVE  QueueInCycle(l, x.queue, x.chunks, time + 1)
<1> DEFINE q == state.queue
           r == x.queue
           k == state.chunks
           u == Last(k).sell
<1> SUFFICES ASSUME r # <<>>, k # <<>>
             PROVE  r[1].buy <= u <=> HeldBetween(l, u, time + 1)
  BY DEF QueueInCycle
<1>1. k \in Seq(Chunks)
  BY DEF FifoState
<1>2. u \in Nat /\ u < time
  BY <1>1, LastInPast DEF CyclesFollow
<1>3. q # <<>> => (q[1].buy <= u <=> HeldBetween(log, u, time))
  BY DEF CyclesFollow, QueueInCycle
<1>4. HeldBetween(l, u, time) <=> HeldBetween(log, u, time)
  BY <1>2 DEF SamePast
<1>5. Held(l, time) > 0
  BY HeldIsOpen
<1> HIDE DEF u
<1>6. CASE q # <<>>
  <2>1. \A j \in u .. (time + 1) - 1 : j = time \/ j \in u .. time - 1
    BY <1>2
  <2>2. \A j \in u .. time - 1 : j \in u .. (time + 1) - 1
    BY <1>2
  <2>3. HeldBetween(l, u, time + 1) <=> HeldBetween(l, u, time)
    BY <1>5, <2>1, <2>2 DEF HeldBetween
  <2> QED
    BY <1>3, <1>4, <1>6, <2>3
<1>7. CASE q = <<>>
  <2> DEFINE m == time - 1
  <2>1. m \in Nat /\ time = m + 1 /\ m \in u .. time - 1 /\ m \in u .. (time + 1) - 1
    BY <1>2
  <2> HIDE DEF m
  <2>2. ~(Held(log, m) > 0)
    BY <1>7, <2>1, HeldIsOpen
  <2>3. ~HeldBetween(log, u, time)
    BY <2>1, <2>2 DEF HeldBetween
  <2>4. \A j \in u .. time - 1 : j \in u .. (time + 1) - 1
    BY <1>2
  <2>5. ~HeldBetween(l, u, time + 1)
    BY <1>4, <2>3, <2>4 DEF HeldBetween
  <2>6. r[1].buy = time
    BY <1>7
  <2> QED
    BY <1>2, <2>5, <2>6
<1> QED
  BY <1>6, <1>7

\* Time that passes without a trade, or with a purchase.
LEMMA TimeCycles ==
  ASSUME NEW log \in Seq(TradeRow), NEW t \in TradeRow, NEW state \in FifoState,
         NEW time \in Nat, MatchingFollows(log, state, time), CyclesFollow(log, state, time)
  PROVE  CyclesFollow(log, state, time + 1)
<1>1. MatchingFollows(log, state, time + 1)
  BY TimeFollows
<1>2. SamePast(log, log, time)
  BY DEF SamePast
<1>3. state.chunks \in Seq(Chunks)
  BY DEF FifoState
<1>4. QueueInCycle(log, state.queue, state.chunks, time + 1)
  BY <1>1, <1>2, QueueLater
<1>5. ChunksInCycles(log, state.chunks, time + 1)
  BY <1>2, <1>3, ChunksLater DEF CyclesFollow
<1> QED
  BY <1>4, <1>5 DEF CyclesFollow

\* The past of a log with a trade more.
LEMMA AppendedPast ==
  ASSUME NEW log \in Seq(TradeRow), NEW t \in TradeRow
  PROVE  SamePast(log, Append(log, t), t.created_at)
BY HeldPast DEF SamePast

\* A purchase goes to the end of the queue.
LEMMA BuyCycles ==
  ASSUME NEW log \in Seq(TradeRow), NEW t \in TradeRow, NEW state \in FifoState,
         t.trade_type = "BUY", MatchingFollows(log, state, t.created_at),
         CyclesFollow(log, state, t.created_at)
  PROVE  CyclesFollow(Append(log, t), ProcessTrade(state, t), t.created_at + 1)
<1> DEFINE T   == t.created_at
           l   == Append(log, t)
           x   == ProcessTrade(state, t)
           q   == state.queue
           lot == Lot(t)
<1>1. /\ T \in Nat /\ l \in Seq(TradeRow) /\ q \in Seq(Lots) /\ state.chunks \in Seq(Chunks)
      /\ lot \in Lots /\ lot.buy = T
  BY AppendProperties DEF FifoState, TradeRow, Lot, Lots
<1>2. x \in FifoState
  BY ProcessTradeType
<1>3. x.queue = Append(q, lot) /\ x.chunks = state.chunks
  BY DEF ProcessTrade, FifoState
<1>4. MatchingFollows(l, x, T + 1)
  BY BuyFollows
<1>5. SamePast(log, l, T)
  BY AppendedPast
<1> HIDE DEF l, x, T, lot
<1>6. /\ q # <<>> => x.queue # <<>> /\ x.queue[1] = q[1]
      /\ q = <<>> => x.queue[1].buy = T
  <2> HIDE DEF q
  <2>1. /\ Append(q, lot) # <<>>
        /\ \A i \in 1 .. Len(q) : Append(q, lot)[i] = q[i]
        /\ Append(q, lot)[Len(q) + 1] = lot
        /\ Len(q) \in Nat /\ (q # <<>> => Len(q) # 0) /\ (q = <<>> => Len(q) = 0)
    BY <1>1, AppendProperties, LenProperties, EmptySeq
  <2>2. q # <<>> => 1 \in 1 .. Len(q)
    BY <2>1
  <2>3. q = <<>> => Append(q, lot)[1] = lot
    BY <2>1
  <2> QED
    BY <1>1, <1>3, <2>1, <2>2, <2>3
<1>7. MatchingFollows(log, state, T) /\ CyclesFollow(log, state, T)
  BY DEF T
<1>8. QueueInCycle(l, x.queue, x.chunks, T + 1)
  BY <1>1, <1>2, <1>3, <1>4, <1>5, <1>6, <1>7, QueueLater
<1>9. ChunksInCycles(l, x.chunks, T + 1)
  BY <1>1, <1>3, <1>5, <1>7, ChunksLater DEF CyclesFollow
<1> QED
  BY <1>8, <1>9 DEF CyclesFollow, l, x, T

\* A sale leaves everything when there is no lot.
LEMMA SaleOfNone ==
  ASSUME NEW state \in FifoState, NEW t \in TradeRow, state.queue = <<>>
  PROVE  MatchSale(state, t).left = t.quantity
<1> DEFINE q == state.queue
<1>1. q \in Seq(Lots) /\ Len(q) = 0
  BY DEF FifoState
<1>2. PICK g : SaleRun(g, state, q, t) /\ MatchSale(state, t) = g[Len(q)]
  BY <1>1, MatchSaleRuns
<1> QED
  BY <1>1, <1>2 DEF SaleRun

\* A sale takes the first lot first, and its chunks go on with the position of that lot.
LEMMA SaleCycles ==
  ASSUME NEW log \in Seq(TradeRow), NEW t \in TradeRow, NEW state \in FifoState,
         t.trade_type = "SELL", MatchingFollows(log, state, t.created_at),
         CyclesFollow(log, state, t.created_at), MatchSale(state, t).left = 0
  PROVE  CyclesFollow(Append(log, t), ProcessTrade(state, t), t.created_at + 1)
<1> DEFINE T == t.created_at
           l == Append(log, t)
           x == ProcessTrade(state, t)
           q == state.queue
           k == state.chunks
           c == x.chunks
           N == Len(k)
           M == Len(c)
<1>1. /\ T \in Nat /\ l \in Seq(TradeRow) /\ q \in Seq(Lots) /\ k \in Seq(Chunks)
      /\ t.quantity # 0
  BY AppendProperties DEF FifoState, TradeRow
<1>2. x \in FifoState /\ c \in Seq(Chunks) /\ x.queue \in Seq(Lots)
  <2>1. x \in FifoState
    BY ProcessTradeType
  <2> QED
    BY <2>1 DEF FifoState
<1>3. MatchingFollows(l, x, T + 1)
  BY SaleFollows
<1>4. SamePast(log, l, T)
  BY AppendedPast
<1>5. Taken(k, c, q, Len(q), T)
  <2>1. c = MatchSale(state, t).chunks
    BY DEF ProcessTrade
  <2>2. Taken(k, MatchSale(state, t).chunks, q, Len(q), T)
    BY <1>1, SaleChunks
  <2> QED
    BY <2>1, <2>2
<1>6. q # <<>>
  BY <1>1, SaleOfNone
<1>7. LotsDated(q, T) /\ LotsDated(x.queue, T + 1)
  BY <1>3 DEF MatchingFollows
<1>8. ChunksInCycles(log, k, T) /\ QueueInCycle(log, q, k, T)
  BY DEF CyclesFollow
<1> HIDE DEF l, x, T, q, k, c
<1>9. /\ N \in Nat /\ M \in Nat /\ Len(q) >= 1
      /\ \A i \in 1 .. Len(q) : q[i] \in Lots /\ q[i].buy \in Nat /\ q[i].buy < T
  <2>1. \A i \in 1 .. Len(q) : q[i] \in Lots
    BY <1>1, ElementOfSeq
  <2> QED
    BY <1>1, <1>2, <1>6, <1>7, <2>1, LenProperties, EmptySeq DEF LotsDated, Lots
<1>10. /\ N < M /\ \A i \in 1 .. N : c[i] = k[i]
       /\ \A i \in 1 .. M : i > N => c[i].sell = T /\ c[i].buy \in Nat /\ c[i].buy < T
       /\ c[N + 1].buy = q[1].buy
  <2>1. /\ N < M /\ \A i \in 1 .. N : c[i] = k[i]
        /\ \A i \in 1 .. M : i > N =>
             c[i].sell = T /\ \E j \in 1 .. Len(q) : c[i].buy = q[j].buy
    BY <1>5, <1>9 DEF Taken
  <2>2. c[N + 1].buy = q[1].buy
    BY <1>5, <1>9 DEF Taken
  <2> QED
    BY <1>9, <2>1, <2>2
<1>11. ChunksInCycles(l, k, T + 1)
  BY <1>1, <1>4, <1>8, ChunksLater
<1>12. HeldBetween(l, T, T)
  BY <1>1 DEF HeldBetween
<1>13. ASSUME NEW n \in 1 .. M PROVE c[n].buy <= c[n].sell /\ c[n].sell < T + 1
  <2>1. CASE n > N
    BY <1>1, <1>10, <2>1
  <2>2. CASE ~(n > N)
    <3>1. n \in 1 .. N
      BY <1>9, <2>2
    <3> QED
      BY <1>10, <1>11, <3>1 DEF ChunksInCycles
  <2> QED
    BY <2>1, <2>2
<1>14. ASSUME NEW n \in 2 .. M
       PROVE  /\ c[n - 1].sell <= c[n].sell
              /\ c[n].buy <= c[n - 1].sell <=> HeldBetween(l, c[n - 1].sell, c[n].sell)
  <2> DEFINE m == n - 1
  <2>1. n \in 1 .. M /\ m \in 1 .. M /\ n = m + 1
    BY <1>9
  <2>2. CASE m > N
    <3>1. n > N
      BY <1>9, <2>1, <2>2
    <3>2. c[m].sell = T /\ c[n].sell = T /\ c[n].buy <= T
      BY <1>1, <1>10, <2>1, <2>2, <3>1
    <3> HIDE DEF m
    <3>3. c[m].sell <= c[n].sell /\ c[n].buy <= c[m].sell
          /\ HeldBetween(l, c[m].sell, c[n].sell)
      BY <1>1, <1>12, <3>2
    <3> QED
      BY <3>3 DEF m
  <2>3. CASE m = N
    <3>1. k # <<>> /\ N \in 1 .. N /\ c[m] = k[N] /\ n > N /\ Last(k) = k[N]
      BY <1>9, <1>10, <2>1, <2>3 DEF Last
    <3> DEFINE u == Last(k).sell
    <3>2. u \in Nat /\ u < T
      BY <1>1, <1>8, <3>1, LastInPast
    <3>3. c[n].buy = q[1].buy /\ c[n].sell = T /\ c[m].sell = u
      BY <1>10, <2>1, <2>3, <3>1
    <3>4. q[1].buy <= u <=> HeldBetween(log, u, T)
      BY <1>6, <1>8, <3>1 DEF QueueInCycle
    <3> HIDE DEF u, m
    <3>5. HeldBetween(l, u, T) <=> HeldBetween(log, u, T)
      BY <1>1, <1>4, <3>2 DEF SamePast
    <3>6. c[m].sell <= c[n].sell
          /\ (c[n].buy <= c[m].sell <=> HeldBetween(l, c[m].sell, c[n].sell))
      BY <1>1, <3>2, <3>3, <3>4, <3>5
    <3> QED
      BY <3>6 DEF m
  <2>4. CASE m < N
    <3>1. n \in 2 .. N /\ n \in 1 .. N /\ m \in 1 .. N
      BY <1>9, <2>1, <2>4
    <3>2. c[n] = k[n] /\ c[n - 1] = k[n - 1]
      BY <1>10, <3>1
    <3> QED
      BY <1>11, <3>1, <3>2 DEF ChunksInCycles
  <2> QED
    BY <1>9, <2>1, <2>2, <2>3, <2>4
<1>15. QueueInCycle(l, x.queue, c, T + 1)
  <2> SUFFICES ASSUME x.queue # <<>>
               PROVE  x.queue[1].buy <= Last(c).sell <=> HeldBetween(l, Last(c).sell, T + 1)
    BY DEF QueueInCycle
  <2>1. Last(c).sell = T
    <3>1. M \in 1 .. M /\ M > N
      BY <1>9, <1>10
    <3> QED
      BY <1>10, <3>1 DEF Last
  <2>2. x.queue[1].buy <= T
    <3> DEFINE r == x.queue
    <3> HIDE DEF r
    <3>1. r \in Seq(Lots) /\ r # <<>> /\ LotsDated(r, T + 1)
      BY <1>2, <1>7 DEF r
    <3>2. 1 \in 1 .. Len(r)
      BY <3>1, LenProperties, EmptySeq
    <3>3. r[1] \in Lots /\ r[1].buy < T + 1
      BY <3>1, <3>2, ElementOfSeq DEF LotsDated
    <3>4. r[1].buy \in Nat
      BY <3>3 DEF Lots
    <3>5. r[1].buy <= T
      BY <1>1, <3>3, <3>4
    <3> QED
      BY <3>5 DEF r
  <2>3. Held(l, T) > 0
    BY <1>1, <1>2, <1>3, HeldIsOpen
  <2>4. \A j \in T .. (T + 1) - 1 : j = T
    BY <1>1
  <2>5. HeldBetween(l, T, T + 1)
    BY <2>3, <2>4 DEF HeldBetween
  <2> QED
    BY <2>1, <2>2, <2>5
<1>16. ChunksInCycles(l, c, T + 1)
  BY <1>13, <1>14 DEF ChunksInCycles
<1> QED
  BY <1>15, <1>16 DEF CyclesFollow, l, x, T, c

\* For each symbol: its chunks, and the lot that is next, go by the cycles of its log.
PositionsAreCycles ==
  \A s \in Symbols : CyclesFollow(OfSymbol(trades, s), Fifo[s], Len(trades) + 1)

\* It holds of an empty log.
LEMMA CyclesInit == Init => PositionsAreCycles
<1> SUFFICES ASSUME Init, NEW s \in Symbols
             PROVE  CyclesFollow(OfSymbol(trades, s), Fifo[s], Len(trades) + 1)
  BY DEF PositionsAreCycles
<1>1. /\ OfSymbol(trades, s) = <<>> /\ Fifo[s].queue = <<>> /\ Fifo[s].chunks = <<>>
  <2>1. <<>> \in Seq({1}) /\ Len(<<>>) = 0
    OBVIOUS
  <2>2. PICK g : GatherRun(g, {1}, <<>>, s) /\ OfSymbol(<<>>, s) = g[0]
    BY <2>1, OfSymbolRuns
  <2>3. OfSymbol(<<>>, s) = <<>>
    BY <2>2 DEF GatherRun
  <2> QED
    BY <2>3, FifoOfNone DEF Fifo, Init
<1>2. Len(<<>>) = 0 /\ \A n : n \notin 1 .. 0 /\ n \notin 2 .. 0
  OBVIOUS
<1> QED
  BY <1>1, <1>2 DEF CyclesFollow, ChunksInCycles, QueueInCycle

\* A fill is one trade more for one symbol, and for the others time.
LEMMA CyclesFill ==
  ASSUME HistoryTypes, LotsCoverHoldings, LotsCoverHoldings', MatchingIsFifo,
         PositionsAreCycles, NEW s \in Symbols, NEW t \in TradeTypes,
         NEW q \in Quantities, NEW p \in Prices, Fill(s, t, q, p)
  PROVE  PositionsAreCycles'
<1> DEFINE e == NewTrade(s, t, q, p)
           N == Len(trades)
<1>1. /\ e \in TradeRow /\ trades' = Append(trades, e) /\ N \in Nat
      /\ e.symbol = s /\ e.trade_type = t /\ e.created_at = N + 1
  BY FillFacts DEF NewTrade
<1>2. /\ Fifo \in [Symbols -> FifoState]
      /\ Fifo'[s] = ProcessTrade(Fifo[s], e)
      /\ \A r \in Symbols \ {s} : Fifo'[r] = Fifo[r]
  BY FifoStep
<1> HIDE DEF e
<1>3. trades \in Seq(TradeRow)
  BY DEF HistoryTypes
<1>4. \A r \in Symbols :
        /\ OfSymbol(trades, r) \in Seq(TradeRow)
        /\ OfSymbol(trades', r) = IF e.symbol = r THEN Append(OfSymbol(trades, r), e)
                                  ELSE OfSymbol(trades, r)
  BY <1>1, <1>3, OfSymbolAppend
<1>5. Len(trades') = N + 1
  BY <1>1, <1>3, AppendProperties
<1> SUFFICES ASSUME NEW r \in Symbols
             PROVE  CyclesFollow(OfSymbol(trades', r), Fifo'[r], Len(trades') + 1)
  BY DEF PositionsAreCycles
<1> DEFINE log == OfSymbol(trades, r)
           f   == Fifo[r]
           T   == N + 1
<1>6. /\ log \in Seq(TradeRow) /\ f \in FifoState /\ T \in Nat
      /\ MatchingFollows(log, f, T) /\ CyclesFollow(log, f, T)
  BY <1>1, <1>2, <1>4 DEF MatchingIsFifo, PositionsAreCycles
<1> HIDE DEF log, f, T, N
<1>7. CASE r # s
  <2>1. OfSymbol(trades', r) = log /\ Fifo'[r] = f /\ Len(trades') + 1 = T + 1
    BY <1>1, <1>2, <1>4, <1>5, <1>7 DEF log, f, T
  <2>2. CyclesFollow(log, f, T + 1)
    BY <1>1, <1>6, TimeCycles
  <2> QED
    BY <2>1, <2>2
<1>8. CASE r = s
  <2>1. /\ OfSymbol(trades', r) = Append(log, e) /\ Fifo'[r] = ProcessTrade(f, e)
        /\ Len(trades') + 1 = T + 1 /\ e.created_at = T
    BY <1>1, <1>2, <1>4, <1>5, <1>8 DEF log, f, T
  <2>2. CASE t = "BUY"
    <3>1. CyclesFollow(Append(log, e), ProcessTrade(f, e), T + 1)
      BY <1>1, <1>6, <2>1, <2>2, BuyCycles
    <3> QED
      BY <2>1, <3>1
  <2>3. CASE t = "SELL"
    <3>1. ProcessTrade(f, e).unmatched = 0
      BY <2>1 DEF LotsCoverHoldings
    <3>2. MatchSale(f, e).left = 0
      BY <1>1, <1>6, <2>3, <3>1, SaleIsMatched
    <3>3. CyclesFollow(Append(log, e), ProcessTrade(f, e), T + 1)
      BY <1>1, <1>6, <2>1, <2>3, <3>2, SaleCycles
    <3> QED
      BY <2>1, <3>3
  <2> QED
    BY <2>2, <2>3 DEF TradeTypes
<1> QED
  BY <1>7, <1>8

\* Every step keeps it: a reset leaves the trades alone.
LEMMA CyclesStep ==
  HistoryTypes /\ LotsCoverHoldings /\ MatchingIsFifo /\ PositionsAreCycles /\ [Next]_vars
    => PositionsAreCycles'
<1> SUFFICES ASSUME HistoryTypes, LotsCoverHoldings, MatchingIsFifo, PositionsAreCycles,
                    [Next]_vars
             PROVE  PositionsAreCycles'
  OBVIOUS
<1>1. LotsCoverHoldings'
  BY LotsStep
<1>2. ASSUME trades' = trades PROVE PositionsAreCycles'
  <2>1. Fifo' = Fifo
    BY <1>2 DEF Fifo
  <2> QED
    BY <1>2, <2>1 DEF PositionsAreCycles
<1>3. CASE Reset
  BY <1>2, <1>3 DEF Reset
<1>4. CASE UNCHANGED vars
  BY <1>2, <1>4 DEF vars
<1>5. ASSUME NEW s \in Symbols, NEW t \in TradeTypes, NEW q \in Quantities, NEW p \in Prices,
             Fill(s, t, q, p)
      PROVE  PositionsAreCycles'
  BY <1>1, <1>5, CyclesFill
<1> QED
  BY <1>3, <1>4, <1>5 DEF Next

\* A closed position is one cycle of the holding from nothing to nothing: two sales
\* are in one campaign just if shares were held all the time between, for every log.
THEOREM CampaignsFollowHoldings == Spec => []CampaignsAreCycles
<1>1. HistoryTypes /\ PositionsAreCycles => CampaignsAreCycles
  <2> SUFFICES ASSUME HistoryTypes, PositionsAreCycles, NEW s \in Symbols
               PROVE  LET log       == OfSymbol(trades, s)
                          campaigns == GroupChunksIntoPositions(Fifo[s].chunks)
                      IN  \A i, j \in DOMAIN campaigns :
                            \A c \in Range(campaigns[i]), d \in Range(campaigns[j]) :
                              c.sell < d.sell =>
                                (i = j <=> \A k \in c.sell .. d.sell - 1 : Held(log, k) > 0)
    BY DEF CampaignsAreCycles
  <2> DEFINE log       == OfSymbol(trades, s)
             chunks    == Fifo[s].chunks
             campaigns == GroupChunksIntoPositions(chunks)
  <2>1. chunks \in Seq(Chunks)
    <3>1. Fifo[s] \in FifoState
      BY FifoStep
    <3> QED
      BY <3>1 DEF FifoState
  <2>2. ByCycles(log, campaigns)
    BY <2>1, CampaignsOfChunks DEF PositionsAreCycles, CyclesFollow
  <2>3. DOMAIN campaigns = 1 .. Len(campaigns)
    <3>1. PICK g : GroupRun(g, chunks) /\ campaigns = g[Len(chunks)]
      BY <2>1, GroupRuns
    <3>2. Len(chunks) \in 0 .. Len(chunks)
      BY <2>1, LenProperties
    <3> HIDE DEF campaigns
    <3>3. campaigns \in Campaigns
      BY <3>1, <3>2 DEF GroupRun
    <3> QED
      BY <3>3, LenProperties DEF Campaigns
  <2> HIDE DEF campaigns, log
  <2>4. \A i, j \in DOMAIN campaigns :
          \A c \in Range(campaigns[i]), d \in Range(campaigns[j]) :
            c.sell < d.sell =>
              (i = j <=> \A k \in c.sell .. d.sell - 1 : Held(log, k) > 0)
    BY <2>2, <2>3 DEF ByCycles, HeldBetween
  <2> QED
    BY <2>4 DEF campaigns, log
<1> QED
  BY <1>1, HistoryTypesInit, HistoryTypesStep, LotsInit, LotsStep, MatchingInit, MatchingStep,
     CyclesInit, CyclesStep, PTL DEF Spec

-----------------------------------------------------------------------------
(* Reviews and their cache.                                                 *)

Logs     == SUBSET (1 .. MaxCommits)
LastIds  == {LastOf(s) : s \in Logs}
Response == [log : Logs, by : Answers]

Row ==
  [summary : Logs, response : Response, source : Answers, schema : {"old", "new"},
   trade_count : Nat, last_trade_id : LastIds \cup {0}, stale : BOOLEAN]

Session ==
  [pc : {"idle"}]
    \cup [pc : {"last"}, force : BOOLEAN, seen : Logs, trade_count : Nat]
    \cup [pc : {"lookup"}, force : BOOLEAN, seen : Logs, trade_count : Nat,
          last_trade_id : LastIds]
    \cup [pc : {"load"}, trade_count : Nat, last_trade_id : LastIds, row : Nat,
          image : Row \cup {Idle}]
    \cup [pc : {"await"}, trade_count : Nat, last_trade_id : LastIds, row : Nat,
          image : Row \cup {Idle}, summary : Logs]

Typed ==
  /\ committed \in Logs
  /\ reviews \in Seq(Row)
  /\ sess \in [Requests -> Session]
  /\ overlap \in BOOLEAN

Counting(x) == sess[x].pc \in {"last", "lookup"}
Making(x)   == sess[x].pc \in {"load", "await"}

\* What two requests saw of the growing log is more or less of the same.
InLine(a, b) == a \subseteq b \/ b \subseteq a

\* c counts the trades b, an earlier state of the log.
Counted(b, c) ==
  /\ b \subseteq committed /\ c = Cardinality(b)
  /\ \A x \in Requests : Counting(x) => InLine(b, sess[x].seen)

\* A request that counts has counted what it saw.
CountsOK(x) == Counting(x) => Counted(sess[x].seen, sess[x].trade_count)

\* A row of the fallback says so.
SourcesOK ==
  \A i \in 1 .. Len(reviews) : reviews[i].source = "ai" => reviews[i].response.by = "ai"

\* A row coaches on all the trades its key counts.
RowsOK ==
  \A i \in 1 .. Len(reviews) : reviews[i].schema = "new" =>
    \E b \in Logs : Counted(b, reviews[i].trade_count) /\ b \subseteq reviews[i].response.log

\* A review in the making knows the row as it is, and counted before it loads.
MakingOK(x) ==
  Making(x) =>
    /\ sess[x].row = Len(reviews)
    /\ sess[x].row > 0 => sess[x].image = reviews[sess[x].row]
    /\ \E b \in Logs : /\ Counted(b, sess[x].trade_count)
                       /\ sess[x].pc = "await" => b \subseteq sess[x].summary

ReviewsInv ==
  /\ Typed
  /\ \A x \in Requests : CountsOK(x)
  /\ SourcesOK
  /\ ~overlap => RowsOK /\ \A x \in Requests : MakingOK(x)
  /\ FallbackNotCached
  /\ HitIsCurrent

-----------------------------------------------------------------------------
\* Trades are finitely many.
LEMMA LogsAreFinite == \A s \in Logs : IsFiniteSet(s) /\ Cardinality(s) \in Nat
<1>1. IsFiniteSet(1 .. MaxCommits)
  BY CommitsAssumption, FS_Interval
<1>2. ASSUME NEW s \in Logs PROVE IsFiniteSet(s)
  BY <1>1, FS_Subset DEF Logs
<1> QED
  BY <1>2, FS_CardinalityType

\* Two states of the log of the same size are the same.
LEMMA SameCount ==
  ASSUME NEW a \in Logs, NEW b \in Logs, InLine(a, b), Cardinality(a) = Cardinality(b)
  PROVE  a = b
<1>1. IsFiniteSet(a) /\ IsFiniteSet(b)
  BY LogsAreFinite
<1>2. CASE a \subseteq b
  BY <1>1, <1>2, FS_Subset
<1>3. CASE b \subseteq a
  BY <1>1, <1>3, FS_Subset
<1> QED
  BY <1>2, <1>3 DEF InLine

\* What a session carries.
LEMMA SessionByPc ==
  ASSUME NEW s \in Session
  PROVE  /\ s.pc \in {"last", "lookup"} => s.force \in BOOLEAN /\ s.seen \in Logs
         /\ s.pc \in {"last", "lookup", "load", "await"} => s.trade_count \in Nat
         /\ s.pc \in {"lookup", "load", "await"} => s.last_trade_id \in LastIds
         /\ s.pc \in {"load", "await"} => s.row \in Nat /\ s.image \in Row \cup {Idle}
         /\ s.pc = "await" => s.summary \in Logs
BY DEF Session, Idle

\* A step of one request that writes no row: it goes on as s, or becomes one that has
\* counted the present log, and what it makes is as it should be.
LEMMA RequestGoesOn ==
  ASSUME ReviewsInv, NEW x \in Requests, NEW s \in Session, Goto(x, s),
         UNCHANGED <<committed, reviews, overlap>>,
         Counting(x)' => \/ s.seen = committed /\ s.trade_count = Cardinality(committed)
                         \/ /\ Counting(x)
                            /\ s.seen = sess[x].seen /\ s.trade_count = sess[x].trade_count,
         ~overlap => MakingOK(x)',
         FallbackNotCached', HitIsCurrent'
  PROVE  ReviewsInv'
<1>1. /\ sess' \in [Requests -> Session] /\ sess'[x] = s
      /\ \A y \in Requests \ {x} : sess'[y] = sess[y]
  BY DEF Goto, ReviewsInv, Typed
<1>2. Typed'
  BY <1>1 DEF ReviewsInv, Typed
<1>3. \A b, c : Counted(b, c) => Counted(b, c)'
  <2> SUFFICES ASSUME NEW b, NEW c, Counted(b, c), NEW y \in Requests, Counting(y)'
               PROVE  InLine(b, sess'[y].seen)
    BY DEF Counted, InLine
  <2>1. CASE y = x
    BY <1>1, <2>1 DEF Counted, InLine
  <2>2. CASE y # x
    BY <1>1, <2>2 DEF Counted, Counting
  <2> QED
    BY <2>1, <2>2
<1>4. \A y \in Requests : CountsOK(y)'
  <2> SUFFICES ASSUME NEW y \in Requests, Counting(y)'
               PROVE  Counted(sess[y].seen, sess[y].trade_count)'
    BY DEF CountsOK
  <2>1. CASE y # x
    <3>1. sess'[y] = sess[y] /\ Counting(y)
      BY <1>1, <2>1 DEF Counting
    <3>2. Counted(sess[y].seen, sess[y].trade_count)
      BY <3>1 DEF ReviewsInv, CountsOK
    <3> QED
      BY <1>3, <3>1, <3>2 DEF Counted, Counting, InLine
  <2>2. CASE y = x /\ Counting(x) /\ s.seen = sess[x].seen /\ s.trade_count = sess[x].trade_count
    <3>1. Counted(sess[x].seen, sess[x].trade_count)
      BY <2>2 DEF ReviewsInv, CountsOK
    <3>2. sess'[y].seen = sess[x].seen /\ sess'[y].trade_count = sess[x].trade_count
      BY <1>1, <2>2
    <3> QED
      BY <1>3, <3>1, <3>2 DEF Counted, Counting, InLine
  <2>3. CASE y = x /\ s.seen = committed /\ s.trade_count = Cardinality(committed)
    <3>1. \A z \in Requests : Counting(z)' => sess'[z].seen \subseteq committed
      BY <1>1, <2>3 DEF ReviewsInv, CountsOK, Counted, Counting
    <3> QED
      BY <1>1, <2>3, <3>1 DEF Counted, InLine
  <2> QED
    BY <2>1, <2>2, <2>3
<1>5. SourcesOK'
  BY DEF ReviewsInv, SourcesOK
<1>6. ASSUME ~overlap PROVE RowsOK' /\ \A y \in Requests : MakingOK(y)'
  <2>1. RowsOK'
    BY <1>3, <1>6 DEF ReviewsInv, RowsOK
  <2>2. ASSUME NEW y \in Requests \ {x} PROVE MakingOK(y)'
    <3>1. MakingOK(y) /\ sess'[y] = sess[y]
      BY <1>1, <1>6, <2>2 DEF ReviewsInv
    <3> QED
      BY <1>3, <3>1 DEF MakingOK, Making
  <2> QED
    BY <1>6, <2>1, <2>2
<1> QED
  BY <1>2, <1>4, <1>5, <1>6 DEF ReviewsInv

\* A trade is committed: the log grows.
LEMMA TradeStep ==
  ASSUME ReviewsInv, NEW t \in 1 .. MaxCommits, TradeCommits(t)
  PROVE  ReviewsInv'
<1>1. committed' = committed \cup {t} /\ UNCHANGED <<reviews, sess, served, overlap>>
  BY DEF TradeCommits
<1>2. Typed'
  BY <1>1 DEF ReviewsInv, Typed, Logs
<1>3. \A b, c : Counted(b, c) => Counted(b, c)'
  BY <1>1 DEF Counted, Counting, InLine
<1>4. \A x \in Requests : CountsOK(x)'
  <2> SUFFICES ASSUME NEW x \in Requests, Counting(x)
               PROVE  Counted(sess[x].seen, sess[x].trade_count)'
    BY <1>1 DEF CountsOK, Counting
  <2> QED
    BY <1>1 DEF ReviewsInv, CountsOK, Counted, Counting, InLine
<1>5. ~overlap => RowsOK' /\ \A x \in Requests : MakingOK(x)'
  BY <1>1, <1>3 DEF ReviewsInv, RowsOK, MakingOK, Making
<1> QED
  BY <1>1, <1>2, <1>4, <1>5 DEF ReviewsInv, SourcesOK, FallbackNotCached, HitIsCurrent

\* The request counts the trades.
LEMMA ReadCountStep ==
  ASSUME ReviewsInv, NEW x \in Requests, ReadCount(x)
  PROVE  ReviewsInv'
<1>1. PICK force \in BOOLEAN :
        Goto(x, [pc |-> "last", force |-> force, seen |-> committed, trade_count |-> Cardinality(committed)])
  BY DEF ReadCount
<1> DEFINE s == [pc |-> "last", force |-> force, seen |-> committed, trade_count |-> Cardinality(committed)]
<1>2. UNCHANGED <<committed, reviews, served, overlap>>
  BY DEF ReadCount
<1>3. s \in Session
  BY LogsAreFinite DEF Session, ReviewsInv, Typed
<1>4. sess'[x] = s
  BY <1>1 DEF Goto, ReviewsInv, Typed
<1>5. MakingOK(x)'
  BY <1>4 DEF MakingOK, Making
<1>6. FallbackNotCached' /\ HitIsCurrent'
  BY <1>2 DEF ReviewsInv, FallbackNotCached, HitIsCurrent
<1>7. s.seen = committed /\ s.trade_count = Cardinality(committed) /\ Goto(x, s)
  BY <1>1
<1> HIDE DEF s
<1> QED
  BY <1>2, <1>3, <1>5, <1>6, <1>7, RequestGoesOn

\* The request reads the last trade.
LEMMA ReadLastStep ==
  ASSUME ReviewsInv, NEW x \in Requests, ReadLast(x)
  PROVE  ReviewsInv'
<1> DEFINE s == [pc |-> "lookup", force |-> sess[x].force, seen |-> sess[x].seen,
                 trade_count |-> sess[x].trade_count, last_trade_id |-> LastOf(committed)]
<1>1. /\ UNCHANGED <<committed, reviews, served, overlap>> /\ Goto(x, s)
      /\ sess[x].pc = "last" /\ sess[x] \in Session
  BY DEF ReadLast, ReviewsInv, Typed
<1>2. s \in Session
  <2>1. /\ sess[x].force \in BOOLEAN /\ sess[x].seen \in Logs /\ sess[x].trade_count \in Nat
        /\ LastOf(committed) \in LastIds
    BY <1>1, SessionByPc DEF LastIds, ReviewsInv, Typed
  <2> QED
    BY <2>1 DEF Session
<1>3. sess'[x] = s
  BY <1>1 DEF Goto, ReviewsInv, Typed
<1>4. MakingOK(x)'
  BY <1>3 DEF MakingOK, Making
<1>5. FallbackNotCached' /\ HitIsCurrent'
  BY <1>1 DEF ReviewsInv, FallbackNotCached, HitIsCurrent
<1>6. Counting(x) /\ s.seen = sess[x].seen /\ s.trade_count = sess[x].trade_count
  BY <1>1 DEF Counting
<1> HIDE DEF s
<1> QED
  BY <1>1, <1>2, <1>4, <1>5, <1>6, RequestGoesOn

\* The cached review is answered: its key counts the trades the request counted,
\* and they are the same trades.
LEMMA HitStep ==
  ASSUME ReviewsInv, NEW x \in Requests, sess[x].pc = "lookup", Len(reviews) > 0,
         IsCacheValid(reviews[Len(reviews)], sess[x]), Goto(x, Idle),
         served' = [hit |-> TRUE, response |-> reviews[Len(reviews)].response,
                    seen |-> sess[x].seen],
         UNCHANGED <<committed, reviews, overlap>>
  PROVE  ReviewsInv'
<1> DEFINE n == Len(reviews)
<1>1. n \in 1 .. Len(reviews) /\ sess[x] \in Session
  BY DEF ReviewsInv, Typed
<1>2. FallbackNotCached'
  BY <1>1 DEF IsCacheValid, FallbackNotCached, ReviewsInv, SourcesOK
<1>3. ASSUME ~overlap PROVE sess[x].seen \subseteq reviews[n].response.log
  <2>1. PICK b \in Logs : Counted(b, reviews[n].trade_count) /\ b \subseteq reviews[n].response.log
    BY <1>1, <1>3 DEF ReviewsInv, RowsOK, IsCacheValid
  <2>2. /\ reviews[n].trade_count = sess[x].trade_count /\ sess[x].seen \in Logs
        /\ Counted(sess[x].seen, sess[x].trade_count) /\ InLine(b, sess[x].seen)
    BY <1>1, <2>1, SessionByPc DEF IsCacheValid, ReviewsInv, CountsOK, Counting, Counted
  <2>3. b = sess[x].seen
    BY <2>1, <2>2, SameCount DEF Counted
  <2> QED
    BY <2>1, <2>3
<1>4. HitIsCurrent'
  BY <1>3 DEF HitIsCurrent
<1>5. Idle \in Session /\ sess'[x] = Idle
  BY DEF Idle, Session, Goto, ReviewsInv, Typed
<1>6. ~Counting(x)' /\ MakingOK(x)'
  BY <1>5 DEF Counting, MakingOK, Making, Idle
<1> QED
  BY <1>2, <1>4, <1>5, <1>6, RequestGoesOn

\* The newest row is answered, or kept as the image.
LEMMA LookupStep ==
  ASSUME ReviewsInv, NEW x \in Requests, Lookup(x)
  PROVE  ReviewsInv'
<1> DEFINE n == Len(reviews)
           s == [pc |-> "load", trade_count |-> sess[x].trade_count,
                 last_trade_id |-> sess[x].last_trade_id,
                 row |-> n, image |-> IF n > 0 THEN reviews[n] ELSE Idle]
<1>1. /\ UNCHANGED <<committed, reviews, overlap>> /\ sess[x].pc = "lookup" /\ sess[x] \in Session
      /\ n \in Nat
  BY DEF Lookup, ReviewsInv, Typed
<1>2. CASE n > 0 /\ IsCacheValid(reviews[n], sess[x])
  BY <1>1, <1>2, HitStep DEF Lookup
<1>3. CASE ~(n > 0 /\ IsCacheValid(reviews[n], sess[x]))
  <2>1. Goto(x, s) /\ UNCHANGED served
    BY <1>3 DEF Lookup
  <2>2. s \in Session
    <3>1. /\ sess[x].trade_count \in Nat /\ sess[x].last_trade_id \in LastIds
          /\ (IF n > 0 THEN reviews[n] ELSE Idle) \in Row \cup {Idle}
      BY <1>1, SessionByPc DEF ReviewsInv, Typed
    <3> QED
      BY <1>1, <3>1 DEF Session
  <2>3. sess'[x] = s /\ sess[x].seen \in Logs /\ \A y \in Requests \ {x} : sess'[y] = sess[y]
    BY <1>1, <2>1, SessionByPc DEF Goto, ReviewsInv, Typed
  <2>4. ~Counting(x)'
    BY <2>3 DEF Counting
  <2>5. Counted(sess[x].seen, sess[x].trade_count)
    BY <1>1 DEF ReviewsInv, CountsOK, Counting
  <2>6. \E b \in Logs : Counted(b, sess[x].trade_count)'
    <3>0. PICK b, c : b \in Logs /\ b = sess[x].seen /\ c = sess[x].trade_count
      BY <2>3
    <3>1. b \subseteq committed /\ c = Cardinality(b)
          /\ \A y \in Requests : Counting(y) => InLine(b, sess[y].seen)
      BY <2>5, <3>0 DEF Counted
    <3>2. \A y \in Requests : Counting(y)' => InLine(b, sess'[y].seen)
      BY <2>3, <2>4, <3>1 DEF Counting
    <3>3. sess'[x].trade_count = c
      BY <2>3, <3>0
    <3> QED
      BY <1>1, <3>0, <3>1, <3>2, <3>3 DEF Counted
  <2>7. MakingOK(x)'
    BY <1>1, <2>3, <2>6 DEF MakingOK
  <2>8. FallbackNotCached' /\ HitIsCurrent'
    BY <1>1, <2>1 DEF ReviewsInv, FallbackNotCached, HitIsCurrent
  <2> HIDE DEF s
  <2> QED
    BY <1>1, <2>1, <2>2, <2>4, <2>7, <2>8, RequestGoesOn
<1> QED
  BY <1>2, <1>3

\* generate_summary loads no fewer trades than were counted.
LEMMA LoadTradesStep ==
  ASSUME ReviewsInv, NEW x \in Requests, LoadTrades(x)
  PROVE  ReviewsInv'
<1> DEFINE s == [pc |-> "await", trade_count |-> sess[x].trade_count,
                 last_trade_id |-> sess[x].last_trade_id, row |-> sess[x].row,
                 image |-> sess[x].image, summary |-> committed]
<1>1. /\ UNCHANGED <<committed, reviews, served, overlap>> /\ Goto(x, s)
      /\ sess[x].pc = "load" /\ sess[x] \in Session /\ committed \in Logs
  BY DEF LoadTrades, ReviewsInv, Typed
<1>2. s \in Session
  <2>1. /\ sess[x].trade_count \in Nat /\ sess[x].last_trade_id \in LastIds
        /\ sess[x].row \in Nat /\ sess[x].image \in Row \cup {Idle}
    BY <1>1, SessionByPc
  <2> QED
    BY <1>1, <2>1 DEF Session
<1>3. sess'[x] = s /\ \A y \in Requests \ {x} : sess'[y] = sess[y]
  BY <1>1 DEF Goto, ReviewsInv, Typed
<1>4. ~Counting(x)'
  BY <1>3 DEF Counting
<1>5. ASSUME ~overlap PROVE MakingOK(x)'
  <2>1. /\ sess[x].row = Len(reviews) /\ (sess[x].row > 0 => sess[x].image = reviews[sess[x].row])
        /\ \E b \in Logs : Counted(b, sess[x].trade_count)
    BY <1>1, <1>5 DEF ReviewsInv, MakingOK, Making
  <2>2. PICK b \in Logs : Counted(b, sess[x].trade_count)
    BY <2>1
  <2>3. sess'[x].trade_count = sess[x].trade_count /\ sess'[x].summary = committed
    BY <1>3
  <2>4. Counted(b, sess[x].trade_count)' /\ b \subseteq committed
    BY <1>1, <1>3, <1>4, <2>2, <2>3 DEF Counted, Counting
  <2> QED
    BY <1>1, <1>3, <2>1, <2>4 DEF MakingOK
<1>6. FallbackNotCached' /\ HitIsCurrent'
  BY <1>1 DEF ReviewsInv, FallbackNotCached, HitIsCurrent
<1> HIDE DEF s
<1> QED
  BY <1>1, <1>2, <1>4, <1>5, <1>6, RequestGoesOn

\* The row after an update: its coaching and the source of it are written together.
LEMMA OverwrittenRow ==
  ASSUME NEW old \in Row, NEW new \in Row, NEW image, NEW alike
  PROVE  LET w == Overwritten(old, new, image, alike)
         IN  /\ w \in Row
             /\ \/ w.response = new.response /\ w.source = new.source
                \/ w.response = old.response /\ w.source = old.source
             /\ image = old => w = new
<1> DEFINE w == Overwritten(old, new, image, alike)
<1>1. DOMAIN new = {"summary", "response", "source", "schema", "trade_count",
                    "last_trade_id", "stale"}
  BY DEF Row
<1>2. \A c \in DOMAIN new : w[c] \in {old[c], new[c]}
  BY DEF Overwritten
<1>3. /\ DOMAIN w = DOMAIN new /\ w = [c \in DOMAIN new |-> w[c]]
  BY DEF Overwritten
<1>4. w \in Row
  BY <1>1, <1>2, <1>3 DEF Row
<1>5. \/ w.response = new.response /\ w.source = new.source
      \/ w.response = old.response /\ w.source = old.source
  BY <1>1 DEF Overwritten, ResponseJson
<1>6. ASSUME image = old PROVE w = new
  <2>1. \A c \in DOMAIN new : w[c] = new[c]
    BY <1>1, <1>6 DEF Overwritten, ResponseJson
  <2>2. new = [c \in DOMAIN new |-> new[c]]
    BY DEF Row
  <2> QED
    BY <1>3, <2>1, <2>2
<1> QED
  BY <1>4, <1>5, <1>6

\* The review is saved.
LEMMA SaveStep ==
  ASSUME ReviewsInv, NEW x \in Requests, Save(x)
  PROVE  ReviewsInv'
<1>1. PICK source \in Answers, alike \in BOOLEAN :
        LET new == Composed(sess[x], source)
        IN  /\ IF sess[x].row > 0
               THEN reviews' = [reviews EXCEPT ![sess[x].row]
                                     = Overwritten(@, new, sess[x].image, alike)]
               ELSE reviews' = Append(reviews, new)
            /\ served' = [hit |-> FALSE, response |-> new.response]
  BY DEF Save
<1> DEFINE new == Composed(sess[x], source)
           n   == sess[x].row
<1>2. /\ sess[x].pc = "await" /\ Goto(x, Idle) /\ UNCHANGED committed /\ sess[x] \in Session
      /\ overlap' = (overlap \/ \E y \in Requests \ {x} : Making(y))
      /\ committed \in Logs /\ reviews \in Seq(Row) /\ Len(reviews) \in Nat /\ overlap \in BOOLEAN
  BY DEF Save, Making, ReviewsInv, Typed
<1>3. /\ new \in Row /\ new.source = source /\ new.response.by = source /\ n \in Nat
      /\ new.response.log = sess[x].summary /\ new.trade_count = sess[x].trade_count
  <2>1. /\ sess[x].trade_count \in Nat /\ sess[x].last_trade_id \in LastIds
        /\ sess[x].summary \in Logs /\ n \in Nat
    BY <1>2, SessionByPc
  <2>2. [log |-> sess[x].summary, by |-> source] \in Response
    BY <2>1 DEF Response
  <2> QED
    BY <2>1, <2>2 DEF Composed, Row
<1>4. /\ sess' \in [Requests -> Session] /\ sess'[x].pc = "idle"
      /\ \A y \in Requests \ {x} : sess'[y] = sess[y]
  <2>1. Idle \in Session
    BY DEF Idle, Session
  <2> QED
    BY <1>2, <2>1 DEF Goto, ReviewsInv, Typed, Idle
<1>5. \A b, c : Counted(b, c) => Counted(b, c)'
  <2>1. \A y \in Requests : Counting(y)' => Counting(y) /\ sess'[y] = sess[y]
    BY <1>4 DEF Counting
  <2> QED
    BY <1>2, <2>1 DEF Counted
<1>6. \A y \in Requests : CountsOK(y)'
  <2> SUFFICES ASSUME NEW y \in Requests, Counting(y)'
               PROVE  Counted(sess[y].seen, sess[y].trade_count)'
    BY DEF CountsOK
  <2>1. Counting(y) /\ sess'[y] = sess[y]
    BY <1>4 DEF Counting
  <2>2. Counted(sess[y].seen, sess[y].trade_count)
    BY <2>1 DEF ReviewsInv, CountsOK
  <2> QED
    BY <1>2, <1>4, <2>1, <2>2 DEF Counted, Counting
<1>7. FallbackNotCached' /\ HitIsCurrent'
  BY <1>1 DEF FallbackNotCached, HitIsCurrent
\* The rows after the save: w in place of row k, the others as they were.
<1>8. \E k \in Nat, w \in Row :
        /\ reviews' \in Seq(Row)
        /\ k \in 1 .. Len(reviews') => reviews'[k] = w
        /\ \A i \in 1 .. Len(reviews') : i # k => i \in 1 .. Len(reviews) /\ reviews'[i] = reviews[i]
        /\ \/ w.response = new.response /\ w.source = new.source
           \/ /\ k \in 1 .. Len(reviews)
              /\ w.response = reviews[k].response /\ w.source = reviews[k].source
        /\ n = Len(reviews) /\ (n > 0 => sess[x].image = reviews[n]) => w = new
  <2>1. CASE n > 0 /\ n \in 1 .. Len(reviews)
    <3> DEFINE w == Overwritten(reviews[n], new, sess[x].image, alike)
    <3>1. reviews[n] \in Row
      BY <1>2, <2>1
    <3>2. /\ w \in Row /\ (sess[x].image = reviews[n] => w = new)
          /\ \/ w.response = new.response /\ w.source = new.source
             \/ w.response = reviews[n].response /\ w.source = reviews[n].source
      <4> HIDE DEF new, n
      <4> QED
        BY <1>3, <3>1, OverwrittenRow
    <3>3. reviews' = [reviews EXCEPT ![n] = w]
      BY <1>1, <2>1
    <3> HIDE DEF w, new, n
    <3>4. /\ reviews' \in Seq(Row) /\ Len(reviews') = Len(reviews)
          /\ reviews'[n] = w /\ \A i \in 1 .. Len(reviews) : i # n => reviews'[i] = reviews[i]
      BY <1>2, <2>1, <3>2, <3>3
    <3> QED
      BY <1>3, <2>1, <3>2, <3>4
  <2>2. CASE n > 0 /\ n \notin 1 .. Len(reviews)
    <3>1. reviews' = reviews
      BY <1>1, <1>2, <2>2
    <3> HIDE DEF new, n
    <3> QED
      BY <1>2, <1>3, <2>2, <3>1
  <2>3. CASE n = 0
    <3>1. reviews' = Append(reviews, new)
      BY <1>1, <2>3
    <3> HIDE DEF new, n
    <3>2. /\ reviews' \in Seq(Row) /\ Len(reviews') = Len(reviews) + 1
          /\ reviews'[Len(reviews) + 1] = new
          /\ \A i \in 1 .. Len(reviews) : reviews'[i] = reviews[i]
      BY <1>2, <1>3, <3>1
    <3> QED
      BY <1>2, <1>3, <3>2
  <2> QED
    BY <1>3, <2>1, <2>2, <2>3
<1>9. PICK k \in Nat, w \in Row :
        /\ reviews' \in Seq(Row)
        /\ k \in 1 .. Len(reviews') => reviews'[k] = w
        /\ \A i \in 1 .. Len(reviews') : i # k => i \in 1 .. Len(reviews) /\ reviews'[i] = reviews[i]
        /\ \/ w.response = new.response /\ w.source = new.source
           \/ /\ k \in 1 .. Len(reviews)
              /\ w.response = reviews[k].response /\ w.source = reviews[k].source
        /\ n = Len(reviews) /\ (n > 0 => sess[x].image = reviews[n]) => w = new
  BY <1>8
<1> HIDE DEF new
<1>10. Typed'
  BY <1>2, <1>4, <1>9 DEF Typed, ReviewsInv
<1>11. SourcesOK'
  BY <1>3, <1>9 DEF SourcesOK, ReviewsInv
<1>12. ASSUME ~overlap' PROVE RowsOK' /\ \A y \in Requests : MakingOK(y)'
  <2>1. ~overlap /\ \A y \in Requests \ {x} : ~Making(y)
    BY <1>2, <1>12
  <2>2. /\ n = Len(reviews) /\ (n > 0 => sess[x].image = reviews[n])
        /\ \E b \in Logs : Counted(b, sess[x].trade_count) /\ b \subseteq sess[x].summary
    BY <1>2, <2>1 DEF ReviewsInv, MakingOK, Making
  <2>3. PICK b \in Logs : Counted(b, sess[x].trade_count) /\ b \subseteq sess[x].summary
    BY <2>2
  <2>4. w = new
    BY <1>9, <2>2
  <2>5. ASSUME NEW i \in 1 .. Len(reviews'), reviews'[i].schema = "new"
        PROVE  \E d \in Logs : Counted(d, reviews[i].trade_count)' /\ d \subseteq reviews'[i].response.log
    <3>1. CASE i = k
      <4>1. reviews'[i].trade_count = sess[x].trade_count /\ reviews'[i].response.log = sess[x].summary
        BY <1>3, <1>9, <2>4, <2>5, <3>1
      <4>2. Counted(b, reviews[i].trade_count)'
        BY <1>2, <1>4, <2>3, <4>1 DEF Counted, Counting
      <4> QED
        BY <2>3, <4>1, <4>2
    <3>2. CASE i # k
      <4>1. i \in 1 .. Len(reviews) /\ reviews'[i] = reviews[i]
        BY <1>9, <3>2
      <4>2. PICK d \in Logs : Counted(d, reviews[i].trade_count) /\ d \subseteq reviews[i].response.log
        BY <2>1, <2>5, <4>1 DEF ReviewsInv, RowsOK
      <4>3. Counted(d, reviews[i].trade_count)'
        BY <1>2, <1>4, <4>1, <4>2 DEF Counted, Counting
      <4> QED
        BY <4>1, <4>2, <4>3
    <3> QED
      BY <3>1, <3>2
  <2>6. \A y \in Requests : MakingOK(y)'
    BY <1>4, <2>1 DEF MakingOK, Making
  <2> QED
    BY <2>5, <2>6 DEF RowsOK
<1> QED
  BY <1>6, <1>7, <1>10, <1>11, <1>12 DEF ReviewsInv

\* There is at most a row of an older version.
LEMMA ReviewsStart == ReviewInit => ReviewsInv
<1> SUFFICES ASSUME ReviewInit PROVE ReviewsInv
  OBVIOUS
<1>1. \A x \in Requests : ~Counting(x) /\ ~Making(x)
  BY DEF ReviewInit, Counting, Making, Idle
<1>2. Legacy \in Row /\ Legacy.schema = "old" /\ Legacy.response.by = "ai"
  <2>1. [log |-> {}, by |-> "ai"] \in Response
    BY DEF Response, Logs, Answers
  <2> QED
    BY <2>1 DEF Legacy, Row, Logs, Answers
<1>3. reviews \in Seq(Row) /\ \A i \in 1 .. Len(reviews) : reviews[i] = Legacy
  <2>1. CASE reviews = <<>>
    BY <2>1
  <2>2. CASE reviews = <<Legacy>>
    BY <1>2, <2>2
  <2> QED
    BY <2>1, <2>2 DEF ReviewInit
<1>4. Typed
  BY <1>3 DEF ReviewInit, Typed, Logs, Session, Idle
<1> QED
  BY <1>1, <1>2, <1>3, <1>4
     DEF ReviewInit, ReviewsInv, CountsOK, SourcesOK, RowsOK, MakingOK, FallbackNotCached, HitIsCurrent

\* Every step keeps the invariant.
LEMMA ReviewsStep == ReviewsInv /\ [ReviewNext]_reviewVars => ReviewsInv'
<1> SUFFICES ASSUME ReviewsInv, [ReviewNext]_reviewVars PROVE ReviewsInv'
  OBVIOUS
<1>1. ASSUME NEW t \in 1 .. MaxCommits, TradeCommits(t) PROVE ReviewsInv'
  BY <1>1, TradeStep
<1>2. ASSUME NEW x \in Requests, ReadCount(x) \/ ReadLast(x) \/ Lookup(x) PROVE ReviewsInv'
  BY <1>2, ReadCountStep, ReadLastStep, LookupStep
<1>3. ASSUME NEW x \in Requests, LoadTrades(x) \/ Save(x) PROVE ReviewsInv'
  BY <1>3, LoadTradesStep, SaveStep
<1>4. CASE UNCHANGED reviewVars
  BY <1>4 DEF reviewVars, ReviewsInv, Typed, CountsOK, Counted, Counting, SourcesOK, RowsOK,
              MakingOK, Making, FallbackNotCached, HitIsCurrent
<1> QED
  BY <1>1, <1>2, <1>3, <1>4 DEF ReviewNext

\* The inductive invariant of reviews.
THEOREM ReviewsInvariant == ReviewSpec => []ReviewsInv
BY ReviewsStart, ReviewsStep, PTL DEF ReviewSpec

\* While reviews are made one at a time, generate_daily_review never answers from
\* mentor_reviews with coaching that misses a trade it has itself counted, in
\* whatever order trades become visible.
THEOREM CachedReviewsCurrent == ReviewSpec => []HitIsCurrent
<1>1. ReviewsInv => HitIsCurrent
  BY DEF ReviewsInv
<1> QED
  BY <1>1, ReviewsInvariant, PTL

\* The fallback composed when the language model fails is never answered from the
\* cache, also when requests overwrite each other's rows.
THEOREM FallbackNeverServedAgain == ReviewSpec => []FallbackNotCached
<1>1. ReviewsInv => FallbackNotCached
  BY DEF ReviewsInv
<1> QED
  BY <1>1, ReviewsInvariant, PTL
=============================================================================
