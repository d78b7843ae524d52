---------------------------- MODULE ChartTheorems ----------------------------
(***************************************************************************)
(* Theorems about ChartPages, for any calendar, lookback, limit and number *)
(* of attempts: the pages a chart is given join without a gap, and when it *)
(* is told that there is no more it has all that the provider still keeps. *)
(* The second needs what the widest window was made for: that it has room  *)
(* for as many trading weeks, holidays included, as a page needs.          *)
(***************************************************************************)
EXTENDS ChartPages, FiniteSetTheorems, WellFoundedInduction, TLAPS

\* A symbol with this calendar, once it has begun to trade, trades in so many bars
\* of every period.
Busy(calendar, period, bars) ==
  \A t \in 0 .. MaxTime :
    (\E b \in calendar : b < t - period) =>
      Cardinality({b \in calendar : t - period <= b /\ b < t}) >= bars

\* A window of this width has room for enough periods to make up a page.
HoldsPage(calendar, size, width) ==
  \E period \in Nat, bars \in Nat, n \in Nat :
    Busy(calendar, period, bars) /\ size <= n * bars /\ n * period <= width

\* The multipliers of the successive attempts of _fetch_page.
Multipliers ==
  {m \in [1 .. Expansions -> Nat] :
     m[1] = Overfetch /\ \A n \in 1 .. (Expansions - 1) : m[n + 1] = 2 * m[n]}

\* The hypothesis under which the history is complete: the window of the last attempt
\* holds a page.  With five-minute bars and 300 candles it is 7200 bars wide, three
\* weeks of 2016, nights and weekends included, which have 300 trades unless the
\* exchange closes for most of them; with daily bars it is 1920 days wide.
WindowsHoldPages ==
  \E m \in Multipliers : \A c \in Calendars, asked \in Limits :
    HoldsPage(c, PageSize(asked), (PageSize(asked) * m[Expansions]) \div 10)

\* The candles shown are all that were traded between the oldest of them and the
\* newest, and between the oldest and the time when the chart was opened.
Gapless ==
  \A b \in trades :
    (\E s \in shown : s <= b) /\ (b < Now \/ \E s \in shown : b <= s) => b \in shown

\* A call asks for what is older than the chart has, or for the newest.
Asking ==
  request # Idle =>
    /\ request \in [end : Nat, multiplier : Nat, attempt : 1 .. Expansions]
    /\ request.end <= clock
    /\ IF shown = {} THEN Now <= request.end
       ELSE request.end \in shown /\ \A s \in shown : request.end <= s
    /\ \A m \in Multipliers : request.multiplier = m[request.attempt]

ChartInv ==
  /\ clock \in Now .. MaxTime
  /\ trades \in Calendars /\ lookback \in Lookbacks /\ limit \in Limits
  /\ shown \subseteq trades /\ \A s \in shown : s <= clock
  /\ Gapless
  /\ Asking

-----------------------------------------------------------------------------
(* Numbers, and the two ends of a set of candles.                              *)

\* A set of naturals that is not empty has a least element.
LEMMA LeastOne ==
  ASSUME NEW T \in SUBSET Nat, T # {}
  PROVE  \E m \in T : \A n \in T : m <= n
<1> DEFINE R == OpToRel(<, Nat)
<1>1. PICK m \in T : \A n \in T : ~(<<n, m>> \in R)
  <2>1. IsWellFoundedOn(R, Nat)
    BY NatLessThanWellFounded
  <2> HIDE DEF R
  <2> QED
    BY <2>1, WFMin
<1>2. \A n \in T : ~(n < m)
  BY <1>1 DEF OpToRel
<1> HIDE DEF R
<1> QED
  BY <1>2

\* The helpers Min and Max return the ends of a bounded set.
LEMMA Ends ==
  ASSUME NEW T \in SUBSET Nat, T # {}, NEW top \in Nat, \A n \in T : n <= top
  PROVE  /\ Min(T) \in T /\ \A n \in T : Min(T) <= n
         /\ Max(T) \in T /\ \A n \in T : n <= Max(T)
<1>1. \E m \in T : \A n \in T : m <= n
  BY LeastOne
<1>2. Min(T) \in T /\ \A n \in T : Min(T) <= n
  BY <1>1 DEF Min
<1>3. \E m \in T : \A n \in T : n <= m
  <2> DEFINE gaps == {top - n : n \in T}
  <2>1. gaps \in SUBSET Nat /\ gaps # {}
    <3>1. \A n \in T : top - n \in Nat
      OBVIOUS
    <3> QED
      BY <3>1
  <2>2. PICK g \in gaps : \A h \in gaps : g <= h
    <3> HIDE DEF gaps
    <3> QED
      BY <2>1, LeastOne
  <2>3. PICK m \in T : g = top - m
    BY <2>2
  <2>4. \A n \in T : n <= m
    <3> SUFFICES ASSUME NEW n \in T
                 PROVE  n <= m
      OBVIOUS
    <3>1. top - n \in gaps
      OBVIOUS
    <3>2. top - m <= top - n
      BY <2>2, <2>3, <3>1
    <3> QED
      BY <3>2
  <2> QED
    BY <2>4
<1>4. Max(T) \in T /\ \A n \in T : n <= Max(T)
  BY <1>3 DEF Max
<1> QED
  BY <1>2, <1>4

LEMMA LimitIsPositive ==
  ASSUME limit \in Limits
  PROVE  Limit \in Nat \ {0}
<1> DEFINE asked == {limit, MaxLimit}
           capped == {1, Min(asked)}
<1>1. limit \in Nat /\ MaxLimit \in Nat
  BY PagesAssumption
<1>2. Min(asked) \in Nat
  <2>1. asked \in SUBSET Nat /\ asked # {} /\ \A n \in asked : n <= limit + MaxLimit
    BY <1>1
  <2>2. limit + MaxLimit \in Nat
    BY <1>1
  <2> HIDE DEF asked
  <2> QED
    BY <2>1, <2>2, Ends
<1> HIDE DEF asked
<1>3. Max(capped) \in capped /\ 1 <= Max(capped)
  <2>1. /\ capped \in SUBSET Nat /\ capped # {} /\ 1 \in capped
        /\ \A n \in capped : n <= 1 + Min(asked)
    BY <1>2
  <2>2. 1 + Min(asked) \in Nat
    BY <1>2
  <2> HIDE DEF capped
  <2> QED
    BY <2>1, <2>2, Ends
<1>4. Limit = Max(capped)
  BY DEF Limit, PageSize, asked
<1> QED
  BY <1>2, <1>3, <1>4

\* A page is the newest of the candles: it leaves out none that is newer than one
\* of its own, and none at all when they are few enough.
LEMMA PageIsTail ==
  ASSUME NEW candles \in SUBSET Nat, IsFiniteSet(candles), NEW size \in Nat
  PROVE  /\ Page(candles, size) \subseteq candles
         /\ \A p \in Page(candles, size), b \in candles : p <= b => b \in Page(candles, size)
         /\ Cardinality(candles) <= size => Page(candles, size) = candles
<1> DEFINE After(b) == {c \in candles : c > b}
<1>1. \A b : IsFiniteSet(After(b)) /\ Cardinality(After(b)) \in Nat
  BY FS_Subset, FS_CardinalityType
<1>2. Page(candles, size) = {b \in candles : Cardinality(After(b)) < size}
  BY DEF Page
<1>3. ASSUME NEW p \in candles, NEW b \in candles, p <= b
      PROVE  Cardinality(After(b)) <= Cardinality(After(p))
  <2>1. After(b) \in SUBSET After(p)
    <3>1. \A c \in candles : c > b => c > p
      BY <1>3
    <3> QED
      BY <3>1
  <2> HIDE DEF After
  <2> QED
    BY <1>1, <2>1, FS_Subset
<1>4. ASSUME NEW b \in candles, Cardinality(candles) <= size
      PROVE  Cardinality(After(b)) < size
  <2>1. After(b) \in SUBSET (candles \ {b})
    BY <1>4
  <2>2. IsFiniteSet(candles \ {b}) /\ Cardinality(candles \ {b}) = Cardinality(candles) - 1
    BY FS_RemoveElement
  <2>3. Cardinality(After(b)) <= Cardinality(candles \ {b})
    <3> HIDE DEF After
    <3> QED
      BY <2>1, <2>2, FS_Subset
  <2>4. Cardinality(candles) \in Nat
    BY FS_CardinalityType
  <2> QED
    BY <1>1, <1>4, <2>2, <2>3, <2>4
<1> HIDE DEF After
<1>5. Page(candles, size) \subseteq candles
  BY <1>2
<1>6. ASSUME NEW p \in Page(candles, size), NEW b \in candles, p <= b
      PROVE  b \in Page(candles, size)
  <2>1. p \in candles /\ Cardinality(After(p)) < size
    BY <1>2, <1>6
  <2>2. Cardinality(After(b)) <= Cardinality(After(p))
    BY <1>3, <1>6, <2>1
  <2>3. Cardinality(After(b)) < size
    BY <1>1, <2>1, <2>2
  <2> QED
    BY <1>2, <2>3
<1>7. Cardinality(candles) <= size => Page(candles, size) = candles
  BY <1>2, <1>4
<1> QED
  BY <1>5, <1>6, <1>7

Between(c, low, high) == {b \in c : low <= b /\ b < high}

\* So many periods before the end of a window hold so many times the bars of one,
\* unless they reach back beyond the first.
LEMMA PeriodsHold ==
  ASSUME NEW c, IsFiniteSet(c), c \subseteq Nat, NEW period \in Nat, NEW bars \in Nat,
         Busy(c, period, bars), NEW end \in 0 .. MaxTime, NEW n \in Nat,
         NEW first \in c, first < end - n * period
  PROVE  Cardinality(Between(c, end - n * period, end)) >= n * bars
<1> USE DEF Between
<1> DEFINE In(k) == Between(c, end - k * period, end)
           short == {k \in Nat : first < end - k * period /\ ~(Cardinality(In(k)) >= k * bars)}
<1>1. \A k : IsFiniteSet(In(k)) /\ Cardinality(In(k)) \in Nat
  BY FS_Subset, FS_CardinalityType
<1>2. SUFFICES ASSUME n \in short
               PROVE  FALSE
  OBVIOUS
<1>3. PICK k \in short : \A l \in short : k <= l
  <2>1. short \in SUBSET Nat /\ short # {}
    BY <1>2
  <2> HIDE DEF short
  <2> QED
    BY <2>1, LeastOne
<1>4. k \in Nat /\ first < end - k * period /\ ~(Cardinality(In(k)) >= k * bars)
  BY <1>3
<1>5. k # 0
  <2> HIDE DEF In
  <2>1. Cardinality(In(k)) \in Nat
    BY <1>1
  <2>2. 0 * bars = 0
    OBVIOUS
  <2> QED
    BY <1>4, <2>1, <2>2
<1> PICK l \in Nat : l = k - 1
  BY <1>4, <1>5
<1>6. /\ k * period = l * period + period /\ l * period \in Nat /\ k = l + 1
      /\ k * bars = l * bars + bars /\ l * bars \in Nat
  BY <1>4, <1>5
<1>7. l \notin short
  BY <1>3, <1>4, <1>6
<1>8. first < end - l * period
  BY <1>4, <1>6
<1>9. Cardinality(In(l)) >= l * bars
  BY <1>7, <1>8
<1> PICK t : t = end - l * period
  OBVIOUS
<1> DEFINE last == {b \in c : t - period <= b /\ b < t}
<1>10. Cardinality(last) >= bars
  <2>1. t \in 0 .. MaxTime
    BY <1>6, <1>8, PagesAssumption
  <2>2. first < t - period
    BY <1>4, <1>6
  <2> QED
    BY <2>1, <2>2 DEF Busy
<1>11. In(l) \cup last \in SUBSET In(k) /\ In(l) \cap last = {}
  <2>1. end - k * period = t - period /\ t <= end /\ t \in Int
    BY <1>6
  <2>2. \A a \in c : t <= a => t - period <= a /\ ~(a < t)
    BY <2>1
  <2>3. \A a \in c : a < t => a < end
    BY <2>1
  <2> QED
    BY <2>1, <2>2, <2>3
<1>12. IsFiniteSet(last) /\ Cardinality(last) \in Nat
  BY FS_Subset, FS_CardinalityType
<1>13. Cardinality(In(l) \cup last) = Cardinality(In(l)) + Cardinality(last)
  <2> HIDE DEF In, last
  <2>1. Cardinality(In(l) \cap last) = 0
    BY <1>11, FS_EmptySet
  <2>2. Cardinality(In(l) \cup last)
          = Cardinality(In(l)) + Cardinality(last) - Cardinality(In(l) \cap last)
    BY <1>1, <1>12, FS_Union
  <2>3. Cardinality(In(l)) \in Nat /\ Cardinality(last) \in Nat
    BY <1>1, <1>12
  <2> QED
    BY <2>1, <2>2, <2>3
<1>14. Cardinality(In(l) \cup last) <= Cardinality(In(k))
  <2> HIDE DEF In, last
  <2> QED
    BY <1>1, <1>11, FS_Subset
<1> HIDE DEF In, short, last
<1> QED
  BY <1>1, <1>4, <1>6, <1>9, <1>10, <1>12, <1>13, <1>14

\* A window with room for enough of those periods holds a page, unless it reaches
\* back beyond the first trade.
LEMMA WideEnough ==
  ASSUME NEW c, IsFiniteSet(c), c \subseteq Nat, NEW size \in Nat, NEW width \in Nat,
         HoldsPage(c, size, width), NEW end \in 0 .. MaxTime,
         NEW first \in c, first < end - width
  PROVE  Cardinality(Between(c, end - width, end)) >= size
<1>1. PICK period \in Nat, bars \in Nat, n \in Nat :
        Busy(c, period, bars) /\ size <= n * bars /\ n * period <= width
  BY DEF HoldsPage
<1> PICK back \in Nat : back = n * period
  OBVIOUS
<1> PICK many \in Nat : many = n * bars
  OBVIOUS
<1>2. first < end - back
  BY <1>1
<1>3. Cardinality(Between(c, end - back, end)) >= many
  BY <1>1, <1>2, PeriodsHold
<1>4. Between(c, end - back, end) \in SUBSET Between(c, end - width, end)
  <2>1. \A b \in c : end - back <= b => end - width <= b
    BY <1>1
  <2> QED
    BY <2>1 DEF Between
<1>5. IsFiniteSet(Between(c, end - width, end))
  BY FS_Subset DEF Between
<1>6. /\ Cardinality(Between(c, end - back, end)) <= Cardinality(Between(c, end - width, end))
      /\ Cardinality(Between(c, end - back, end)) \in Nat
      /\ Cardinality(Between(c, end - width, end)) \in Nat
  BY <1>4, <1>5, FS_Subset, FS_CardinalityType
<1> QED
  BY <1>1, <1>3, <1>6

-----------------------------------------------------------------------------
(* One turn of _fetch_page.                                                    *)

\* The turn was given these candles, from this start of its window on.
Fetched(start, clamped, candles) ==
  /\ start = IF clamped THEN EarliestAllowed
             ELSE request.end - (Limit * request.multiplier) \div 10
  /\ candles \subseteq trades /\ \A b \in candles : b <= clock /\ b < request.end
  /\ \A b \in trades : start <= b /\ b <= clock /\ b < request.end => b \in candles
  /\ \A b \in candles, c \in trades : b <= c /\ c <= clock /\ c < request.end => c \in candles

\* It is the last one.
Answers(candles, clamped) ==
  /\ Cardinality(candles) >= Limit \/ clamped \/ request.attempt = Expansions
  /\ shown' = shown \cup Page(candles, Limit)
  /\ more' = HasMore(candles, Limit, clamped)
  /\ request' = Idle

\* There is another one.
Widens ==
  /\ request.attempt # Expansions
  /\ request' = [request EXCEPT !.multiplier = 2 * @, !.attempt = @ + 1]
  /\ UNCHANGED <<shown, more>>

LEMMA Types ==
  ASSUME ChartInv
  PROVE  /\ clock \in Nat /\ trades \subseteq Nat /\ IsFiniteSet(trades)
         /\ EarliestAllowed \in Int /\ Limit \in Nat \ {0}
         /\ request # Idle => /\ request.end \in Nat /\ request.multiplier \in Nat
                              /\ request.attempt \in 1 .. Expansions
<1>1. clock \in Nat /\ trades \subseteq Nat /\ IsFiniteSet(trades)
  BY PagesAssumption DEF ChartInv
<1>2. EarliestAllowed \in Int
  BY <1>1, PagesAssumption DEF ChartInv, EarliestAllowed, NoLookback
<1> QED
  BY <1>1, <1>2, LimitIsPositive DEF ChartInv, Asking

LEMMA FetchPageTurn ==
  ASSUME ChartInv, FetchPage
  PROVE  \E start \in Int, clamped \in BOOLEAN, candles \in SUBSET Nat :
           /\ Fetched(start, clamped, candles) /\ IsFiniteSet(candles)
           /\ Answers(candles, clamped) \/ Widens
<1> PICK window : window = ComputeWindow(Limit)
  OBVIOUS
<1>1. PICK frame \in History(window.start, request.end) :
        LET candles == FormatCandles(frame, request.end)
        IN IF \/ Cardinality(candles) >= Limit
              \/ window.clamped
              \/ request.attempt = Expansions
           THEN /\ shown' = shown \cup Page(candles, Limit)
                /\ more' = HasMore(candles, Limit, window.clamped)
                /\ request' = Idle
           ELSE /\ request' = [request EXCEPT !.multiplier = 2 * @, !.attempt = @ + 1]
                /\ UNCHANGED <<shown, more>>
  BY DEF FetchPage
<1> PICK candles : candles = FormatCandles(frame, request.end)
  OBVIOUS
<1> PICK start, clamped : start = window.start /\ clamped = window.clamped
  OBVIOUS
<1>2. PICK early \in {0, 1} :
        frame = {b \in trades : b <= clock /\ start - early <= b /\ b <= request.end}
  BY <1>1 DEF History
<1>3. candles = {b \in trades : b <= clock /\ start - early <= b /\ b < request.end}
  <2>1. request.end \in Nat /\ trades \subseteq Nat
    BY Types DEF FetchPage
  <2>2. \A b \in trades : b < request.end => b <= request.end
    BY <2>1
  <2> QED
    BY <1>2, <2>2 DEF FormatCandles
<1>4. /\ clamped \in BOOLEAN
      /\ start = IF clamped THEN EarliestAllowed
                 ELSE request.end - (Limit * request.multiplier) \div 10
  BY DEF ComputeWindow
<1>5. start \in Int
  <2>1. Limit * request.multiplier \in Nat
    BY Types DEF FetchPage
  <2>2. (Limit * request.multiplier) \div 10 \in Int
    BY <2>1
  <2> QED
    BY <1>4, <2>2, Types DEF FetchPage
<1>6. Fetched(start, clamped, candles)
  <2>1. \A b \in trades : start <= b => start - early <= b
    BY <1>5, Types
  <2>2. \A b, c \in trades : start - early <= b /\ b <= c => start - early <= c
    BY <1>5, Types
  <2> QED
    BY <1>3, <1>4, <2>1, <2>2 DEF Fetched
<1>7. candles \in SUBSET Nat /\ IsFiniteSet(candles)
  BY <1>3, Types, FS_Subset
<1>8. Answers(candles, clamped) \/ Widens
  BY <1>1 DEF Answers, Widens
<1> QED
  BY <1>4, <1>5, <1>6, <1>7, <1>8

\* The page answered closes up to what the chart has.
LEMMA PageJoins ==
  ASSUME ChartInv, request # Idle, NEW start \in Int, NEW clamped \in BOOLEAN,
         NEW candles \in SUBSET Nat, IsFiniteSet(candles),
         Fetched(start, clamped, candles), Answers(candles, clamped),
         UNCHANGED <<clock, trades, lookback, limit>>
  PROVE  ChartInv'
<1> PICK page : page = Page(candles, Limit)
  OBVIOUS
<1> PICK end : end = request.end
  OBVIOUS
<1>1. /\ page \subseteq candles
      /\ \A p \in page, b \in candles : p <= b => b \in page
  BY PageIsTail, Types
<1>2. /\ candles \subseteq trades /\ \A b \in candles : b <= clock /\ b < end
      /\ \A b \in candles, c \in trades : b <= c /\ c <= clock /\ c < end => c \in candles
  BY DEF Fetched
<1>3. /\ end \in Nat /\ end <= clock /\ clock \in Nat /\ trades \subseteq Nat
      /\ IF shown = {} THEN Now <= end ELSE end \in shown /\ \A s \in shown : end <= s
  BY Types DEF ChartInv, Asking
<1>4. shown' = shown \cup page /\ request' = Idle
  BY DEF Answers
<1>5. shown' \subseteq trades /\ \A s \in shown' : s <= clock
  BY <1>1, <1>2, <1>4 DEF ChartInv
<1>6. ASSUME NEW b \in trades, NEW s \in shown', s <= b,
             b < Now \/ \E t \in shown' : b <= t
      PROVE  b \in shown'
  <2>1. /\ b \in Nat /\ s \in Nat /\ Now \in Nat /\ shown' \subseteq Nat
        /\ shown \subseteq trades
    BY <1>3, <1>5, PagesAssumption DEF ChartInv
  <2>2. CASE b < end
    <3>1. s \in page
      BY <1>3, <1>4, <1>6, <2>1, <2>2
    <3>2. b \in candles
      BY <1>1, <1>2, <1>3, <1>6, <2>1, <2>2, <3>1
    <3> QED
      BY <1>1, <1>4, <1>6, <3>1, <3>2
  <2>3. CASE end <= b
    <3>1. \A t \in page : t < b
      BY <1>1, <1>2, <1>3, <2>1, <2>3
    <3>2. shown # {}
      BY <1>3, <1>4, <1>6, <2>1, <2>3, <3>1
    <3>3. b < Now \/ \E t \in shown : b <= t
      <4> SUFFICES ASSUME NEW t \in shown', b <= t
                   PROVE  t \in shown
        BY <1>6
      <4>1. t \notin page
        BY <2>1, <3>1
      <4> QED
        BY <1>4, <4>1
    <3>4. end \in shown /\ end <= b
      BY <1>3, <2>3, <3>2
    <3> QED
      BY <1>4, <3>3, <3>4 DEF ChartInv, Gapless
  <2> QED
    BY <1>3, <2>1, <2>2, <2>3
<1>7. Gapless'
  BY <1>6 DEF Gapless
<1> QED
  BY <1>4, <1>5, <1>7 DEF ChartInv, Asking

\* Another turn asks for the same candles with twice the window.
LEMMA WideningKeeps ==
  ASSUME ChartInv, request # Idle, Widens, UNCHANGED <<clock, trades, lookback, limit>>
  PROVE  ChartInv'
<1>1. /\ request \in [end : Nat, multiplier : Nat, attempt : 1 .. Expansions]
      /\ request.attempt # Expansions /\ shown' = shown
      /\ request' = [request EXCEPT !.multiplier = 2 * @, !.attempt = @ + 1]
  BY DEF ChartInv, Asking, Widens
<1>2. 2 * request.multiplier \in Nat /\ request.attempt + 1 \in 1 .. Expansions
  BY <1>1, PagesAssumption
<1>3. /\ request' \in [end : Nat, multiplier : Nat, attempt : 1 .. Expansions]
      /\ request'.end = request.end /\ request'.multiplier = 2 * request.multiplier
      /\ request'.attempt = request.attempt + 1
  BY <1>1, <1>2
<1>4. ASSUME NEW m \in Multipliers
      PROVE  request'.multiplier = m[request'.attempt]
  <2>1. request.attempt \in 1 .. (Expansions - 1)
    BY <1>1, PagesAssumption
  <2>2. m[request.attempt + 1] = 2 * m[request.attempt]
    BY <2>1 DEF Multipliers
  <2> QED
    BY <1>3, <2>2, Types DEF ChartInv, Asking
<1>5. Asking'
  BY <1>1, <1>3, <1>4 DEF ChartInv, Asking, Multipliers
<1> QED
  BY <1>1, <1>5 DEF ChartInv, Gapless

-----------------------------------------------------------------------------
(* The invariant.                                                              *)

LEMMA ChartInit ==
  Init => ChartInv
<1> SUFFICES ASSUME Init
             PROVE  ChartInv
  OBVIOUS
<1>1. clock \in Now .. MaxTime
  BY PagesAssumption DEF Init
<1> QED
  BY <1>1 DEF Init, ChartInv, Gapless, Asking

LEMMA GetChartDataKeeps ==
  ASSUME ChartInv, GetChartData
  PROVE  ChartInv'
<1>1. /\ request' = [end |-> IF shown = {} THEN clock ELSE Min(shown),
                     multiplier |-> Overfetch, attempt |-> 1]
      /\ UNCHANGED <<clock, trades, lookback, limit, shown>>
  BY DEF GetChartData
<1>2. shown # {} => Min(shown) \in shown /\ \A s \in shown : Min(shown) <= s
  <2>1. shown \in SUBSET Nat /\ clock \in Nat /\ \A s \in shown : s <= clock
    BY Types DEF ChartInv
  <2> QED
    BY <2>1, Ends
<1> PICK end : end = IF shown = {} THEN clock ELSE Min(shown)
  OBVIOUS
<1>3. /\ end \in Nat /\ end <= clock
      /\ IF shown = {} THEN Now <= end ELSE end \in shown /\ \A s \in shown : end <= s
  BY <1>2, Types, PagesAssumption DEF ChartInv
<1>4. /\ request' \in [end : Nat, multiplier : Nat, attempt : 1 .. Expansions]
      /\ request'.end = end /\ request'.multiplier = Overfetch /\ request'.attempt = 1
  BY <1>1, <1>3, PagesAssumption
<1>5. Asking'
  BY <1>1, <1>3, <1>4 DEF Asking, Multipliers
<1> QED
  BY <1>1, <1>5 DEF ChartInv, Gapless

LEMMA FetchFailsKeeps ==
  ASSUME ChartInv, FetchFails
  PROVE  ChartInv'
BY DEF FetchFails, ChartInv, Gapless, Asking

LEMMA TickKeeps ==
  ASSUME ChartInv, Tick
  PROVE  ChartInv'
<1>1. /\ clock' = clock + 1 /\ clock < MaxTime
      /\ UNCHANGED <<trades, lookback, limit, shown, request>>
  BY DEF Tick
<1>2. clock' \in Now .. MaxTime /\ clock <= clock' /\ clock \in Nat
  BY <1>1, PagesAssumption DEF ChartInv
<1>3. \A s \in shown' : s <= clock'
  BY <1>1, <1>2, Types DEF ChartInv
<1>4. Asking'
  BY <1>1, <1>2, Types DEF ChartInv, Asking, Multipliers
<1> QED
  BY <1>1, <1>2, <1>3, <1>4 DEF ChartInv, Gapless

LEMMA ChartNext ==
  ChartInv /\ [Next]_vars => ChartInv'
<1> SUFFICES ASSUME ChartInv, [Next]_vars
             PROVE  ChartInv'
  OBVIOUS
<1>1. CASE UNCHANGED vars
  BY <1>1 DEF vars, ChartInv, Gapless, Asking, Multipliers
<1>2. CASE GetChartData
  BY <1>2, GetChartDataKeeps
<1>3. CASE FetchPage
  <2>1. PICK start \in Int, clamped \in BOOLEAN, candles \in SUBSET Nat :
          /\ Fetched(start, clamped, candles) /\ IsFiniteSet(candles)
          /\ Answers(candles, clamped) \/ Widens
    BY <1>3, FetchPageTurn
  <2>2. request # Idle /\ UNCHANGED <<clock, trades, lookback, limit>>
    BY <1>3 DEF FetchPage
  <2> QED
    BY <2>1, <2>2, PageJoins, WideningKeeps
<1>4. CASE FetchFails
  BY <1>4, FetchFailsKeeps
<1>5. CASE Tick
  BY <1>5, TickKeeps
<1> QED
  BY <1>1, <1>2, <1>3, <1>4, <1>5 DEF Next

\* The candles shown have no gap, and a call that is under way asks for what is
\* older than they are, with the multiplier of its attempt.
THEOREM ChartInvariant ==
  Spec => []ChartInv
BY ChartInit, ChartNext, PTL DEF Spec

\* Between the oldest and the newest candle on the chart none is missing, whatever the
\* windows of its pages and the time that passed between them.
THEOREM PagesAlwaysJoin ==
  Spec => []PagesJoin
<1>1. ChartInv => PagesJoin
  <2> SUFFICES ASSUME ChartInv, shown # {}
               PROVE  shown = {b \in trades : Min(shown) <= b /\ b <= Max(shown)}
    BY DEF PagesJoin
  <2>1. shown \in SUBSET Nat /\ clock \in Nat /\ \A s \in shown : s <= clock
    BY Types DEF ChartInv
  <2>2. /\ Min(shown) \in shown /\ \A s \in shown : Min(shown) <= s
        /\ Max(shown) \in shown /\ \A s \in shown : s <= Max(shown)
    BY <2>1, Ends
  <2>3. \A b \in trades : Min(shown) <= b /\ b <= Max(shown) => b \in shown
    BY <2>2 DEF ChartInv, Gapless
  <2> QED
    BY <2>2, <2>3 DEF ChartInv
<1> QED
  BY <1>1, ChartInvariant, PTL

-----------------------------------------------------------------------------
(* The end of the history.                                                     *)

LEMMA WidestWindow ==
  ASSUME WindowsHoldPages, ChartInv, request # Idle, request.attempt = Expansions
  PROVE  HoldsPage(trades, Limit, (Limit * request.multiplier) \div 10)
BY DEF WindowsHoldPages, ChartInv, Asking, Limit

\* A last page that says there is no more leaves out nothing that the provider
\* still has: its window was cut at the lookback, or reaches back beyond the
\* first trade because it did not hold a page of them.
LEMMA LastPage ==
  ASSUME WindowsHoldPages, ChartInv, request # Idle, NEW start \in Int, NEW clamped \in BOOLEAN,
         NEW candles \in SUBSET Nat, IsFiniteSet(candles),
         Fetched(start, clamped, candles), Answers(candles, clamped), ~more',
         UNCHANGED <<clock, trades, lookback, limit>>
  PROVE  HistoryIsComplete'
<1> PICK end : end = request.end
  OBVIOUS
<1>1. /\ clock \in Nat /\ trades \subseteq Nat /\ IsFiniteSet(trades) /\ Limit \in Nat
      /\ EarliestAllowed \in Int /\ request.multiplier \in Nat
      /\ Cardinality(candles) \in Nat
  BY Types, FS_CardinalityType
<1>2. /\ end \in Nat /\ end <= clock /\ shown \subseteq trades
      /\ IF shown = {} THEN Now <= end ELSE end \in shown /\ \A s \in shown : end <= s
  BY Types DEF ChartInv, Asking
<1>3. /\ Cardinality(candles) <= Limit
      /\ clamped \/ Cardinality(candles) < Limit
  BY <1>1 DEF Answers, HasMore
<1>4. shown' = shown \cup candles
  BY <1>1, <1>3, PageIsTail DEF Answers
<1>5. /\ start = IF clamped THEN EarliestAllowed ELSE end - (Limit * request.multiplier) \div 10
      /\ \A b \in trades : start <= b /\ b <= clock /\ b < end => b \in candles
  BY DEF Fetched
<1>6. ASSUME ~clamped, NEW first \in trades
      PROVE  start <= first
  <2>1. request.attempt = Expansions /\ Cardinality(candles) < Limit
    BY <1>1, <1>3, <1>6 DEF Answers
  <2> PICK width : width = (Limit * request.multiplier) \div 10
    OBVIOUS
  <2>2. width \in Nat /\ HoldsPage(trades, Limit, width)
    <3>1. Limit * request.multiplier \in Nat
      BY <1>1
    <3>2. (Limit * request.multiplier) \div 10 \in Nat
      BY <3>1
    <3> QED
      BY <2>1, <3>2, WidestWindow
  <2>3. start = end - width
    BY <1>5, <1>6
  <2> DEFINE window == Between(trades, start, end)
  <2>4. window \in SUBSET candles
    <3>1. \A b \in trades : b < end => b <= clock
      BY <1>1, <1>2
    <3> QED
      BY <1>5, <3>1 DEF Between
  <2>5. Cardinality(window) < Limit
    <3>1. Cardinality(window) <= Cardinality(candles) /\ IsFiniteSet(window)
      BY <2>4, FS_Subset
    <3>2. Cardinality(window) \in Nat
      BY <3>1, FS_CardinalityType
    <3> HIDE DEF window
    <3> QED
      BY <1>1, <2>1, <3>1, <3>2
  <2>6. end \in 0 .. MaxTime
    BY <1>1, <1>2, PagesAssumption DEF ChartInv
  <2>7. first < start => Cardinality(window) >= Limit
    BY <1>1, <1>6, <2>2, <2>3, <2>6, WideEnough
  <2>8. Cardinality(window) \in Nat
    BY <2>4, FS_Subset, FS_CardinalityType
  <2> HIDE DEF window
  <2> QED
    BY <1>1, <2>5, <2>7, <2>8
<1>7. ASSUME NEW b \in trades, EarliestAllowed <= b, b < Now
      PROVE  b \in shown'
  <2>1. b \in Nat /\ Now \in Nat
    BY <1>1, PagesAssumption
  <2>2. CASE b < end
    <3>1. start <= b
      BY <1>5, <1>6, <1>7
    <3> QED
      BY <1>1, <1>2, <1>4, <1>5, <2>1, <2>2, <3>1
  <2>3. CASE end <= b
    <3>1. end \in shown
      BY <1>2, <1>7, <2>1, <2>3
    <3> QED
      BY <1>4, <1>7, <2>3, <3>1 DEF ChartInv, Gapless
  <2> QED
    BY <1>2, <2>1, <2>2, <2>3
<1>8. EarliestAllowed' = EarliestAllowed
  BY DEF EarliestAllowed
<1> QED
  BY <1>7, <1>8 DEF HistoryIsComplete

LEMMA CompleteNext ==
  ASSUME WindowsHoldPages, ChartInv, HistoryIsComplete, [Next]_vars
  PROVE  HistoryIsComplete'
<1>1. CASE UNCHANGED vars
  BY <1>1 DEF vars, HistoryIsComplete, EarliestAllowed
<1>2. CASE GetChartData
  BY <1>2 DEF GetChartData, HistoryIsComplete, EarliestAllowed
<1>3. CASE FetchPage
  <2>1. PICK start \in Int, clamped \in BOOLEAN, candles \in SUBSET Nat :
          /\ Fetched(start, clamped, candles) /\ IsFiniteSet(candles)
          /\ Answers(candles, clamped) \/ Widens
    BY <1>3, FetchPageTurn
  <2>2. request # Idle /\ UNCHANGED <<clock, trades, lookback, limit>>
    BY <1>3 DEF FetchPage
  <2>3. CASE Answers(candles, clamped)
    <3>1. CASE more'
      BY <3>1 DEF HistoryIsComplete
    <3>2. CASE ~more'
      BY <2>1, <2>2, <2>3, <3>2, LastPage
    <3> QED
      BY <3>1, <3>2
  <2>4. CASE Widens
    BY <2>2, <2>4 DEF Widens, HistoryIsComplete, EarliestAllowed
  <2> QED
    BY <2>1, <2>3, <2>4
<1>4. CASE FetchFails
  BY <1>4 DEF FetchFails, HistoryIsComplete, EarliestAllowed
<1>5. CASE Tick
  <2>1. /\ clock' = clock + 1 /\ clock \in Nat /\ trades \subseteq Nat
        /\ UNCHANGED <<trades, lookback, shown, more>>
    BY <1>5, Types DEF Tick
  <2>2. EarliestAllowed' \in Int /\ EarliestAllowed \in Int /\ EarliestAllowed <= EarliestAllowed'
    BY <2>1, PagesAssumption DEF ChartInv, EarliestAllowed, NoLookback
  <2>3. \A b \in trades : EarliestAllowed' <= b => EarliestAllowed <= b
    BY <2>1, <2>2
  <2> QED
    BY <2>1, <2>3 DEF HistoryIsComplete
<1> QED
  BY <1>1, <1>2, <1>3, <1>4, <1>5 DEF Next

\* Told that there is no more, the chart has every candle from the newest it was shown
\* back to the provider's lookback, as long as the widest window of a call has
\* room for as many trading periods as make up the page.
THEOREM NoMoreMeansAll ==
  ASSUME WindowsHoldPages
  PROVE  Spec => []HistoryIsComplete
<1>1. Init => HistoryIsComplete
  BY DEF Init, HistoryIsComplete
<1>2. ChartInv /\ HistoryIsComplete /\ [Next]_vars => HistoryIsComplete'
  BY CompleteNext
<1> QED
  BY <1>1, <1>2, ChartInvariant, PTL DEF Spec
=============================================================================
