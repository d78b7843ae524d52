----------------------------- MODULE ChartPages -----------------------------
(***************************************************************************)
(* Chart history read page by page: ChartService.get_chart_data called by  *)
(* a chart that shows the newest candles and then asks, while has_more is  *)
(* true, for those before the oldest it has.                               *)
(*                                                                         *)
(* One unit of time is one bar.  A candle is the time of its bar; prices,  *)
(* duplicates and rows without prices are left out (_format_candles drops  *)
(* the last two).  Each attempt of _fetch_page awaits the provider, so the *)
(* clock, and with it the provider's lookback, moves between attempts.     *)
(***************************************************************************)
EXTENDS Integers, FiniteSets, FiniteSetsExt

CONSTANTS
  Limits,        \* values of the query parameter limit
  MaxLimit,      \* MAX_LIMIT
  Lookbacks,     \* config.max_lookback, in bars; NoLookback for daily bars
  Overfetch,     \* config.overfetch_multiplier, in tenths: 60 or 16
  Expansions,    \* MAX_WINDOW_EXPANSIONS
  Now,           \* the time when the chart is opened
  MaxTime,       \* bound: the clock
  MaxFailures,   \* bound: failed calls of the provider
  Calendars      \* the sets of bars in which a symbol may have traded

NoLookback == -1
ASSUME PagesAssumption ==
  /\ Limits \subseteq Nat /\ MaxLimit \in Nat \ {0}
  /\ Lookbacks \subseteq Nat \cup {NoLookback}
  /\ Overfetch \in Nat \ {0} /\ Expansions \in Nat \ {0}
  /\ Now \in Nat /\ MaxTime \in Nat /\ Now <= MaxTime /\ MaxFailures \in Nat
  /\ \A c \in Calendars : IsFiniteSet(c) /\ c \subseteq Nat

VARIABLES
  clock,
  trades,    \* the bars in which the symbol trades, future ones included
  lookback,  \* config.max_lookback of the timeframe
  limit,     \* what the chart asks for
  shown,     \* the candles the chart has
  more,      \* has_more of its last page
  request,   \* the call in progress: Idle, or its window
  failures   \* bound

vars == <<clock, trades, lookback, limit, shown, more, request, failures>>

Idle == [end |-> -1, multiplier |-> 0, attempt |-> 0]

-----------------------------------------------------------------------------
(* One attempt. *)

EarliestAllowed == IF lookback = NoLookback THEN -1 ELSE clock - lookback

\* From a start that the provider allows; clamped when that cut the window.  The
\* multiplier is in tenths; a start inside a bar is moved to the next one.
ComputeWindow(size) ==
  LET span    == size * request.multiplier
      clamped == lookback # NoLookback /\ 10 * request.end - span < 10 * EarliestAllowed
  IN  [start |-> IF clamped THEN EarliestAllowed ELSE request.end - span \div 10,
       clamped |-> clamped]

\* The provider has the bars that began; it rounds the window's ends, so that
\* rows at the end, or just before the start, may come with the others.
History(start, end) ==
  {{b \in trades : b <= clock /\ start - early <= b /\ b <= end} : early \in {0, 1}}

\* Strictly before the cursor.
FormatCandles(frame, before) == {b \in frame : b < before}

\* Mutant of Page: the oldest candles of the window instead of the newest.
PageFromStart(candles, size) ==
  {b \in candles : Cardinality({c \in candles : c < b}) < size}

\* candles[-limit:]
Page(candles, size) ==
  {b \in candles : Cardinality({c \in candles : c > b}) < size}

\* Mutant of HasMore: a full page from an unclamped window is taken for the last.
HasMoreIfSeen(candles, size, clamped) == Cardinality(candles) > size

\* Mutant of HasMore: whatever comes from an unclamped window, there may be more.
HasMoreUnlessClamped(candles, size, clamped) ==
  Cardinality(candles) > size \/ ~clamped

\* Exactly one page from a window that was not cut says nothing: ask again.
HasMore(candles, size, clamped) ==
  \/ Cardinality(candles) > size
  \/ Cardinality(candles) = size /\ ~clamped

-----------------------------------------------------------------------------
(* Requests. *)

PageSize(asked) == Max({1, Min({asked, MaxLimit})})

Limit == PageSize(limit)

\* get_chart_data: without a cursor the page ends now, else at the oldest
\* candle the chart has.
GetChartData ==
  /\ more /\ request = Idle
  /\ request' = [end |-> IF shown = {} THEN clock ELSE Min(shown),
                 multiplier |-> Overfetch, attempt |-> 1]
  /\ UNCHANGED <<clock, trades, lookback, limit, shown, more, failures>>

\* One turn of the loop in _fetch_page, and the answer after the last one.  An
\* empty first page is a 404: the chart stays empty.
FetchPage ==
  /\ request # Idle
  /\ LET window == ComputeWindow(Limit)
     IN \E frame \in History(window.start, request.end) :
          LET candles == FormatCandles(frame, request.end)
          IN IF \/ Cardinality(candles) >= Limit
                \/ window.clamped
                \/ request.attempt = Expansions
             THEN /\ shown' = shown \cup Page(candles, Limit)
                  /\ more' = HasMore(candles, Limit, window.clamped)
                  /\ request' = Idle
             ELSE /\ request' = [request EXCEPT !.multiplier = 2 * @, !.attempt = @ + 1]
                  /\ UNCHANGED <<shown, more>>
  /\ UNCHANGED <<clock, trades, lookback, limit, failures>>

\* _safe_fetch_history answers 502; the chart asks again.
FetchFails ==
  /\ request # Idle /\ failures < MaxFailures
  /\ request' = Idle /\ failures' = failures + 1
  /\ UNCHANGED <<clock, trades, lookback, limit, shown, more>>

Tick ==
  /\ clock < MaxTime
  /\ clock' = clock + 1
  /\ UNCHANGED <<trades, lookback, limit, shown, more, request, failures>>

Init ==
  /\ clock = Now /\ trades \in Calendars
  /\ lookback \in Lookbacks /\ limit \in Limits
  /\ shown = {} /\ more = TRUE /\ request = Idle /\ failures = 0

Next == GetChartData \/ FetchPage \/ FetchFails \/ Tick

\* The chart asks while there is more, and a call that does not fail returns.
Spec == Init /\ [][Next]_vars /\ WF_vars(GetChartData) /\ WF_vars(FetchPage)

-----------------------------------------------------------------------------
(* Properties. *)

\* The pages join: between the oldest and the newest candle on the chart none
\* is missing, although each page is the tail of a window of its own size.
PagesJoin ==
  shown # {} => shown = {b \in trades : Min(shown) <= b /\ b <= Max(shown)}

\* When the chart is told that there is no more, it has every candle the
\* provider's lookback still allows, from the newest it was shown backwards, as
\* long as the symbol trades often enough for the widest window to hold a page:
\* nights and weekends may be longer than the window is wide per candle.
HistoryIsComplete ==
  ~more => \A b \in trades : (EarliestAllowed <= b /\ b < Now) => b \in shown

\* The chart reaches the end of the history: has_more does not stay true.
HistoryEnds == <>(~more)
=============================================================================
