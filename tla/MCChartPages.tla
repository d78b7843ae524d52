---------------------------- MODULE MCChartPages ----------------------------
(* ChartPages with every calendar of a few bars that is busy enough.    *)
EXTENDS ChartPages

CONSTANTS LastBar, Period, Bars

MCLookbacks == {NoLookback, 6}

\* Once it has begun to trade, a symbol trades in so many bars of every period.
MCCalendars ==
  {c \in SUBSET (0 .. LastBar) :
     \A t \in 0 .. MaxTime :
       (\E b \in c : b < t - Period) =>
         Cardinality({b \in c : t - Period <= b /\ b < t}) >= Bars}
=============================================================================
