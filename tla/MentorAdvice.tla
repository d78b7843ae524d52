---------------------------- MODULE MentorAdvice -----------------------------
(***************************************************************************)
(* What the mentor concludes from closed positions and holdings: the       *)
(* metrics (analytics.py), the nine rules (rule_engine.py) and the summary *)
(* (prioritizer.py).  Pure operators; the state is TradeHistory's.         *)
(*                                                                         *)
(* A position is [open, close, pnl, cost], times in minutes.  Holdings are *)
(* a function from symbols to market values.  Metrics are rounded, as in   *)
(* the code: percentages, ratios and the concentration index are           *)
(* hundredths here.  The order in which insights are shown, their texts    *)
(* and their confidence are left out.                                      *)
(***************************************************************************)
EXTENDS Totals, FiniteSetsExt

\* The quotient a / b, rounded to whole units of 1 / scale.
Rounded(a, b, scale) == (2 * scale * a + b) \div (2 * b)

Larger(a, b)  == IF a < b THEN b ELSE a
Smaller(a, b) == IF a < b THEN a ELSE b

-----------------------------------------------------------------------------
(* analytics.py                                                              *)

Wins(positions)   == {p \in positions : p.pnl > 0}
Losses(positions) == {p \in positions : p.pnl < 0}

GrossProfit(positions) == Total([p \in Wins(positions) |-> p.pnl])
GrossLoss(positions)   == Total([p \in Losses(positions) |-> -p.pnl])

ProfitFactor(profit, loss) ==
  IF loss = 0 THEN 100 * profit ELSE Rounded(profit, loss, 100)

\* The average profit over the average loss.
RiskRewardRatio(profit, wins, loss, losses) ==
  IF wins = 0 THEN 0
  ELSE IF loss = 0 THEN Rounded(profit, wins, 100)
  ELSE Rounded(profit * losses, loss * wins, 100)

\* The equity once the positions that closed by time c are paid out.
Equity(positions, capital, c) ==
  LET closed == {p \in positions : p.close <= c}
  IN  capital + GrossProfit(closed) - GrossLoss(closed)

\* The deepest fall below the running maximum.
MaxDrawdown(positions, capital) ==
  LET closes  == {p.close : p \in positions}
      peak(c) == Max({capital} \cup {Equity(positions, capital, d) : d \in {e \in closes : e <= c}})
      fall(c) == IF peak(c) > 0
                 THEN Rounded(peak(c) - Equity(positions, capital, c), peak(c), 10000)
                 ELSE 0
  IN  Max({0} \cup {fall(c) : c \in closes})

Minutes(positions) == Total([p \in positions |-> p.close - p.open])

\* The mean time a loss was held over the mean time a win was.
HoldingDurationRatio(wins, losses) ==
  IF Minutes(wins) = 0 \/ losses = {} THEN 0
  ELSE Rounded(Minutes(losses) * Cardinality(wins), Minutes(wins) * Cardinality(losses), 100)

\* Herfindahl-Hirschman index: the sum of the squares of the percentages, here of the
\* whole worth with its cash.  Divided in two steps, for the sake of TLC's integers.
PortfolioHhi(values, worth) ==
  LET squares == Total([s \in DOMAIN values |-> values[s] * values[s]])
      rest    == (1000 * squares) % (worth * worth)
  IN  IF worth <= 0 THEN 0
      ELSE 1000 * ((1000 * squares) \div (worth * worth)) + Rounded(rest, worth * worth, 1000)

\* The largest of the percentages.
PositionSizing(values, worth) ==
  IF worth <= 0 THEN 0
  ELSE Max({0} \cup {Rounded(values[s], worth, 10000) : s \in DOMAIN values})

\* calculate_metrics; the drawdown starts from today's worth.
CalculateMetrics(positions, trade_count, values, worth) ==
  LET wins   == Wins(positions)
      losses == Losses(positions)
      profit == GrossProfit(positions)
      loss   == GrossLoss(positions)
  IN  [total_trades_count     |-> trade_count,
       closed_positions       |-> Cardinality(positions),
       winning_positions      |-> Cardinality(wins),
       losing_positions       |-> Cardinality(losses),
       win_rate_pct           |-> IF positions = {} THEN 0
                                  ELSE Rounded(Cardinality(wins), Cardinality(positions), 10000),
       profit_factor          |-> ProfitFactor(profit, loss),
       risk_reward_ratio      |-> RiskRewardRatio(profit, Cardinality(wins),
                                                  loss, Cardinality(losses)),
       max_drawdown_pct       |-> MaxDrawdown(positions, worth),
       holding_duration_ratio |-> HoldingDurationRatio(wins, losses),
       portfolio_hhi          |-> PortfolioHhi(values, worth),
       max_position_sizing    |-> PositionSizing(values, worth)]

-----------------------------------------------------------------------------
(* rule_engine.py: each rule finds one insight or none.                      *)

Insight(rule_id, category, severity) ==
  [rule_id |-> rule_id, category |-> category, severity |-> severity]

When(found, insight) == IF found THEN {insight} ELSE {}

\* Mutant of RevengeTrading: the quarter of an hour is counted from when the loss was
\* entered.
RevengeTradingFromEntry(positions) ==
  When(\E p \in Losses(positions) : \E q \in positions \ {p} : q.open - p.open \in 0 .. 15,
       Insight("MISTAKE_REVENGE_TRADING", "MISTAKE", "CRITICAL"))

\* Another position is entered within 15 minutes of closing a loss.
RevengeTrading(positions) ==
  When(\E p \in Losses(positions) : \E q \in positions \ {p} : q.open - p.close \in 0 .. 15,
       Insight("MISTAKE_REVENGE_TRADING", "MISTAKE", "CRITICAL"))

\* Losses of more than 3 % within half an hour: two, or more than a quarter.
FOMOBuying(positions) ==
  LET fomo == {p \in positions : -100 * p.pnl > 3 * p.cost /\ p.close - p.open < 30}
  IN  When(\/ Cardinality(fomo) >= 2
           \/ 4 * Cardinality(fomo) > Cardinality(positions),
           Insight("MISTAKE_FOMO_BUYING", "MISTAKE", "HIGH"))

PositionSizingRule(m) ==
  When(m.max_position_sizing > 1500,
       Insight("RISK_POSITION_SIZING", "RISK_WARNING",
               IF m.max_position_sizing > 2500 THEN "CRITICAL" ELSE "MEDIUM"))

HoldingDurationAsymmetry(m) ==
  When(m.winning_positions > 0 /\ m.losing_positions > 0 /\ m.holding_duration_ratio > 150,
       Insight("MISTAKE_HOLDING_DURATION_ASYMMETRY", "MISTAKE",
               IF m.holding_duration_ratio > 300 THEN "CRITICAL"
               ELSE IF m.holding_duration_ratio > 200 THEN "HIGH" ELSE "MEDIUM"))

\* A mistake below 1, a strength from 2 on.
RiskRewardRatioRule(m) ==
  When(/\ m.closed_positions >= 2 /\ m.losing_positions > 0
       /\ m.risk_reward_ratio < 100 \/ m.risk_reward_ratio >= 200,
       IF m.risk_reward_ratio < 100 THEN Insight("RISK_REWARD_RATIO", "MISTAKE", "HIGH")
       ELSE Insight("RISK_REWARD_RATIO", "STRENGTH", "LOW"))

ConcentrationRisk(m) ==
  When(m.portfolio_hhi > 180000,
       Insight("RISK_CONCENTRATION_HHI", "RISK_WARNING",
               IF m.portfolio_hhi > 300000 THEN "HIGH" ELSE "MEDIUM"))

Overtrading(m) ==
  When(m.total_trades_count > 10,
       Insight("MISTAKE_OVERTRADING", "MISTAKE",
               IF m.total_trades_count > 15 THEN "HIGH" ELSE "MEDIUM"))

Drawdown(m) ==
  When(m.max_drawdown_pct > 1000,
       Insight("RISK_MAX_DRAWDOWN", "RISK_WARNING",
               IF m.max_drawdown_pct > 2000 THEN "CRITICAL" ELSE "HIGH"))

\* Losses of more than 5 %.
StopLossDiscipline(positions) ==
  LET unmanaged == {p \in Losses(positions) : -100 * p.pnl > 5 * p.cost}
  IN  When(unmanaged # {},
           Insight("MISTAKE_STOP_LOSS_DISCIPLINE", "MISTAKE",
                   IF Cardinality(unmanaged) >= 2 THEN "CRITICAL" ELSE "HIGH"))

EvaluateAll(m, positions) ==
  RevengeTrading(positions) \cup FOMOBuying(positions) \cup PositionSizingRule(m)
    \cup HoldingDurationAsymmetry(m) \cup RiskRewardRatioRule(m) \cup ConcentrationRisk(m)
    \cup Overtrading(m) \cup Drawdown(m) \cup StopLossDiscipline(positions)

RuleIds(insights) == {i.rule_id : i \in insights}

-----------------------------------------------------------------------------
(* prioritizer.py                                                            *)

Weight == [LOW |-> 1, MEDIUM |-> 2, HIGH |-> 3, CRITICAL |-> 4]

\* Sizing and concentration, found together, become one warning of the higher
\* severity.
MergeRelatedInsights(insights) ==
  LET of(id)  == {i \in insights : i.rule_id = id}
      sizing  == of("RISK_POSITION_SIZING")
      hhi     == of("RISK_CONCENTRATION_HHI")
  IN  IF sizing = {} \/ hhi = {} THEN insights
      ELSE (insights \ (sizing \cup hhi))
             \cup {Insight("RISK_POSITION_AND_DIVERSIFICATION", "RISK_WARNING",
                          IF Weight[s.severity] >= Weight[h.severity] THEN s.severity
                          ELSE h.severity) : s \in sizing, h \in hhi}

\* Points taken off, each when its rule is among ids.
Deduct(points, ids, id) == IF id \in ids THEN points ELSE 0

SubRisk(insights) ==
  LET ids == RuleIds(insights)
  IN  100 - Deduct(30, ids, "MISTAKE_STOP_LOSS_DISCIPLINE")
          - Deduct(25, ids, "RISK_POSITION_SIZING")
          - (IF \E i \in insights : i.rule_id = "RISK_REWARD_RATIO" /\ i.category = "MISTAKE"
             THEN 20 ELSE 0)

SubDiscipline(insights) ==
  LET ids == RuleIds(insights)
  IN  100 - Deduct(35, ids, "MISTAKE_REVENGE_TRADING")
          - Deduct(25, ids, "MISTAKE_FOMO_BUYING")
          - Deduct(20, ids, "MISTAKE_OVERTRADING")
          - Deduct(20, ids, "MISTAKE_HOLDING_DURATION_ASYMMETRY")

\* These three in 1/10000 of a point.
SubProfitability(m) ==
  Smaller(1000000, 60 * m.win_rate_pct + 1333 * Smaller(m.profit_factor, 300))
SubPreservation(m)    == Larger(0, 1000000 - 400 * m.max_drawdown_pct)
SubDiversification(m) == Larger(0, 1000000 - 3 * Larger(0, m.portfolio_hhi - 100000))

Penalties(m, insights) ==
  Deduct(15, RuleIds(insights), "MISTAKE_REVENGE_TRADING")
    + (IF m.max_position_sizing > 2500 THEN 10 ELSE 0)
    + (IF m.max_drawdown_pct > 2000 THEN 15 ELSE 0)

\* The weighted score less the penalties, in 1/200000 of a point.
RawScore(m, insights) ==
  5 * 10000 * SubRisk(insights) + 5 * 10000 * SubDiscipline(insights)
    + 4 * SubProfitability(m) + 3 * SubPreservation(m) + 3 * SubDiversification(m)
    - 200000 * Penalties(m, insights)

\* In tenths of a point.
HealthScore(m, insights) ==
  (Larger(0, Smaller(20000000, RawScore(m, insights))) + 10000) \div 20000

Grade(score) ==
  IF score >= 900 THEN "MASTER"
  ELSE IF score >= 750 THEN "DISCIPLINED"
  ELSE IF score >= 600 THEN "AVERAGE"
  ELSE IF score >= 400 THEN "NEEDS_WORK" ELSE "HIGH_RISK"

\* The first of these that applies.
ImprovementFocus(m, insights) ==
  LET found(some) == some \cap RuleIds(insights) # {}
  IN  IF found({"MISTAKE_REVENGE_TRADING", "MISTAKE_FOMO_BUYING"}) THEN "Emotional Trading"
      ELSE IF found({"RISK_MAX_DRAWDOWN", "MISTAKE_STOP_LOSS_DISCIPLINE"})
        THEN "Risk Management"
      ELSE IF found({"RISK_POSITION_SIZING", "RISK_POSITION_AND_DIVERSIFICATION"})
        THEN "Position Sizing"
      ELSE IF found({"RISK_CONCENTRATION_HHI"}) THEN "Diversification"
      ELSE IF found({"MISTAKE_HOLDING_DURATION_ASYMMETRY", "MISTAKE_OVERTRADING"})
        THEN "Discipline"
      ELSE IF m.win_rate_pct < 5000 \/ m.profit_factor < 120 THEN "Profit Protection"
      ELSE "Discipline"

\* prioritize
Prioritize(m, insights) ==
  [trading_health_score |-> HealthScore(m, insights),
   grade                |-> Grade(HealthScore(m, insights)),
   improvement_focus    |-> ImprovementFocus(m, insights),
   all_insights         |-> MergeRelatedInsights(insights)]
=============================================================================
