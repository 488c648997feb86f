------------------------------ MODULE RiskGate -------------------------------
(***************************************************************************)
(* Gate.Evaluate and Sizer.Size of src/internal/risk/gate.go and sizer.go: *)
(* whether an entry is allowed, and how much of it.  Prices and money are  *)
(* integers, percentages are out of 100, time is in days.                  *)
(***************************************************************************)
EXTENDS Integers, FiniteSets, FiniteSetsExt

CONSTANTS
  MaxPositions,     \* risk.max_positions
  MaxExposurePct,   \* risk.max_exposure
  CooldownDays,     \* risk.cooldown_hours
  RiskPct,          \* risk.risk_per_trade
  MaxPositionPct,   \* risk.max_position_pct
  Step,             \* the market's step size
  MinNotional       \* the market's smallest order

ASSUME GateAssumption ==
  /\ {MaxPositions, MaxExposurePct, CooldownDays, RiskPct, MaxPositionPct, Step} \subseteq Nat \ {0}
  /\ MinNotional \in Nat

\* (num / den), rounded down to a multiple of Step.
FloorToStep(num, den) == (num \div (den * Step)) * Step

\* The quantity of an entry at price ref with a stop, 0 if there is none to be had:
\* what the risk budget buys, cut to the share of one position and to the cash.
Size(ref, stop, portfolio) ==
  IF ref <= 0 \/ stop >= ref
  THEN 0
  ELSE LET qty == Min({FloorToStep(portfolio.equity * RiskPct, 100 * (ref - stop)),
                       FloorToStep(portfolio.equity * MaxPositionPct, 100 * ref),
                       FloorToStep(portfolio.cash, ref)})
       IN  IF qty <= 0 \/ qty * ref < MinNotional THEN 0 ELSE qty

\* Portfolio.Exposure() >= max_exposure, without the division.
Exposed(portfolio) ==
  \/ /\ portfolio.equity > 0
     /\ 100 * (portfolio.equity - portfolio.cash) >= MaxExposurePct * portfolio.equity
  \/ /\ portfolio.equity < 0
     /\ 100 * (portfolio.equity - portfolio.cash) <= MaxExposurePct * portfolio.equity

CoolingDown(now, lastExit) == lastExit > 0 /\ now < lastExit + CooldownDays

Allowed(s, portfolio, now, lastExit, breakerOpen) ==
  /\ ~breakerOpen
  /\ Cardinality(portfolio.held) < MaxPositions
  /\ ~Exposed(portfolio)
  /\ s \notin portfolio.held
  /\ ~CoolingDown(now, lastExit)
  /\ MinNotional = 0 \/ portfolio.cash >= MinNotional

\* The quantity the gate approves; 0 is a refusal.
Evaluate(s, ref, stop, portfolio, now, lastExit, breakerOpen) ==
  IF Allowed(s, portfolio, now, lastExit, breakerOpen)
  THEN Size(ref, stop, portfolio)
  ELSE 0

=============================================================================
