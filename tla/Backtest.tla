------------------------------ MODULE Backtest -------------------------------
(***************************************************************************)
(* backtest.Run of src/internal/backtest/engine.go as a function: what a   *)
(* run over some candles returns, from the breaker it is handed.           *)
(*                                                                         *)
(* candles[s] maps the days on which symbol s has a bar to that bar.  A    *)
(* parameter point p is a record of the parameters that are varied, warm   *)
(* (sma_long) and mult (atr_stop_mult); a bar's `up` is the set of the     *)
(* values of warm for which it is a breakout.  The strategy is             *)
(* trend-following, a fill costs nothing, and a tick is a day.             *)
(***************************************************************************)
EXTENDS RiskGate, Breaker, PaperBook

Params == [warm : Nat, mult : Nat]

DayBar == [open : Nat, high : Nat, low : Nat, close : Nat, atr : Nat, up : SUBSET Nat, weak : BOOLEAN]

ASSUME BacktestAssumption == NoBar \notin DayBar

Strat(p) ==
  INSTANCE Strategies WITH
    TrendPeriods <- {p.warm}, StopMult <- p.mult,
    ReturnPeriods <- {1}, LevelPeriods <- {1},
    TopN <- 1, ExitRank <- 1, Week <- 1, Weekday <- 0

\* buildCalendar: the days on which some symbol has a bar; a run visits them in order.
Calendar(candles) == UNION {DOMAIN candles[s] : s \in Symbols}

\* The place of a day in the calendar.
Place(candles, day) == Cardinality({d \in Calendar(candles) : d <= day})

BarsOn(candles, day) ==
  [s \in Symbols |-> IF day \in DOMAIN candles[s] THEN candles[s][day] ELSE NoBar]

-----------------------------------------------------------------------------
(***************************************************************************)
(* A run in progress                                                       *)
(***************************************************************************)
\* n[s] is the number of bars of s so far, price[s] the close of the last one.
StartRun(cash, breaker) ==
  [book |-> [EmptyBook EXCEPT !.cash = cash], brk |-> breaker,
   n |-> [s \in Symbols |-> 0], price |-> [s \in Symbols |-> 0],
   equity |-> <<>>, trades |-> <<>>]

Trading(bars) == {s \in Symbols : bars[s] # NoBar}

\* A day of the warm-up: the broker advances, and there is nothing to fill.
Prime(run, bars, day) ==
  [run EXCEPT
     !.book = Advance(@, bars, day),
     !.n = [s \in Symbols |-> IF s \in Trading(bars) THEN @[s] + 1 ELSE @[s]],
     !.price = [s \in Symbols |-> IF s \in Trading(bars) THEN bars[s].close ELSE @[s]]]

\* Trades that the day has closed reach the breaker before it is checked.
Recorded(run, bars, day) ==
  LET closed == ClosedTrades(run.book, bars, day)
      now == Prime(run, bars, day)
      equity == Portfolio(now.book, now.price).equity
      told == RecordTrades(run.brk, [i \in DOMAIN closed |->
                                       [closedAt |-> closed[i].left, pnl |-> closed[i].pnl]])
  IN  [now EXCEPT
         !.equity = Append(@, [day |-> day, equity |-> equity]),
         !.trades = @ \o closed,
         !.brk = Check(told, equity, day)]

\* The quantities the gate approves of the entries, by their stops.
Gated(run, enters, bars, day) ==
  LET portfolio == Portfolio(run.book, run.price)
  IN  [s \in DOMAIN enters |->
         Evaluate(s, bars[s].close, enters[s], portfolio, day,
                  run.book.lastExit[s], run.brk.state.open)]

\* Stops and exits, then the entries the gate approves, for tomorrow's open.
Submitted(run, signals, bars, day) ==
  [run EXCEPT !.book = Enter(Leave(@, signals), Gated(run, signals.enters, bars, day), signals.enters)]

\* The strategy is called for the symbols with a bar today and their warm-up behind them.
Decided(p, run, bars, day) ==
  LET universe == {s \in Trading(bars) : run.n[s] > p.warm}
      seen(s) == [bars[s] EXCEPT !.up = p.warm \in @]
      series == [s \in universe |-> [bar |-> seen(s), n |-> run.n[s]]]
  IN  IF universe = {}
      THEN run
      ELSE Submitted(run, Strat(p)!Trend(series, universe, Held(run.book), run.book.pos), bars, day)

\* A calendar that leaves no day to evaluate after the warm-up is an error.
Usable(p, candles) == Cardinality(Calendar(candles)) > p.warm + 1

\* A day of the calendar: the first ones are the warm-up, the others are evaluated.
RunDay(p, run, candles, day) ==
  LET bars == BarsOn(candles, day)
  IN  IF day \notin Calendar(candles)
      THEN run
      ELSE IF Place(candles, day) <= p.warm + 1
      THEN Prime(run, bars, day)
      ELSE Decided(p, Recorded(run, bars, day), bars, day)

\* The equity curve, the closed trades and the breaker as the run leaves it.
Run(p, candles, cash, breaker) ==
  LET last == Max({0} \union Calendar(candles))
      after[day \in 0 .. last] ==
        IF day = 0 THEN StartRun(cash, breaker) ELSE RunDay(p, after[day - 1], candles, day)
  IN  after[last]

-----------------------------------------------------------------------------
(***************************************************************************)
(* Metrics, in per mille.  A period is taken for a year, so that the       *)
(* annual growth of Calmar is the total return.                            *)
(***************************************************************************)
TotalReturn(equity) ==
  IF equity = <<>> THEN 0 ELSE (1000 * Last(equity).equity) \div equity[1].equity - 1000

\* The deepest fall below the running peak, as a positive number.
MaxFall(equity) ==
  LET peak(i) == Max({equity[j].equity : j \in 1 .. i})
  IN  Max({0} \union {(1000 * (peak(i) - equity[i].equity)) \div peak(i) : i \in DOMAIN equity})

Calmar(equity) == (1000 * TotalReturn(equity)) \div MaxFall(equity)

DefaultObjective(equity) ==
  IF MaxFall(equity) > 0 THEN Calmar(equity) ELSE TotalReturn(equity)

\* BuyAndHoldCurve: all cash into the symbol at the first day's open, nothing
\* without a bar on that day; a later day without a bar keeps the last close.
BuyAndHoldCurve(series, calendar, cash) ==
  LET lastClose(day) == series[Max({d \in DOMAIN series : d <= day})].close
  IN  IF calendar = <<>> \/ calendar[1] \notin DOMAIN series
      THEN <<>>
      ELSE [i \in DOMAIN calendar |->
              [day |-> calendar[i],
               equity |-> (cash * lastClose(calendar[i])) \div series[calendar[1]].open]]

=============================================================================
