---------------------------- MODULE MCTradingDays ----------------------------
(***************************************************************************)
(* An instance of TradingDays for TLC: two symbols, three days of history  *)
(* and four free ones.                                                     *)
(***************************************************************************)
EXTENDS TradingDays

Bar(open, high, low, close, atr, up, weak, odd, volume, score) ==
  [open |-> open, high |-> high, low |-> low, close |-> close, atr |-> atr, up |-> up,
   weak |-> weak, odd |-> odd, volume |-> volume, rated |-> volume > 0, score |-> score]

Quiet == Bar(20, 21, 19, 20, 2, FALSE, FALSE, FALSE, 5, 1)
Breakout == Bar(20, 25, 20, 24, 2, TRUE, FALSE, FALSE, 5, 3)
Rally == Bar(24, 32, 24, 30, 4, TRUE, FALSE, FALSE, 5, 2)
Crash == Bar(16, 17, 14, 15, 6, FALSE, TRUE, FALSE, 5, 0)
Wild == Bar(20, 30, 18, 24, 12, TRUE, FALSE, FALSE, 5, 4)
Dried == Bar(22, 23, 21, 22, 2, FALSE, TRUE, TRUE, 0, 1)

MCDayBars ==
  {<<Breakout, Breakout>>, <<Rally, Quiet>>, <<NoBar, Rally>>, <<Crash, Breakout>>,
   <<Wild, Crash>>, <<Dried, Quiet>>}

=============================================================================
