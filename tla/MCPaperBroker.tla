--------------------------- MODULE MCPaperBroker ----------------------------
(***************************************************************************)
(* An instance of PaperBroker for TLC: two candles, one ordinary and one   *)
(* that gaps below the stop level, so that fills, data gaps, stops inside  *)
(* the bar and stops at a gapped open all happen.                          *)
(***************************************************************************)
EXTENDS PaperBroker, TLC

Calm == [open |-> 4, high |-> 5, low |-> 2, close |-> 4]
Gap == [open |-> 1, high |-> 2, low |-> 1, close |-> 1]

\* Days on which both symbols trade, one of them gaps, or one has no candle.
MCDayBars == {<<Calm, Calm>>, <<Gap, Calm>>, <<Calm, Gap>>, <<NoBar, Calm>>, <<NoBar, Gap>>}

OrderIdSymmetry == Permutations(OrderIds)

=============================================================================
