----------------------------- MODULE Strategies ------------------------------
(***************************************************************************)
(* Trendfollow.Evaluate and Momentum.Evaluate of src/internal/strategy.    *)
(* What the indicators make of the candles is part of the bar: `up` is     *)
(* close > SMA(long), close = the breakout high and a low ATR together,    *)
(* `weak` is close < SMA(exit), `score` the cross-sectional score, `rated` *)
(* says that the metrics of the score are all defined.                     *)
(*                                                                         *)
(* series[s] = [bar, n]: today's bar and the number of bars up to it.      *)
(* A strategy returns what it wants: new stop levels, symbols to leave and *)
(* symbols to enter with the stop of the entry.  Every open position is    *)
(* one of the configured strategy's.                                       *)
(***************************************************************************)
EXTENDS Integers, FiniteSets, FiniteSetsExt

CONSTANTS
  TrendPeriods,    \* sma_long, sma_exit, breakout_lookback, atr_period
  ReturnPeriods,   \* mom_long, mom_short, vol_lookback: n returns need n + 1 bars
  LevelPeriods,    \* liq_lookback, atr_period
  StopMult,        \* atr_stop_mult
  TopN, ExitRank,  \* of momentum
  Week, Weekday    \* days of a week and the one of the rebalance

ASSUME StrategyAssumption ==
  /\ TrendPeriods \subseteq Nat /\ ReturnPeriods \subseteq Nat /\ LevelPeriods \subseteq Nat
  /\ TrendPeriods # {} /\ ReturnPeriods # {}
  /\ IsFiniteSet(TrendPeriods) /\ IsFiniteSet(ReturnPeriods) /\ IsFiniteSet(LevelPeriods)
  /\ {StopMult, TopN, ExitRank, Week} \subseteq Nat \ {0}
  /\ Weekday \in 0 .. Week - 1

WarmupBars(strategy) ==
  IF strategy = "trendfollow"
  THEN Max(TrendPeriods)
  ELSE Max({p + 1 : p \in ReturnPeriods} \union LevelPeriods)

EntryStop(bar) == bar.close - StopMult * bar.atr

NoSignals == [stops |-> [s \in {} |-> 0], exits |-> {}, enters |-> [s \in {} |-> 0]]

-----------------------------------------------------------------------------
(***************************************************************************)
(* Trendfollow                                                             *)
(***************************************************************************)
\* Mutant: the trailing stop follows the ATR down as well.
TrailingStopLoose(p, bar) == Max({p.high, bar.high}) - StopMult * bar.atr

TrailingStop(p, bar) == Max({p.stop, Max({p.high, bar.high}) - StopMult * bar.atr})

Trend(series, universe, held, pos) ==
  LET managed == DOMAIN series \intersect held
      broken == {s \in universe \ held : series[s].n >= WarmupBars("trendfollow") /\ series[s].bar.up}
  IN  [stops |-> [s \in managed |-> TrailingStop(pos[s], series[s].bar)],
       exits |-> {s \in managed : series[s].bar.weak},
       enters |-> [s \in broken |-> EntryStop(series[s].bar)]]

-----------------------------------------------------------------------------
(***************************************************************************)
(* Momentum                                                                *)
(***************************************************************************)
\* Best score first, ties by symbol.
RankAmong(s, ranked, score) ==
  1 + Cardinality({r \in ranked : score[r] > score[s] \/ (score[r] = score[s] /\ r < s)})

\* Mutant: a held symbol that is not ranked any more is kept.
FallenRankedOnly(ranked, rank, held) == {s \in ranked \intersect held : rank[s] > ExitRank}

\* Held symbols outside the exit rank, or out of the ranking altogether.
Fallen(ranked, rank, held) == {s \in held : s \notin ranked \/ rank[s] > ExitRank}

Momentum(day, series, universe, held) ==
  LET ranked == {s \in universe : series[s].n >= WarmupBars("momentum") /\ series[s].bar.rated}
      score == [s \in ranked |-> series[s].bar.score]
      rank == [s \in ranked |-> RankAmong(s, ranked, score)]
      best == {s \in ranked \ held : rank[s] <= TopN}
  IN  IF day % Week # Weekday
      THEN NoSignals
      ELSE [stops |-> [s \in {} |-> 0],
            exits |-> Fallen(ranked, rank, held),
            enters |-> [s \in best |-> EntryStop(series[s].bar)]]

Signals(strategy, day, series, universe, held, pos) ==
  IF strategy = "trendfollow"
  THEN Trend(series, universe, held, pos)
  ELSE Momentum(day, series, universe, held)

=============================================================================
