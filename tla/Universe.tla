------------------------------ MODULE Universe -------------------------------
(***************************************************************************)
(* universe.Build of src/internal/universe: which symbols may be entered   *)
(* on a day, from the stored candles alone.  candles[s] is the sequence of *)
(* rows [day, bar] of a symbol.  Symbols are those whose name, quote asset *)
(* and base pass (filter.go's first three checks) and that are listed; the *)
(* exchange client never fills listed_at in.                               *)
(***************************************************************************)
EXTENDS Integers, Sequences, FiniteSets, FiniteSetsExt, SequencesExt, TLC

CONSTANTS
  ScoringFloor,      \* minCandlesForScoring
  MinAge,            \* universe.min_listing_age_days
  LiquidityDays,     \* FilterParams.LiquidityLookbackDays
  QualityDays,       \* FilterParams.QualityLookbackDays
  MarginDays,        \* the margin of candleLookbackDays
  MinVolume,         \* universe.min_median_quote_volume
  MaxSymbols         \* universe.max_symbols, 0 for no cap

ASSUME UniverseAssumption ==
  {ScoringFloor, MinAge, LiquidityDays, QualityDays, MarginDays, MinVolume, MaxSymbols} \subseteq Nat

EffectiveWarmup(warmup) == Max({warmup, ScoringFloor})

CandleLookback(warmup) == Max({EffectiveWarmup(warmup), LiquidityDays}) + MarginDays

\* The rows of these days, both ends included, in order.
GetCandlesForSymbols(candles, from, to) ==
  [s \in DOMAIN candles |-> SelectSeq(candles[s], LAMBDA r : from <= r.day /\ r.day <= to)]

\* Both ends are part of the window.
InWindow(rows, asOf, days) ==
  SelectSeq(rows, LAMBDA r : asOf - days <= r.day /\ r.day <= asOf)

\* listed_at is unknown: the age is counted from the first candle that was read.
Age(rows, asOf) == asOf - rows[1].day

\* A missing candle, or one without volume or with an outlier jump.
Flagged(rows) ==
  \E i \in DOMAIN rows : rows[i].bar.odd \/ (i > 1 /\ rows[i].day > rows[i - 1].day + 1)

\* Twice the median, so that it stays an integer.
MedianTwice(rows) ==
  LET v == SortSeq([i \in DOMAIN rows |-> rows[i].bar.volume], <)
      n == Len(rows)
  IN  v[(n + 1) \div 2] + v[(n + 2) \div 2]

Included(rows, asOf, warmup) ==
  /\ rows # <<>>
  /\ Age(rows, asOf) >= MinAge
  /\ Len(rows) >= EffectiveWarmup(warmup)
  /\ ~Flagged(InWindow(rows, asOf, QualityDays))
  /\ LET recent == InWindow(rows, asOf, LiquidityDays)
     IN  recent # <<>> /\ MedianTwice(recent) >= 2 * MinVolume

\* Score's order: best first, ties in the order of the symbols.
ScoreRank(s, included, score) ==
  1 + Cardinality({r \in included : score[r] > score[s] \/ (score[r] = score[s] /\ r < s)})

CapByMaxSymbols(included, score) ==
  {s \in included : MaxSymbols = 0 \/ ScoreRank(s, included, score) <= MaxSymbols}

Build(candles, asOf, warmup) ==
  LET read == GetCandlesForSymbols(candles, asOf - CandleLookback(warmup), asOf)
      included == {s \in DOMAIN candles : Included(read[s], asOf, warmup)}
  IN  CapByMaxSymbols(included, [s \in included |-> Last(read[s]).bar.score])

=============================================================================
