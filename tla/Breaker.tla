------------------------------ MODULE Breaker -------------------------------
(***************************************************************************)
(* The circuit breaker of src/internal/risk/breaker.go as a value: its     *)
(* state, its rolling history and the operations on it.  A breaker opens   *)
(* on drawdown from the peak equity, on a losing streak, on a daily loss   *)
(* or on too many order errors in 24 hours, in this order of precedence,   *)
(* and Check never closes it.                                              *)
(*                                                                         *)
(* Times are ticks, Day of them in 24 hours and days starting at the       *)
(* multiples of Day.  The two limits that are fractions are in percent.    *)
(***************************************************************************)
EXTENDS Integers, Sequences, FiniteSets, FiniteSetsExt, SequencesExt

CONSTANTS
  Day,                    \* ticks in 24 hours
  MaxDrawdown,            \* percent of the peak equity
  MaxConsecutiveLosses,
  MaxDailyLoss,           \* percent of the equity
  MaxOrderErrors          \* in the trailing 24 hours

ASSUME BreakerAssumption ==
  /\ Day \in Nat \ {0}
  /\ MaxDrawdown \in Nat \ {0}
  /\ MaxConsecutiveLosses \in Nat \ {0}
  /\ MaxDailyLoss \in Nat \ {0}
  /\ MaxOrderErrors \in Nat \ {0}

Reasons == {"max_drawdown", "max_consecutive_losses", "max_daily_loss",
            "max_order_errors_24h"}

State == [open : BOOLEAN, reason : Reasons \union {""}, at : Nat]

TradeResult == [closedAt : Nat, pnl : Int]

\* The number tells apart two errors of the same time; only how many there are counts.
OrderError == [nr : Nat, at : Nat]

BreakerType == [state : State, trades : Seq(TradeResult), errors : SUBSET OrderError, peak : Nat]

Closed == [open |-> FALSE, reason |-> "", at |-> 0]

NewBreaker == [state |-> Closed, trades |-> <<>>, errors |-> {}, peak |-> 0]

-----------------------------------------------------------------------------
(***************************************************************************)
(* The four rules                                                          *)
(***************************************************************************)
DrawdownTrips(peak, equity) ==
  peak > 0 /\ (peak - equity) * 100 >= MaxDrawdown * peak

StreakTrips(trades) ==
  /\ Len(trades) >= MaxConsecutiveLosses
  /\ \A i \in Len(trades) - MaxConsecutiveLosses + 1 .. Len(trades) : trades[i].pnl < 0

DailyPnL(trades, now) ==
  SumFunctionOnSet([i \in DOMAIN trades |-> trades[i].pnl],
                   {i \in DOMAIN trades : trades[i].closedAt \div Day = now \div Day})

DailyLossTrips(trades, equity, now) ==
  LET pnl == DailyPnL(trades, now)
  IN  pnl < 0 /\ equity > 0 /\ -pnl * 100 >= MaxDailyLoss * equity

\* An error dated after now does not count, one exactly 24 hours old does.
ErrorsTrip(errors, now) ==
  Cardinality({e \in errors : now - Day <= e.at /\ e.at <= now}) >= MaxOrderErrors

-----------------------------------------------------------------------------
(***************************************************************************)
(* The operations                                                          *)
(***************************************************************************)
\* Mutant: an error exactly 24 hours old is dropped.
LessThan24h(errors, now) == {e \in errors : e.at > now - Day}

Last24h(errors, now) == {e \in errors : e.at >= now - Day}

\* RecordTrade, called for one trade after the other.
RecordTrades(b, closed) == [b EXCEPT !.trades = @ \o closed]

RecordOrderError(b, e) == [b EXCEPT !.errors = @ \union {e}]

\* Mutant: an open breaker is evaluated afresh, and closes when no rule holds.
CheckWithoutLatch(b, equity, now) ==
  LET peak == Max({b.peak, equity})
      errors == Last24h(b.errors, now)
      reason == CASE DrawdownTrips(peak, equity) -> "max_drawdown"
                  [] StreakTrips(b.trades) -> "max_consecutive_losses"
                  [] DailyLossTrips(b.trades, equity, now) -> "max_daily_loss"
                  [] ErrorsTrip(errors, now) -> "max_order_errors_24h"
                  [] OTHER -> ""
  IN  [b EXCEPT !.peak = peak, !.errors = errors,
                !.state = IF reason = "" THEN Closed
                          ELSE [open |-> TRUE, reason |-> reason, at |-> now]]

\* Peak and error window are kept up to date whether or not the breaker is open.
Check(b, equity, now) ==
  LET peak == Max({b.peak, equity})
      errors == Last24h(b.errors, now)
      reason == IF DrawdownTrips(peak, equity) THEN "max_drawdown"
                ELSE IF StreakTrips(b.trades) THEN "max_consecutive_losses"
                ELSE IF DailyLossTrips(b.trades, equity, now) THEN "max_daily_loss"
                ELSE IF ErrorsTrip(errors, now) THEN "max_order_errors_24h"
                ELSE ""
      kept == [b EXCEPT !.peak = peak, !.errors = errors]
  IN  IF b.state.open \/ reason = ""
      THEN kept
      ELSE [kept EXCEPT !.state = [open |-> TRUE, reason |-> reason, at |-> now]]

=============================================================================
