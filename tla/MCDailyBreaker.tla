--------------------------- MODULE MCDailyBreaker ---------------------------
(***************************************************************************)
(* An instance of DailyBreaker for TLC.  Against an equity of 100 the      *)
(* outcomes are a win, a small loss (two in a row are a losing streak), a  *)
(* loss that exceeds the daily limit exactly, and a fall of the open       *)
(* positions that exceeds the drawdown limit without a closed trade.       *)
(***************************************************************************)
EXTENDS DailyBreaker

MCOutcomes == {[equity |-> 100, closed |-> <<2>>],
               [equity |-> 100, closed |-> <<-2>>],
               [equity |-> 100, closed |-> <<-3, 1, -3>>],
               [equity |-> 85, closed |-> <<>>]}

=============================================================================
