---------------------------- MODULE MCProposals -----------------------------
(***************************************************************************)
(* An instance of Proposals for TLC.  Entries of s1 have a stop, which     *)
(* falls on every day that s1 trades; those of s2 have none, and s2 trades *)
(* on every day.  A calm day differs from such a fall only for a position  *)
(* of s1 that is older than the day, which a gap keeps as well.            *)
(***************************************************************************)
EXTENDS Proposals

CONSTANTS s1, s2

MCSignals == {<<s1, TRUE>>, <<s2, FALSE>>}

MCDayCandles ==
  {[s \in Symbols |-> "fall"], [s \in Symbols |-> IF s = s1 THEN "gap" ELSE "fall"]}

=============================================================================
