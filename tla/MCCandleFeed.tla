---------------------------- MODULE MCCandleFeed -----------------------------
(***************************************************************************)
(* An instance of CandleFeed for TLC: the daemon, which only updates, and  *)
(* the command line, on one symbol, with pages of two bars and more bars   *)
(* than an update reads again.                                             *)
(***************************************************************************)
EXTENDS CandleFeed

MCRunners == {"daemon", "command"}

MCJobs == [p \in MCRunners |->
             IF p = "daemon" THEN {"update"} ELSE {"update", "backfill"}]

=============================================================================
