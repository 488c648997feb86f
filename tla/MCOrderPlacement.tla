-------------------------- MODULE MCOrderPlacement ---------------------------
(***************************************************************************)
(* An instance of OrderPlacement for TLC: two callers, one of which may    *)
(* call again, and a bucket of one token that takes two ticks to refill.   *)
(***************************************************************************)
EXTENDS OrderPlacement

MCOrders == {"o1", "o2"}

MCMaxCalls == [o \in MCOrders |-> IF o = "o1" THEN 2 ELSE 1]

=============================================================================
