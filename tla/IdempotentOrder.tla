--------------------------- MODULE IdempotentOrder ---------------------------
(***************************************************************************)
(* What CreateOrder promises (src/internal/exchange/exchange.go, Exchange):*)
(* whatever is lost, repeated or answered late, a client order ID stands   *)
(* for at most one order, and who is told that it was placed can rely on   *)
(* it.  A failure promises nothing: the order may be there, or come.       *)
(***************************************************************************)
EXTENDS Naturals

CONSTANT Orders   \* client order IDs

VARIABLES
  placed,   \* placed[o]: orders the exchange holds under the ID
  told      \* told[o]: what the caller knows: nothing, "ok" or "failed"

vars == <<placed, told>>

TypeOK ==
  /\ placed \in [Orders -> 0 .. 1]
  /\ told \in [Orders -> {"nothing", "ok", "failed"}]

Init ==
  /\ placed = [o \in Orders |-> 0]
  /\ told = [o \in Orders |-> "nothing"]

Place(o) ==
  /\ placed[o] = 0
  /\ placed' = [placed EXCEPT ![o] = 1]
  /\ UNCHANGED told

Confirm(o) ==
  /\ told[o] = "nothing"
  /\ placed[o] = 1
  /\ told' = [told EXCEPT ![o] = "ok"]
  /\ UNCHANGED placed

Fail(o) ==
  /\ told[o] = "nothing"
  /\ told' = [told EXCEPT ![o] = "failed"]
  /\ UNCHANGED placed

\* The caller asks again after a failure.
Retry(o) ==
  /\ told[o] = "failed"
  /\ told' = [told EXCEPT ![o] = "nothing"]
  /\ UNCHANGED placed

Next == \E o \in Orders : Place(o) \/ Confirm(o) \/ Fail(o) \/ Retry(o)

Spec == Init /\ [][Next]_vars

=============================================================================
