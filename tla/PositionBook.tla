---------------------------- MODULE PositionBook ----------------------------
(***************************************************************************)
(* What a broker of swingbot promises about one symbol's position, without *)
(* queues, prices, cash or stop levels.  A symbol is flat, entering, open  *)
(* or exiting, and every settlement happens on a strictly later day than   *)
(* the event it settles: an order placed on day d fills after d (the rule  *)
(* the source calls I2), and a position opened on day d is stopped out     *)
(* after d.  A symbol has at most one live order, an exit is only ever     *)
(* ordered for a position that is held, and a stop never closes a position *)
(* whose exit is already ordered.                                          *)
(*                                                                         *)
(* ordered[s] is the day of the symbol's live market order, entered[s] the *)
(* day its position was opened; None when there is none:                   *)
(*                    ordered = None   ordered = d                         *)
(*   entered = None       flat            entering                         *)
(*   entered = d          open            exiting                          *)
(***************************************************************************)
EXTENDS Integers

CONSTANT Symbols

VARIABLES day, ordered, entered

vars == <<day, ordered, entered>>

None == -1

Init ==
  /\ day = 0
  /\ ordered = [s \in Symbols |-> None]
  /\ entered = [s \in Symbols |-> None]

NewDay ==
  /\ day' = day + 1
  /\ UNCHANGED <<ordered, entered>>

\* A market order is accepted: an entry when flat, an exit when open.
Order(s) ==
  /\ ordered[s] = None
  /\ ordered' = [ordered EXCEPT ![s] = day]
  /\ UNCHANGED <<day, entered>>

\* The live order is taken back before it fills.
Withdraw(s) ==
  /\ ordered[s] # None
  /\ ordered' = [ordered EXCEPT ![s] = None]
  /\ UNCHANGED <<day, entered>>

SettleEntry(s) ==
  /\ entered[s] = None
  /\ ordered[s] # None
  /\ ordered[s] < day
  /\ ordered' = [ordered EXCEPT ![s] = None]
  /\ entered' = [entered EXCEPT ![s] = day]
  /\ UNCHANGED day

SettleExit(s) ==
  /\ entered[s] # None
  /\ ordered[s] # None
  /\ ordered[s] < day
  /\ ordered' = [ordered EXCEPT ![s] = None]
  /\ entered' = [entered EXCEPT ![s] = None]
  /\ UNCHANGED day

StopOut(s) ==
  /\ entered[s] # None
  /\ entered[s] < day
  /\ ordered[s] = None
  /\ entered' = [entered EXCEPT ![s] = None]
  /\ UNCHANGED <<day, ordered>>

Next ==
  \/ NewDay
  \/ \E s \in Symbols :
        Order(s) \/ Withdraw(s) \/ SettleEntry(s) \/ SettleExit(s) \/ StopOut(s)

Spec == Init /\ [][Next]_vars

=============================================================================
