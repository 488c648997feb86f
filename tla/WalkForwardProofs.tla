-------------------------- MODULE WalkForwardProofs --------------------------
(***************************************************************************)
(* What `swingbot walkforward` promises, proved for every history, every   *)
(* parameter grid, every number of windows and every number of commands.   *)
(*                                                                         *)
(* The first part is about the two rows of system_state and what the       *)
(* running command remembers of them: the locked segment is shown once     *)
(* without the warning, and every report on it is graded by the thresholds *)
(* that were written down first.                                           *)
(*                                                                         *)
(* The second part is about backtests.  A run is a table with an entry for *)
(* each day, so that what holds of a run is an invariant of its days, and  *)
(* what holds of two runs a relation that their days preserve.  From the   *)
(* invariants of a run follow those of the walk through the windows: its   *)
(* tests make one curve, and it never looks ahead.                         *)
(***************************************************************************)
EXTENDS WalkForward, LibraryProofs

\* The command is past its thresholds, or past its look as well.
Graded == pc \in {"view", "segment", "train", "test", "sweep", "verdict"}

Laid == pc \in {"segment", "train", "test", "sweep", "verdict"}

Flags == [locked : BOOLEAN, force : BOOLEAN, min : MinTradesChoices \union {0},
          axes : AxesChoices \union {<<>>}]

\* What is proved of the types: the rows, the flags and where a command is.
FlagsOK ==
  /\ thresholds \in MinTradesChoices \union {NoRecord}
  /\ cmd \in Flags
  /\ warned \in BOOLEAN
  /\ looks \in Nat

\* The record of a look repeats the thresholds, which are never overwritten.
RowsInv == lockedView # NoRecord => lockedView = thresholds

\* What the running command may rely on at each place.
CommandInv ==
  /\ pc = "decide" => ~cmd.locked /\ cmd.min \in MinTradesChoices
  /\ pc \in {"recall", "view"} => cmd.locked
  /\ Graded => /\ thresholds # NoRecord
               /\ cmd.min = thresholds \/ (~cmd.locked /\ cmd.min = 0)
  /\ Laid /\ cmd.locked =>
       /\ lockedView # NoRecord
       /\ ~warned => looks = 0

\* The looks so far, and the report that was written last.
ReportInv ==
  /\ looks <= 1
  /\ looks > 0 => lockedView # NoRecord
  /\ report # NoRecord =>
       /\ thresholds # NoRecord
       /\ report.min = thresholds \/ (~report.locked /\ report.min = 0)
       /\ report.locked => lockedView # NoRecord /\ (report.passed <=> report.earned)
       /\ report.earned => report.passed

IInv == FlagsOK /\ RowsInv /\ CommandInv /\ ReportInv

-----------------------------------------------------------------------------
LEMMA NoCommandIsTyped == NoCommand \in Flags
  BY DEF NoCommand, Flags

\* Without rows, command and report, all of it holds.
LEMMA InitInv == Init => IInv
<1>1. Init => cmd \in Flags /\ warned \in BOOLEAN
  BY NoCommandIsTyped, Zenon DEF Init
<1>2. Init => FlagsOK
  <2>1. Init => looks \in Nat /\ thresholds = NoRecord
    BY DEF Init
  <2> QED BY <1>1, <2>1, Zenon DEF FlagsOK
<1>3. Init => RowsInv /\ CommandInv /\ ReportInv
  BY DEF Init, RowsInv, CommandInv, ReportInv, Graded, Laid
<1> QED BY <1>2, <1>3 DEF IInv

\* A command starts with its flags, before its thresholds.
LEMMA StartCommandInv ==
  ASSUME IInv, NEW c \in Commands, StartCommand(c)
  PROVE  IInv'
  BY DEF StartCommand, Commands, storeVars, IInv, FlagsOK, Flags, RowsInv, CommandInv, ReportInv,
         Graded, Laid

\* Whatever ends a command keeps the rows and the report.
LEMMA AbortInv ==
  ASSUME IInv, Abort
  PROVE  IInv'
  BY DEF Abort, Idle, NoCommand, storeVars, IInv, FlagsOK, Flags, RowsInv, CommandInv, ReportInv,
         Graded, Laid

\* The first command writes the thresholds it grades by, before any report; there was no
\* look yet, so that the record of a look still repeats them.  A later one grades by them,
\* or by nothing.
LEMMA DecideThresholdsInv ==
  ASSUME IInv, DecideThresholds
  PROVE  IInv'
<1>1. /\ pc = "decide" /\ pc' = "segment"
      /\ ~cmd.locked /\ cmd.min \in MinTradesChoices
      /\ cmd' \in {[cmd EXCEPT !.min = thresholds'], [cmd EXCEPT !.min = 0]}
      /\ UNCHANGED <<lockedView, warned, report, looks>>
  BY DEF IInv, CommandInv, DecideThresholds
<1>2. thresholds' \in MinTradesChoices /\ (thresholds # NoRecord => thresholds' = thresholds)
  BY <1>1 DEF IInv, FlagsOK, DecideThresholds, HaveThresholds, SaveThresholds
<1>3. thresholds' # NoRecord
  BY <1>2, WalkForwardAssumption
<1>4. cmd'.locked = cmd.locked /\ cmd'.min \in {thresholds', 0}
  BY <1>1 DEF IInv, FlagsOK, Flags
<1>5. FlagsOK'
  BY <1>1, <1>2 DEF IInv, FlagsOK, Flags
<1>6. lockedView # NoRecord => thresholds # NoRecord
  BY DEF IInv, RowsInv
<1>7. RowsInv'
  BY <1>1, <1>2, <1>6 DEF IInv, RowsInv
<1>8. CommandInv'
  BY <1>1, <1>3, <1>4 DEF CommandInv, Graded, Laid
<1>9. ReportInv'
  BY <1>1, <1>2, <1>3 DEF IInv, ReportInv
<1> QED BY <1>5, <1>7, <1>8, <1>9 DEF IInv

\* On the locked segment the thresholds are those of the row.
LEMMA RecallThresholdsInv ==
  ASSUME IInv, RecallThresholds
  PROVE  IInv'
  BY DEF RecallThresholds, HaveThresholds, storeVars, IInv, FlagsOK, Flags, RowsInv, CommandInv,
         ReportInv, Graded, Laid

\* A command that is not warned found no record of a look, so that no report on the locked
\* segment was written yet.
LEMMA ViewLockedSegmentInv ==
  ASSUME IInv, ViewLockedSegment
  PROVE  IInv'
  BY DEF ViewLockedSegment, HaveView, SaveView, IInv, FlagsOK, Flags, RowsInv, CommandInv,
         ReportInv, Graded, Laid

\* The steps between the look and the report leave rows, flags and warning alone.
LEMMA RunStepInv ==
  ASSUME IInv, Begin \/ Train \/ Test \/ Sweep
  PROVE  IInv'
<1>1. /\ Laid /\ pc' \in {"train", "test", "sweep", "verdict"}
      /\ UNCHANGED <<thresholds, lockedView, cmd, warned, report, looks>>
  BY DEF Begin, Train, Test, Sweep, LaidOut, Laid, storeVars
<1> QED
  BY <1>1 DEF IInv, FlagsOK, Flags, RowsInv, CommandInv, ReportInv, Graded, Laid

\* A report is graded by the row; without the warning it is the first look.
LEMMA ReportStepInv ==
  ASSUME IInv, NEW positive \in BOOLEAN, Report(positive)
  PROVE  IInv'
<1>1. /\ Graded /\ Laid /\ pc' = "idle" /\ cmd' = NoCommand /\ warned' = FALSE
      /\ UNCHANGED <<thresholds, lockedView>>
      /\ looks' = IF cmd.locked /\ ~warned THEN looks + 1 ELSE looks
  BY DEF Report, Idle, storeVars, Graded, Laid
<1>2. /\ report'.min = cmd.min /\ report'.locked = cmd.locked
      /\ report'.passed <=> cmd.min = 0 \/ MeetsCriteria(cmd.min, positive)
      /\ report'.earned <=> MeetsCriteria(thresholds, positive)
  BY DEF Report, Passed
<1>3. cmd' \in Flags /\ warned' \in BOOLEAN
  BY <1>1, NoCommandIsTyped, Zenon
<1>4. FlagsOK' /\ RowsInv' /\ CommandInv'
  <2>1. FlagsOK'
    <3>1. looks' \in Nat /\ thresholds' \in MinTradesChoices \union {NoRecord}
      BY <1>1 DEF IInv, FlagsOK
    <3> QED BY <1>3, <3>1, Zenon DEF FlagsOK
  <2>2. RowsInv' /\ CommandInv'
    BY <1>1 DEF IInv, RowsInv, CommandInv, Graded, Laid
  <2> QED BY <2>1, <2>2
<1>5. /\ thresholds \in MinTradesChoices /\ thresholds # 0
      /\ cmd.min = thresholds \/ (~cmd.locked /\ cmd.min = 0)
  BY <1>1, WalkForwardAssumption DEF IInv, FlagsOK, CommandInv
<1>6. /\ report'.earned => report'.passed
      /\ report'.locked => (report'.passed <=> report'.earned)
  BY <1>2, <1>5
<1>7. ReportInv'
  BY <1>1, <1>2, <1>5, <1>6 DEF IInv, FlagsOK, Flags, CommandInv, ReportInv
<1> QED BY <1>4, <1>7 DEF IInv

-----------------------------------------------------------------------------
\* Rows, command and report stay consistent, at every step of every command.
THEOREM Inductive == Spec => []IInv
<1>1. IInv /\ [Next]_vars => IInv'
  <2> SUFFICES ASSUME IInv, [Next]_vars PROVE IInv'
    OBVIOUS
  <2>1. CASE UNCHANGED vars
    BY <2>1 DEF vars, storeVars, IInv, FlagsOK, Flags, RowsInv, CommandInv, ReportInv, Graded, Laid
  <2>2. ASSUME NEW c \in Commands, StartCommand(c) PROVE IInv'
    BY <2>2, StartCommandInv
  <2>3. CASE Abort
    BY <2>3, AbortInv
  <2>4. CASE DecideThresholds
    BY <2>4, DecideThresholdsInv
  <2>5. CASE RecallThresholds
    BY <2>5, RecallThresholdsInv
  <2>6. CASE ViewLockedSegment
    BY <2>6, ViewLockedSegmentInv
  <2>7. CASE Begin \/ Train \/ Test \/ Sweep
    BY <2>7, RunStepInv
  <2>8. ASSUME NEW positive \in BOOLEAN, Report(positive) PROVE IInv'
    BY <2>8, ReportStepInv
  <2> QED BY <2>1, <2>2, <2>3, <2>4, <2>5, <2>6, <2>7, <2>8 DEF Next
<1> QED BY InitInv, <1>1, PTL DEF Spec

\* The locked segment is shown once without the warning, whatever commands die; a report on
\* it is graded by the thresholds written down before the first report and passes only if
\* it meets all of them, and one on the development segment is graded by them or by none.
THEOREM LockedSegmentLookedOnce == Spec => []LookedOnce
<1>1. IInv => LookedOnce
  BY DEF IInv, RowsInv, ReportInv, LookedOnce
<1> QED BY <1>1, Inductive, PTL

(***************************************************************************)
(* The book and the gate in a run                                          *)
(***************************************************************************)
Position == [qty : Nat, stop : Nat, high : Nat, entry : Nat, since : Nat]

\* Cash may be negative: a buy is sized by the close and filled at the next open.
Book == [cash : Int,
         pos : [Symbols -> Position \union {NoPosition}],
         buy : [Symbols -> Nat],
         sell : SUBSET Symbols,
         stops : [Symbols -> Nat],
         lastExit : [Symbols -> Nat]]

Bars == [Symbols -> DayBar \union {NoBar}]

\* What a submission leaves of the positions: who holds one, and since when.
SamePositions(c, b) ==
  \A s \in Held(c) : s \in Held(b) /\ c.pos[s].since = b.pos[s].since

LEMMA HeldIsPosition ==
  ASSUME NEW b \in Book, NEW s \in Held(b)
  PROVE  s \in Symbols /\ b.pos[s] \in Position /\ b.pos[s] # NoPosition
  BY DEF Book, Held

\* A new stop level changes the stop of a position or the one kept for its entry.
LEMMA StopsSubmitted ==
  ASSUME NEW b \in Book, NEW level, \A s \in DOMAIN level : level[s] \in Int,
         NEW c, c = SubmitStops(b, level)
  PROVE  c \in Book /\ SamePositions(c, b)
<1> DEFINE valid == {s \in DOMAIN level : level[s] > 0}
           open == valid \intersect Held(b)
           pos == [s \in Symbols |-> IF s \in open THEN [b.pos[s] EXCEPT !.stop = level[s]]
                                                  ELSE b.pos[s]]
           stops == [s \in Symbols |-> IF s \in valid \ open THEN level[s] ELSE b.stops[s]]
<1>1. c = [b EXCEPT !.pos = pos, !.stops = stops]
  BY DEF SubmitStops
<1>2. \A s \in valid : level[s] \in Nat
  OBVIOUS
<1>3. ASSUME NEW s \in Symbols
      PROVE  /\ pos[s] \in Position \union {NoPosition}
             /\ pos[s] # NoPosition => b.pos[s] # NoPosition /\ pos[s].since = b.pos[s].since
  <2>1. CASE s \in open
    <3>1. b.pos[s] \in Position /\ b.pos[s] # NoPosition
      BY <2>1, HeldIsPosition
    <3>2. /\ [b.pos[s] EXCEPT !.stop = level[s]] \in Position
          /\ [b.pos[s] EXCEPT !.stop = level[s]].since = b.pos[s].since
      BY <1>2, <2>1, <3>1 DEF Position
    <3> QED
      BY <2>1, <3>1, <3>2
  <2>2. CASE s \notin open
    BY <2>2 DEF Book
  <2> QED
    BY <2>1, <2>2
<1>4. stops \in [Symbols -> Nat]
  BY <1>2 DEF Book
<1>5. pos \in [Symbols -> Position \union {NoPosition}]
  BY <1>3
<1> HIDE DEF pos, stops
<1>6. c \in Book /\ c.pos = pos
  BY <1>1, <1>4, <1>5 DEF Book
<1> QED
  BY <1>3, <1>6 DEF SamePositions, Held

\* Orders change no position, on either side.
LEMMA BuysSubmitted ==
  ASSUME NEW b \in Book, NEW qty, \A s \in DOMAIN qty : qty[s] \in Nat,
         NEW c, c = SubmitBuys(b, qty)
  PROVE  c \in Book /\ c.pos = b.pos
<1> DEFINE taken == {s \in DOMAIN qty : qty[s] > 0 /\ b.pos[s] = NoPosition /\ b.buy[s] = 0}
           buy == [s \in Symbols |-> IF s \in taken THEN qty[s] ELSE b.buy[s]]
<1>1. c = [b EXCEPT !.buy = buy]
  BY DEF SubmitBuys
<1>2. buy \in [Symbols -> Nat]
  BY DEF Book
<1> HIDE DEF buy
<1> QED
  BY <1>1, <1>2 DEF Book

LEMMA SellsSubmitted ==
  ASSUME NEW b \in Book, NEW which, which \subseteq Symbols, NEW c, c = SubmitSells(b, which)
  PROVE  c \in Book /\ c.pos = b.pos
<1>1. c = [b EXCEPT !.sell = b.sell \union {s \in which : b.pos[s] # NoPosition}]
  BY DEF SubmitSells
<1>2. b.sell \union {s \in which : b.pos[s] # NoPosition} \in SUBSET Symbols
  BY DEF Book
<1> QED
  BY <1>1, <1>2 DEF Book

\* What a strategy may ask for.
Sound(signals) ==
  /\ \A s \in DOMAIN signals.stops : signals.stops[s] \in Int
  /\ signals.exits \subseteq Symbols
  /\ DOMAIN signals.enters \subseteq Symbols
  /\ \A s \in DOMAIN signals.enters : signals.enters[s] \in Int

\* Submissions neither open a position nor change since when one is held.
LEMMA SignalsSubmitted ==
  ASSUME NEW b \in Book, NEW signals, Sound(signals),
         NEW qty, DOMAIN qty = DOMAIN signals.enters, \A s \in DOMAIN qty : qty[s] \in Nat,
         NEW c, c = Enter(Leave(b, signals), qty, signals.enters)
  PROVE  c \in Book /\ SamePositions(c, b)
<1>1. PICK b1 : b1 = SubmitStops(b, signals.stops)
  OBVIOUS
<1>2. b1 \in Book /\ SamePositions(b1, b)
  BY <1>1, StopsSubmitted DEF Sound
<1>3. PICK b2 : b2 = SubmitSells(b1, signals.exits)
  OBVIOUS
<1>4. b2 \in Book /\ b2.pos = b1.pos
  BY <1>2, <1>3, SellsSubmitted DEF Sound
<1>5. PICK W : W = {s \in DOMAIN qty : qty[s] > 0 /\ signals.enters[s] > 0 /\ b2.buy[s] = 0}
  OBVIOUS
<1>6. PICK b3 : b3 = SubmitBuys(b2, [s \in W |-> qty[s]])
  OBVIOUS
<1>7. b3 \in Book /\ b3.pos = b2.pos
  <2>1. \A s \in DOMAIN [r \in W |-> qty[r]] : [r \in W |-> qty[r]][s] \in Nat
    BY <1>5
  <2> QED
    BY <1>4, <1>6, <2>1, BuysSubmitted
<1>8. c = SubmitStops(b3, [s \in W |-> signals.enters[s]])
  BY <1>1, <1>3, <1>5, <1>6 DEF Enter, Leave
<1>9. c \in Book /\ SamePositions(c, b3)
  <2>1. \A s \in DOMAIN [r \in W |-> signals.enters[r]] : [r \in W |-> signals.enters[r]][s] \in Int
    BY <1>5 DEF Sound
  <2> QED
    BY <1>7, <1>8, <2>1, StopsSubmitted
<1> QED
  BY <1>2, <1>4, <1>7, <1>9 DEF SamePositions, Held

-----------------------------------------------------------------------------
\* There are finitely many symbols, so that what is summed over them is defined.
LEMMA SymbolsFinite == ASSUME NEW T, T \subseteq Symbols PROVE IsFiniteSet(T)
  BY BookAssumption, FS_Subset

Left(b, bars) == Sold(b, bars) \union Stopped(b, bars)

Bought(b, bars) == {s \in Buying(b) : bars[s] # NoBar}

\* Only a held symbol with a bar on the day leaves the book.
LEMMA LeftIsHeld ==
  ASSUME NEW b, NEW bars
  PROVE  \A s \in Left(b, bars) : s \in Held(b) /\ bars[s] # NoBar
  BY DEF Left, Sold, Stopped, StopHit

\* A trade's price is an integer.
LEMMA ExitPriceType ==
  ASSUME NEW b \in Book, NEW bars \in Bars, NEW s \in Left(b, bars)
  PROVE  ExitPrice(b, bars, s) \in Int
<1>1. bars[s] \in DayBar /\ b.pos[s] \in Position
  BY LeftIsHeld, HeldIsPosition DEF Bars
<1>2. b.pos[s].stop \in Int /\ bars[s].open \in Int
  BY <1>1 DEF Position, DayBar
<1>3. Min({b.pos[s].stop, bars[s].open}) \in Int
  BY <1>2, MinOfTwo
<1> QED
  BY <1>2, <1>3 DEF ExitPrice, StopPrice

\* What the closed positions bring, and what the filled entries cost, is an integer.
LEMMA CashType ==
  ASSUME NEW b \in Book, NEW bars \in Bars, NEW bought, bought = Bought(b, bars),
         NEW left, left = Left(b, bars)
  PROVE  /\ SumFunction([s \in left |-> b.pos[s].qty * ExitPrice(b, bars, s)]) \in Int
         /\ SumFunction([s \in bought |-> b.buy[s] * bars[s].open]) \in Int
<1> DEFINE brings == [s \in left |-> b.pos[s].qty * ExitPrice(b, bars, s)]
           costs == [s \in bought |-> b.buy[s] * bars[s].open]
<1>1. ASSUME NEW s \in left PROVE brings[s] \in Int
  <2>1. b.pos[s].qty \in Int
    BY LeftIsHeld, HeldIsPosition DEF Position
  <2>2. ExitPrice(b, bars, s) \in Int
    BY ExitPriceType
  <2> QED
    BY <2>1, <2>2, ProductType
<1>2. ASSUME NEW s \in bought PROVE costs[s] \in Int
  <2>1. b.buy[s] \in Int /\ bars[s].open \in Int
    BY DEF Book, Bars, DayBar, Bought, Buying
  <2> QED
    BY <2>1, ProductType
<1>3. IsFiniteSet(left) /\ IsFiniteSet(bought)
  <2>1. left \subseteq Symbols
    BY LeftIsHeld, HeldIsPosition
  <2>2. bought \subseteq Symbols
    BY DEF Bought, Buying
  <2> QED
    BY <2>1, <2>2, SymbolsFinite
<1>4. DOMAIN brings = left /\ DOMAIN costs = bought
  OBVIOUS
<1> HIDE DEF brings, costs
<1>5. SumFunctionOnSet(brings, left) \in Int /\ SumFunctionOnSet(costs, bought) \in Int
  BY <1>1, <1>2, <1>3, SumType
<1>6. SumFunction(brings) \in Int /\ SumFunction(costs) \in Int
  BY <1>4, <1>5 DEF SumFunction
<1> QED
  BY <1>6 DEF brings, costs

\* A position after a day is one opened on it or one of the day before that did not end.
LEMMA PositionAdvanced ==
  ASSUME NEW b \in Book, NEW d \in Nat, NEW bars \in Bars, NEW c, c = Advance(b, bars, d),
         NEW s \in Symbols
  PROVE  /\ c.pos[s] \in Position \union {NoPosition}
         /\ s \in Held(c) => \/ c.pos[s].since = d
                             \/ /\ s \in Held(b) /\ s \notin Left(b, bars)
                                /\ c.pos[s].since = b.pos[s].since
<1> DEFINE trading == {r \in Symbols : bars[r] # NoBar}
<1>1. Bought(b, bars) = Buying(b) \intersect trading
  BY DEF Bought, Buying
<1> DEFINE kept == (Held(b) \intersect trading) \ Left(b, bars)
           value(r) == CASE r \in Bought(b, bars) -> Opened(b, bars, r, d)
                         [] r \in Left(b, bars) -> NoPosition
                         [] r \in kept -> Higher(b.pos[r], bars[r])
                         [] OTHER -> b.pos[r]
<1>2. \/ s \in Bought(b, bars) /\ c.pos[s] = Opened(b, bars, s, d)
      \/ s \in Left(b, bars) /\ c.pos[s] = NoPosition
      \/ s \in kept /\ c.pos[s] = Higher(b.pos[s], bars[s])
      \/ s \notin Left(b, bars) /\ c.pos[s] = b.pos[s]
  <2>1. c.pos = [r \in Symbols |-> value(r)]
    BY <1>1 DEF Advance, Left
  <2>2. c.pos[s] = value(s)
    BY <2>1
  <2> QED
    BY <2>2
<1>3. CASE s \in Bought(b, bars) /\ c.pos[s] = Opened(b, bars, s, d)
  <2>2. bars[s] \in DayBar
    BY <1>3 DEF Bars, Bought
  <2>3. b.buy[s] \in Nat /\ b.stops[s] \in Nat /\ bars[s].high \in Nat /\ bars[s].open \in Nat
    BY <2>2 DEF Book, DayBar
  <2> QED
    BY <1>3, <2>3 DEF Opened, Position
<1>4. CASE s \in Left(b, bars) /\ c.pos[s] = NoPosition
  BY <1>4 DEF Held
<1>5. CASE s \in kept /\ c.pos[s] = Higher(b.pos[s], bars[s])
  <2>1. bars[s] \in DayBar /\ b.pos[s] \in Position
    BY <1>5, HeldIsPosition DEF Bars
  <2>3. Max({b.pos[s].high, bars[s].high}) \in Nat
    <3>1. b.pos[s].high \in Nat /\ bars[s].high \in Nat
      BY <2>1 DEF Position, DayBar
    <3>2. \A x, y \in Nat : Max({x, y}) \in Nat
      BY MaxOfTwo
    <3> QED
      BY <3>1, <3>2
  <2>4. c.pos[s] = [b.pos[s] EXCEPT !.high = Max({b.pos[s].high, bars[s].high})]
    BY <1>5 DEF Higher
  <2>5. c.pos[s] \in Position /\ c.pos[s].since = b.pos[s].since
    BY <2>1, <2>3, <2>4 DEF Position
  <2> QED
    BY <1>5, <2>5
<1>6. CASE s \notin Left(b, bars) /\ c.pos[s] = b.pos[s]
  <2>1. b.pos[s] \in Position \union {NoPosition}
    BY DEF Book
  <2> QED
    BY <1>6, <2>1 DEF Held
<1> QED
  BY <1>2, <1>3, <1>4, <1>5, <1>6

\* The broker's day keeps the book typed.
LEMMA BookAdvanced ==
  ASSUME NEW b \in Book, NEW d \in Nat, NEW bars \in Bars, NEW c, c = Advance(b, bars, d)
  PROVE  c \in Book
<1> DEFINE trading == {r \in Symbols : bars[r] # NoBar}
           bought == Buying(b) \intersect trading
           left == Sold(b, bars) \union Stopped(b, bars)
           brings == SumFunction([s \in left |-> b.pos[s].qty * ExitPrice(b, bars, s)])
           costs == SumFunction([s \in bought |-> b.buy[s] * bars[s].open])
<1>1. bought = Bought(b, bars) /\ left = Left(b, bars)
  BY DEF Bought, Buying, Left
<1>2. brings \in Int /\ costs \in Int
  BY <1>1, CashType
<1> HIDE DEF brings, costs, left
<1>4. /\ c.cash = b.cash + brings - costs
      /\ c.buy = [s \in Symbols |-> IF s \in bought THEN 0 ELSE b.buy[s]]
      /\ c.sell = b.sell \ trading
      /\ c.stops = [s \in Symbols |-> IF s \in bought THEN 0 ELSE b.stops[s]]
      /\ c.lastExit = [s \in Symbols |-> IF s \in left THEN d ELSE b.lastExit[s]]
      /\ c.pos = [s \in Symbols |-> c.pos[s]]
      /\ c = [cash |-> c.cash, pos |-> c.pos, buy |-> c.buy, sell |-> c.sell, stops |-> c.stops,
              lastExit |-> c.lastExit]
  BY DEF Advance, StillSelling, brings, costs, left
<1>5. c.cash \in Int
  BY <1>2, <1>4 DEF Book
<1>6. c.pos \in [Symbols -> Position \union {NoPosition}]
  BY <1>4, PositionAdvanced
<1>7. /\ c.buy \in [Symbols -> Nat] /\ c.stops \in [Symbols -> Nat]
      /\ c.lastExit \in [Symbols -> Nat] /\ c.sell \in SUBSET Symbols
  BY <1>4 DEF Book
<1> QED
  BY <1>4, <1>5, <1>6, <1>7 DEF Book

-----------------------------------------------------------------------------
\* Positions are worth an integer.
LEMMA PortfolioType ==
  ASSUME NEW b \in Book, NEW prices \in [Symbols -> Nat]
  PROVE  /\ Portfolio(b, prices).cash \in Int
         /\ Portfolio(b, prices).equity \in Int
<1> DEFINE worth == [s \in Held(b) |-> b.pos[s].qty * prices[s]]
<1>1. ASSUME NEW s \in Held(b) PROVE worth[s] \in Int
  <2>1. b.pos[s].qty \in Int /\ prices[s] \in Int
    BY HeldIsPosition DEF Position
  <2> QED
    BY <2>1, ProductType
<1>2. IsFiniteSet(Held(b))
  BY SymbolsFinite DEF Held
<1>3. SumFunctionOnSet(worth, Held(b)) \in Int
  BY <1>1, <1>2, SumType
<1>4. SumFunction(worth) \in Int
  BY <1>3 DEF SumFunction
<1>5. b.cash \in Int
  BY DEF Book
<1>6. Portfolio(b, prices) = [cash |-> b.cash, held |-> Held(b),
                              equity |-> b.cash + SumFunction(worth)]
  BY DEF Portfolio
<1> HIDE DEF worth
<1> QED
  BY <1>4, <1>5, <1>6

\* Rounding down to the step gives an integer.
LEMMA FloorType == \A num \in Int, den \in Nat \ {0} : FloorToStep(num, den) \in Int
<1> SUFFICES ASSUME NEW num \in Int, NEW den \in Nat \ {0} PROVE FloorToStep(num, den) \in Int
  OBVIOUS
<1>1. Step \in Nat \ {0}
  BY GateAssumption
<1>2. PICK k : k = den * Step
  OBVIOUS
<1>3. k \in Nat \ {0}
  BY <1>1, <1>2
<1>4. num \div k \in Int
  BY <1>3
<1> QED
  BY <1>1, <1>2, <1>4, ProductType DEF FloorToStep

\* The gate's answer is a quantity.
LEMMA EvaluateType ==
  ASSUME NEW s, NEW ref \in Nat, NEW stop \in Int, NEW portfolio,
         portfolio.cash \in Int, portfolio.equity \in Int,
         NEW now, NEW lastExit, NEW open
  PROVE  Evaluate(s, ref, stop, portfolio, now, lastExit, open) \in Nat
<1>1. ASSUME ref > 0, stop < ref PROVE Size(ref, stop, portfolio) \in Nat
  <2> DEFINE x == FloorToStep(portfolio.equity * RiskPct, 100 * (ref - stop))
             y == FloorToStep(portfolio.equity * MaxPositionPct, 100 * ref)
             z == FloorToStep(portfolio.cash, ref)
             qty == Min({x, y, z})
  <2>1. RiskPct \in Int /\ MaxPositionPct \in Int
    BY GateAssumption
  <2>2. portfolio.equity * RiskPct \in Int /\ portfolio.equity * MaxPositionPct \in Int
    BY <2>1, ProductType
  <2>3. 100 * (ref - stop) \in Nat \ {0} /\ 100 * ref \in Nat \ {0} /\ ref \in Nat \ {0}
    BY <1>1
  <2>4. x \in Int
    BY <2>2, <2>3, FloorType
  <2>5. y \in Int
    BY <2>2, <2>3, FloorType
  <2>6. z \in Int
    BY <2>3, FloorType
  <2> HIDE DEF x, y, z
  <2>7. qty \in Int
    BY <2>4, <2>5, <2>6, MinOfThree
  <2>8. Size(ref, stop, portfolio) = IF qty <= 0 \/ qty * ref < MinNotional THEN 0 ELSE qty
    BY <1>1 DEF Size, x, y, z
  <2> HIDE DEF qty
  <2> QED
    BY <2>7, <2>8
<1>2. ~(ref > 0 /\ stop < ref) => Size(ref, stop, portfolio) = 0
  BY DEF Size
<1> QED
  BY <1>1, <1>2 DEF Evaluate

\* What the strategy asks for, given the positions of a book.
Asked(p, series, universe, b) == Strat(p)!Trend(series, universe, Held(b), b.pos)

\* Trendfollow asks for levels that are integers.
LEMMA TrendSound ==
  ASSUME NEW p \in Params, NEW universe, universe \subseteq Symbols, NEW series,
         DOMAIN series = universe,
         \A s \in universe : /\ series[s].bar.high \in Nat /\ series[s].bar.close \in Nat
                             /\ series[s].bar.atr \in Nat,
         NEW b \in Book, NEW signals, signals = Asked(p, series, universe, b)
  PROVE  Sound(signals) /\ DOMAIN signals.enters \subseteq universe
<1> DEFINE managed == universe \intersect Held(b)
           broken == {s \in universe \ Held(b) :
                        series[s].n >= Strat(p)!WarmupBars("trendfollow") /\ series[s].bar.up}
<1>1. signals = [stops |-> [s \in managed |-> Strat(p)!TrailingStop(b.pos[s], series[s].bar)],
                 exits |-> {s \in managed : series[s].bar.weak},
                 enters |-> [s \in broken |-> Strat(p)!EntryStop(series[s].bar)]]
  BY DEF Asked, Strat!Trend
<1>2. p.mult \in Int
  BY DEF Params
<1>3. ASSUME NEW s \in managed
      PROVE  Strat(p)!TrailingStop(b.pos[s], series[s].bar) \in Int
  <2>1. b.pos[s] \in Position
    BY HeldIsPosition
  <2>2. PICK stop, high, dayHigh, atr \in Nat :
          /\ stop = b.pos[s].stop /\ high = b.pos[s].high
          /\ dayHigh = series[s].bar.high /\ atr = series[s].bar.atr
    BY <2>1 DEF Position
  <2>3. p.mult * atr \in Int
    BY <1>2, ProductType
  <2>4. PICK level \in Int : level = Max({high, dayHigh}) - p.mult * atr
    <3>1. high \in Int /\ dayHigh \in Int
      OBVIOUS
    <3>2. Max({high, dayHigh}) \in Int
      BY <3>1, MaxOfTwo
    <3>3. Max({high, dayHigh}) - p.mult * atr \in Int
      BY <2>3, <3>2
    <3> QED
      BY <3>3
  <2>5. Strat(p)!TrailingStop(b.pos[s], series[s].bar) = Max({stop, level})
    <3>1. \A S : Strat(p)!Max(S) = Max(S)
      BY DEF Strat!Max, Max
    <3> QED
      BY <2>2, <2>4, <3>1 DEF Strat!TrailingStop
  <2>6. Max({stop, level}) \in Int
    BY MaxOfTwo
  <2> QED
    BY <2>5, <2>6
<1>4. ASSUME NEW s \in broken PROVE Strat(p)!EntryStop(series[s].bar) \in Int
  <2>1. PICK close, atr \in Nat : close = series[s].bar.close /\ atr = series[s].bar.atr
    OBVIOUS
  <2>2. p.mult * atr \in Int
    BY <1>2, ProductType
  <2> QED
    BY <2>1, <2>2 DEF Strat!EntryStop
<1> HIDE DEF broken
<1>5. broken \subseteq universe
  BY DEF broken
<1> QED
  BY <1>1, <1>3, <1>4, <1>5 DEF Sound

-----------------------------------------------------------------------------
(***************************************************************************)
(* What the recursive functions return is the last entry of a table        *)
(***************************************************************************)
\* A run: the state after each day.
DayOf(t, p, candles, cash, breaker, i) ==
  IF i = 0 THEN StartRun(cash, breaker) ELSE RunDay(p, t[i - 1], candles, i)

IsRun(t, p, candles, cash, breaker, n) ==
  t = [i \in 0 .. n |-> DayOf(t, p, candles, cash, breaker, i)]

\* There is a table of the days of a run, however many they are: induction on their number.
LEMMA RunExists ==
  ASSUME NEW p, NEW candles, NEW cash, NEW breaker
  PROVE  \A n \in Nat : \E t : IsRun(t, p, candles, cash, breaker, n)
<1> DEFINE E(t, i) == DayOf(t, p, candles, cash, breaker, i)
           Q == {n \in Nat : \E t : t = [i \in 0 .. n |-> E(t, i)]}
<1>1. 0 \in Q
  <2>1. PICK t : t = [i \in 0 .. 0 |-> StartRun(cash, breaker)]
    OBVIOUS
  <2>2. t = [i \in 0 .. 0 |-> E(t, i)]
    BY <2>1 DEF DayOf
  <2> QED
    BY <2>2
<1>2. ASSUME NEW n \in Nat, n \in Q PROVE n + 1 \in Q
  <2>1. PICK t : t = [i \in 0 .. n |-> E(t, i)]
    BY <1>2
  <2>2. PICK last : last = RunDay(p, t[n], candles, n + 1)
    OBVIOUS
  <2>3. PICK g : g = [i \in 0 .. n + 1 |-> IF i = n + 1 THEN last ELSE t[i]]
    OBVIOUS
  <2>4. ASSUME NEW i \in 0 .. n + 1 PROVE g[i] = E(g, i)
    <3>1. CASE i = 0
      <4>1. g[i] = t[i] /\ t[i] = E(t, i)
        BY <2>1, <2>3, <3>1
      <4> QED
        BY <3>1, <4>1 DEF DayOf
    <3>2. CASE i # 0 /\ i # n + 1
      <4>1. i \in 0 .. n /\ i - 1 \in 0 .. n + 1 /\ i - 1 # n + 1
        BY <3>2
      <4>2. g[i] = t[i] /\ g[i - 1] = t[i - 1]
        BY <2>3, <4>1, <3>2
      <4>3. t[i] = E(t, i)
        BY <2>1, <4>1
      <4> QED
        BY <3>2, <4>2, <4>3 DEF DayOf
    <3>3. CASE i = n + 1
      <4>1. n \in 0 .. n + 1 /\ n # n + 1 /\ i - 1 = n /\ i # 0
        BY <3>3
      <4>2. g[n] = t[n] /\ g[i] = last
        BY <2>3, <3>3, <4>1
      <4>3. E(g, i) = RunDay(p, g[n], candles, i)
        BY <4>1 DEF DayOf
      <4> QED
        BY <2>2, <3>3, <4>2, <4>3
    <3> QED
      BY <3>1, <3>2, <3>3
  <2> HIDE DEF E
  <2>5. g = [i \in 0 .. n + 1 |-> E(g, i)]
    BY <2>3, <2>4
  <2> QED
    BY <2>5
<1> HIDE DEF Q
<1>3. Nat \subseteq Q
  BY <1>1, <1>2, SetInduction
<1> QED
  BY <1>3 DEF Q, IsRun

\* A run is the last entry of its table.
LEMMA RunIsEntry ==
  ASSUME NEW p, NEW candles, NEW cash, NEW breaker,
         NEW last \in Nat, last = Max({0} \union Calendar(candles))
  PROVE  \E t : /\ IsRun(t, p, candles, cash, breaker, last)
                /\ Run(p, candles, cash, breaker) = t[last]
<1> DEFINE day == Max({0} \union Calendar(candles))
           g == CHOOSE t : t = [i \in 0 .. day |-> DayOf(t, p, candles, cash, breaker, i)]
<1>1. \E t : IsRun(t, p, candles, cash, breaker, day)
  BY RunExists
<1>2. IsRun(g, p, candles, cash, breaker, day)
  BY <1>1, Zenon DEF IsRun
<1>3. Run(p, candles, cash, breaker) = g[day]
  BY Zenon DEF Run, DayOf
<1> HIDE DEF g
<1> QED
  BY <1>2, <1>3

-----------------------------------------------------------------------------
(***************************************************************************)
(* Candles, calendars and listings                                         *)
(***************************************************************************)
IsCandles(candles) ==
  \A s \in Symbols :
    /\ IsFiniteSet(DOMAIN candles[s]) /\ DOMAIN candles[s] \subseteq Nat \ {0}
    /\ \A d \in DOMAIN candles[s] : candles[s][d] \in DayBar

\* A calendar is a finite set of days.
LEMMA CalendarType ==
  ASSUME NEW candles, IsCandles(candles)
  PROVE  Calendar(candles) \subseteq Nat \ {0} /\ IsFiniteSet(Calendar(candles))
<1> DEFINE days == {DOMAIN candles[s] : s \in Symbols}
<1>1. IsFiniteSet(days)
  <2> DEFINE f == [s \in Symbols |-> DOMAIN candles[s]]
  <2>1. f \in Surjection(Symbols, days)
    BY DEF Surjection
  <2> QED
    BY <2>1, BookAssumption, FS_Surjection
<1>2. \A T \in days : IsFiniteSet(T) /\ T \subseteq Nat \ {0}
  BY DEF IsCandles
<1>3. Calendar(candles) = UNION days
  BY DEF Calendar
<1> HIDE DEF days
<1> QED
  BY <1>1, <1>2, <1>3, FS_UNION

\* The last day of a run.
LastDay(candles) == Max({0} \union Calendar(candles))

\* A run ends on the last day of its calendar, or on day 0 without one.
LEMMA LastDayIsLast ==
  ASSUME NEW candles, IsCandles(candles)
  PROVE  /\ LastDay(candles) \in {0} \union Calendar(candles)
         /\ LastDay(candles) \in Nat
         /\ \A d \in Calendar(candles) : d \in 1 .. LastDay(candles)
<1>1. Calendar(candles) \subseteq Nat \ {0} /\ IsFiniteSet(Calendar(candles))
  BY CalendarType
<1> DEFINE T == {0} \union Calendar(candles)
<1>2. T \in SUBSET Nat /\ T # {} /\ IsFiniteSet(T)
  BY <1>1, FS_AddElement, FS_Singleton, FS_Union
<1>3. Max(T) \in T /\ \A y \in T : Max(T) >= y
  BY <1>2, MaxIsGreatest
<1> QED
  BY <1>1, <1>3 DEF LastDay

\* A place is a number.
LEMMA PlaceType ==
  ASSUME NEW candles, IsCandles(candles), NEW day
  PROVE  Place(candles, day) \in Nat
<1>1. IsFiniteSet({d \in Calendar(candles) : d <= day})
  BY CalendarType, FS_Subset
<1> QED
  BY <1>1, FS_CardinalityType DEF Place

\* Later days have higher places.
LEMMA PlaceGrows ==
  ASSUME NEW candles, IsCandles(candles), NEW c \in Nat, NEW d \in Nat, c <= d
  PROVE  Place(candles, c) <= Place(candles, d)
<1> DEFINE C == {x \in Calendar(candles) : x <= c}
           D == {x \in Calendar(candles) : x <= d}
<1>1. IsFiniteSet(D) /\ C \subseteq D
  BY CalendarType, FS_Subset
<1>2. Cardinality(C) <= Cardinality(D)
  BY <1>1, FS_Subset
<1> QED
  BY <1>2 DEF Place

\* The bars of a day are bars or none.
LEMMA BarsType ==
  ASSUME NEW candles, IsCandles(candles), NEW day
  PROVE  BarsOn(candles, day) \in Bars
  BY DEF IsCandles, Bars, BarsOn

\* Who trades on a day makes it a day of the calendar.
LEMMA TradingIsCalendar ==
  ASSUME NEW candles, NEW day, NEW s \in Symbols, BarsOn(candles, day)[s] # NoBar
  PROVE  day \in Calendar(candles)
  BY DEF BarsOn, Calendar

Increasing(seq, S) ==
  /\ seq \in [1 .. Cardinality(S) -> S]
  /\ \A i, j \in DOMAIN seq : i < j => seq[i] < seq[j]

\* A finite set of numbers can be listed in order: induction on its size.
LEMMA ListingExists ==
  \A S \in SUBSET Nat : IsFiniteSet(S) => \E seq : Increasing(seq, S)
<1> DEFINE Q == {n \in Nat : \A S \in SUBSET Nat : IsFiniteSet(S) /\ Cardinality(S) = n
                               => \E seq : Increasing(seq, S)}
<1>1. 0 \in Q
  <2> SUFFICES ASSUME NEW S \in SUBSET Nat, IsFiniteSet(S), Cardinality(S) = 0
               PROVE  \E seq : Increasing(seq, S)
    OBVIOUS
  <2>1. S = {} /\ 1 .. Cardinality(S) = {}
    BY FS_EmptySet
  <2>2. Increasing([i \in {} |-> 0], S)
    BY <2>1 DEF Increasing
  <2> QED
    BY <2>2
<1>2. ASSUME NEW n \in Nat, n \in Q PROVE n + 1 \in Q
  <2> SUFFICES ASSUME NEW S \in SUBSET Nat, IsFiniteSet(S), Cardinality(S) = n + 1
               PROVE  \E seq : Increasing(seq, S)
    OBVIOUS
  <2>1. S # {}
    BY FS_EmptySet
  <2>2. PICK p \in S : \A y \in S : p <= y
    BY <2>1, MinIsLeast
  <2>3. PICK T \in SUBSET Nat : T = S \ {p}
    OBVIOUS
  <2>4. IsFiniteSet(T) /\ Cardinality(T) = n
    BY <2>3, FS_RemoveElement
  <2>5. PICK rest : Increasing(rest, T)
    BY <1>2, <2>4
  <2> DEFINE seq == [i \in 1 .. n + 1 |-> IF i = 1 THEN p ELSE rest[i - 1]]
  <2>6. rest \in [1 .. n -> T] /\ \A i, j \in 1 .. n : i < j => rest[i] < rest[j]
    BY <2>4, <2>5 DEF Increasing
  <2>7. \A i \in 1 .. n + 1 : i # 1 => i - 1 \in 1 .. n /\ seq[i] = rest[i - 1] /\ seq[i] \in T
    BY <2>6
  <2>8. seq[1] = p /\ DOMAIN seq = 1 .. n + 1 /\ seq = [i \in 1 .. n + 1 |-> seq[i]]
    OBVIOUS
  <2> HIDE DEF seq
  <2>9. \A i \in 1 .. n + 1 : seq[i] \in S
    BY <2>3, <2>7, <2>8
  <2>10. seq \in [1 .. n + 1 -> S]
    BY <2>8, <2>9
  <2>11. ASSUME NEW i \in 1 .. n + 1, NEW j \in 1 .. n + 1, i < j PROVE seq[i] < seq[j]
    <3>1. j # 1 /\ seq[j] \in T /\ seq[j] = rest[j - 1] /\ j - 1 \in 1 .. n
      BY <2>7, <2>11
    <3>2. CASE i = 1
      <4>1. seq[j] \in Nat /\ p \in Nat /\ p <= seq[j] /\ p # seq[j]
        BY <2>2, <2>3, <3>1
      <4> QED
        BY <2>8, <3>2, <4>1
    <3>3. CASE i # 1
      <4>1. seq[i] = rest[i - 1] /\ i - 1 \in 1 .. n /\ i - 1 < j - 1
        BY <2>7, <2>11, <3>3
      <4> QED
        BY <2>6, <3>1, <4>1
    <3> QED
      BY <3>2, <3>3
  <2>12. Increasing(seq, S)
    BY <2>8, <2>10, <2>11 DEF Increasing
  <2> QED
    BY <2>12
<1> HIDE DEF Q
<1>3. Nat \subseteq Q
  BY <1>1, <1>2, SetInduction
<1> SUFFICES ASSUME NEW S \in SUBSET Nat, IsFiniteSet(S)
             PROVE  \E seq : Increasing(seq, S)
  OBVIOUS
<1>4. Cardinality(S) \in Nat
  BY FS_CardinalityType
<1> QED
  BY <1>3, <1>4 DEF Q

\* The listing of a set of symbols names none of them twice.
LEMMA BySymbolLists ==
  ASSUME NEW S \in SUBSET Symbols
  PROVE  /\ BySymbol(S) \in Seq(S)
         /\ \A i, j \in DOMAIN BySymbol(S) : i # j => BySymbol(S)[i] # BySymbol(S)[j]
<1>1. S \in SUBSET Nat /\ IsFiniteSet(S)
  BY SymbolsFinite, BookAssumption
<1>2. PICK n \in Nat : n = Cardinality(S)
  BY <1>1, FS_CardinalityType
<1>3. \E seq \in [1 .. n -> S] : \A i, j \in DOMAIN seq : i < j => seq[i] < seq[j]
  BY <1>1, <1>2, ListingExists DEF Increasing
<1>4. PICK seq : seq = BySymbol(S)
  OBVIOUS
<1>5. seq \in [1 .. n -> S] /\ \A i, j \in DOMAIN seq : i < j => seq[i] < seq[j]
  BY <1>2, <1>3, <1>4 DEF BySymbol
<1>6. seq \in Seq(S) /\ DOMAIN seq = 1 .. n
  BY <1>5
<1>7. ASSUME NEW i \in 1 .. n, NEW j \in 1 .. n, i # j PROVE seq[i] # seq[j]
  <2>1. seq[i] \in Nat /\ seq[j] \in Nat
    BY <1>1, <1>5
  <2>2. i < j \/ j < i
    BY <1>7
  <2> QED
    BY <1>5, <1>6, <2>1, <2>2
<1> QED
  BY <1>4, <1>6, <1>7

-----------------------------------------------------------------------------
(***************************************************************************)
(* A day of a run                                                          *)
(***************************************************************************)
Point == [day : Nat, equity : Int]

Trade == [symbol : Symbols, entered : Nat, left : Nat, pnl : Int]

\* The state of a run, whatever its breaker is.
IsState(run) ==
  /\ run = [book |-> run.book, brk |-> run.brk, n |-> run.n, price |-> run.price,
            equity |-> run.equity, trades |-> run.trades]
  /\ run.book \in Book
  /\ run.n \in [Symbols -> Nat]
  /\ run.price \in [Symbols -> Nat]
  /\ run.equity \in Seq(Point)
  /\ run.trades \in Seq(Trade)

\* A run starts with nothing held, traded or drawn.
LEMMA StartIsState ==
  ASSUME NEW cash \in Int, NEW breaker
  PROVE  /\ IsState(StartRun(cash, breaker))
         /\ StartRun(cash, breaker).equity = <<>>
         /\ StartRun(cash, breaker).trades = <<>>
         /\ Held(StartRun(cash, breaker).book) = {}
<1> DEFINE b == [EmptyBook EXCEPT !.cash = cash]
<1>1. b \in Book /\ Held(b) = {}
  BY DEF EmptyBook, Book, Held
<1>2. /\ [s \in Symbols |-> 0] \in [Symbols -> Nat]
      /\ <<>> \in Seq(Point) /\ <<>> \in Seq(Trade)
  BY EmptySeq
<1> HIDE DEF b
<1>3. StartRun(cash, breaker) =
        [book |-> b, brk |-> breaker, n |-> [s \in Symbols |-> 0], price |-> [s \in Symbols |-> 0],
         equity |-> <<>>, trades |-> <<>>]
  BY DEF StartRun, b
<1> QED
  BY <1>1, <1>2, <1>3 DEF IsState

\* A day of the warm-up draws no point and closes no trade.
LEMMA PrimeState ==
  ASSUME NEW r, IsState(r), NEW bars \in Bars, NEW d \in Nat, NEW x, x = Prime(r, bars, d)
  PROVE  /\ IsState(x) /\ x.brk = r.brk
         /\ x.equity = r.equity /\ x.trades = r.trades
         /\ x.book = Advance(r.book, bars, d)
<1> DEFINE n == [s \in Symbols |-> IF s \in Trading(bars) THEN r.n[s] + 1 ELSE r.n[s]]
           price == [s \in Symbols |-> IF s \in Trading(bars) THEN bars[s].close ELSE r.price[s]]
<1>1. n \in [Symbols -> Nat]
  BY DEF IsState
<1>2. price \in [Symbols -> Nat]
  BY DEF IsState, Trading, Bars, DayBar
<1>3. PICK c : c = Advance(r.book, bars, d)
  OBVIOUS
<1>4. c \in Book
  BY <1>3, BookAdvanced DEF IsState
<1> HIDE DEF n, price
<1>5. x = [r EXCEPT !.book = c, !.n = n, !.price = price]
  BY <1>3 DEF Prime, n, price
<1> QED
  BY <1>1, <1>2, <1>3, <1>4, <1>5 DEF IsState

\* A closed trade is about a position that the day's bars end, each about another.
LEMMA ClosedType ==
  ASSUME NEW b \in Book, NEW bars \in Bars, NEW d \in Nat,
         NEW closed, closed = ClosedTrades(b, bars, d)
  PROVE  /\ closed \in Seq(Trade)
         /\ \A i \in DOMAIN closed : /\ closed[i].symbol \in Left(b, bars)
                                     /\ closed[i].entered = b.pos[closed[i].symbol].since
                                     /\ closed[i].left = d
         /\ \A i, j \in DOMAIN closed : i # j => closed[i].symbol # closed[j].symbol
<1> DEFINE sold == Sold(b, bars)
           stopped == Stopped(b, bars)
           all == Left(b, bars)
<1>1. PICK f : f = BySymbol(sold)
  OBVIOUS
<1>2. PICK g : g = BySymbol(stopped)
  OBVIOUS
<1>3. sold \subseteq Symbols /\ stopped \subseteq Symbols /\ sold \intersect stopped = {}
      /\ sold \subseteq all /\ stopped \subseteq all
  BY DEF Sold, Stopped, Held, Left
<1>4. f \in Seq(sold) /\ \A i, j \in DOMAIN f : i # j => f[i] # f[j]
  BY <1>1, <1>3, BySymbolLists
<1>5. g \in Seq(stopped) /\ \A i, j \in DOMAIN g : i # j => g[i] # g[j]
  BY <1>2, <1>3, BySymbolLists
<1>6. f \in Seq(all) /\ g \in Seq(all)
  BY <1>3, <1>4, <1>5, SeqMonotonic
<1>7. PICK h : h = f \o g
  OBVIOUS
<1>8. /\ h \in Seq(all) /\ Len(h) = Len(f) + Len(g)
      /\ \A i \in 1 .. Len(f) + Len(g) : h[i] = IF i <= Len(f) THEN f[i] ELSE g[i - Len(f)]
  BY <1>6, <1>7, ConcatProperties
<1>9. /\ Len(f) \in Nat /\ DOMAIN f = 1 .. Len(f)
      /\ Len(g) \in Nat /\ DOMAIN g = 1 .. Len(g)
      /\ DOMAIN h = 1 .. Len(f) + Len(g)
  BY <1>6, <1>8, LenProperties
<1>10. \A i \in 1 .. Len(f) : f[i] \in sold
  BY <1>4, <1>9, ElementOfSeq
<1>11. \A i \in 1 .. Len(g) : g[i] \in stopped
  BY <1>5, <1>9, ElementOfSeq
<1>12. ASSUME NEW i \in DOMAIN h, NEW j \in DOMAIN h, i < j PROVE h[i] # h[j]
  <2>0. i \in 1 .. Len(f) + Len(g) /\ j \in 1 .. Len(f) + Len(g)
    BY <1>9
  <2>1. CASE j <= Len(f)
    <3>1. i \in 1 .. Len(f) /\ j \in 1 .. Len(f) /\ i # j
      BY <1>9, <1>12, <2>0, <2>1
    <3>2. h[i] = f[i] /\ h[j] = f[j]
      BY <1>8, <2>0, <3>1
    <3> QED
      BY <1>4, <1>9, <3>1, <3>2
  <2>2. CASE i <= Len(f) /\ ~(j <= Len(f))
    <3>1. i \in 1 .. Len(f) /\ j - Len(f) \in 1 .. Len(g)
      BY <1>9, <2>0, <2>2
    <3>2. h[i] = f[i] /\ h[j] = g[j - Len(f)]
      BY <1>8, <2>0, <2>2
    <3> QED
      BY <1>3, <1>10, <1>11, <3>1, <3>2
  <2>3. CASE ~(i <= Len(f))
    <3>1. /\ i - Len(f) \in 1 .. Len(g) /\ j - Len(f) \in 1 .. Len(g)
          /\ i - Len(f) # j - Len(f) /\ ~(j <= Len(f))
      BY <1>9, <1>12, <2>0, <2>3
    <3>2. h[i] = g[i - Len(f)] /\ h[j] = g[j - Len(f)]
      BY <1>8, <2>0, <2>3, <3>1
    <3> QED
      BY <1>5, <1>9, <3>1, <3>2
  <2> QED
    BY <2>1, <2>2, <2>3
<1> DEFINE trade(s) == [symbol |-> s, entered |-> b.pos[s].since, left |-> d,
                        pnl |-> b.pos[s].qty * (ExitPrice(b, bars, s) - b.pos[s].entry)]
<1>13. closed = [i \in DOMAIN h |-> trade(h[i])]
  BY <1>1, <1>2, <1>7 DEF ClosedTrades
<1>14. ASSUME NEW s \in all
       PROVE  trade(s) \in Trade /\ trade(s).symbol = s /\ trade(s).entered = b.pos[s].since
              /\ trade(s).left = d
  <2>1. b.pos[s] \in Position /\ s \in Symbols
    BY LeftIsHeld, HeldIsPosition
  <2>2. ExitPrice(b, bars, s) \in Int
    BY ExitPriceType
  <2>3. PICK gain \in Int : gain = ExitPrice(b, bars, s) - b.pos[s].entry
    BY <2>1, <2>2 DEF Position
  <2>4. b.pos[s].qty * gain \in Int
    BY <2>1, ProductType DEF Position
  <2>5. PICK pnl \in Int : pnl = b.pos[s].qty * (ExitPrice(b, bars, s) - b.pos[s].entry)
    BY <2>3, <2>4
  <2>6. b.pos[s].since \in Nat
    BY <2>1 DEF Position
  <2>7. trade(s) = [symbol |-> s, entered |-> b.pos[s].since, left |-> d, pnl |-> pnl]
    BY <2>5
  <2> HIDE DEF trade
  <2> QED
    BY <2>1, <2>6, <2>7 DEF Trade
<1>15. \A i \in DOMAIN h : h[i] \in all
  BY <1>8, <1>9, ElementOfSeq
<1> HIDE DEF trade, all
<1>16. \A i \in DOMAIN closed : closed[i] = trade(h[i]) /\ closed[i] \in Trade
  BY <1>13, <1>14, <1>15
<1>17. closed \in Seq(Trade)
  BY <1>9, <1>13, <1>16
<1>18. DOMAIN closed = DOMAIN h
  BY <1>13
<1>19. \A i \in DOMAIN closed : /\ closed[i].symbol = h[i] /\ closed[i].symbol \in all
                                /\ closed[i].entered = b.pos[closed[i].symbol].since
                                /\ closed[i].left = d
  BY <1>14, <1>15, <1>16, <1>18
<1>20. \A i, j \in DOMAIN h : i # j => h[i] # h[j]
  <2> SUFFICES ASSUME NEW i \in DOMAIN h, NEW j \in DOMAIN h, i # j PROVE h[i] # h[j]
    OBVIOUS
  <2>1. i < j \/ j < i
    BY <1>9
  <2> QED
    BY <1>12, <2>1
<1> QED
  BY <1>17, <1>18, <1>19, <1>20 DEF all

\* A curve with a day more.
Extended(new, equity, d) == \E e \in Point : e.day = d /\ new = Append(equity, e)

\* An evaluated day appends its equity and its trades.
LEMMA RecordedState ==
  ASSUME NEW r, IsState(r), NEW bars \in Bars, NEW d \in Nat, NEW x, x = Recorded(r, bars, d)
  PROVE  /\ IsState(x)
         /\ x.book = Advance(r.book, bars, d)
         /\ x.trades = r.trades \o ClosedTrades(r.book, bars, d)
         /\ Extended(x.equity, r.equity, d)
<1>1. PICK now : now = Prime(r, bars, d)
  OBVIOUS
<1>2. /\ IsState(now) /\ now.brk = r.brk /\ now.equity = r.equity /\ now.trades = r.trades
      /\ now.book = Advance(r.book, bars, d)
  BY <1>1, PrimeState
<1>3. PICK equity \in Int : equity = Portfolio(now.book, now.price).equity
  BY <1>2, PortfolioType DEF IsState
<1>4. PICK closed \in Seq(Trade) : closed = ClosedTrades(r.book, bars, d)
  BY ClosedType DEF IsState
<1>5. PICK e \in Point : e = [day |-> d, equity |-> equity]
  BY DEF Point
<1>6. \E brk : x = [now EXCEPT !.equity = Append(r.equity, e), !.trades = r.trades \o closed, !.brk = brk]
  BY <1>1, <1>2, <1>3, <1>4, <1>5 DEF Recorded
<1>7. PICK brk : x = [now EXCEPT !.equity = Append(r.equity, e), !.trades = r.trades \o closed, !.brk = brk]
  BY <1>6
<1>8. r.equity \in Seq(Point) /\ r.trades \in Seq(Trade)
  BY DEF IsState
<1>9. Append(r.equity, e) \in Seq(Point) /\ r.trades \o closed \in Seq(Trade)
  BY <1>8, AppendProperties, ConcatProperties
<1>10. /\ IsState(x) /\ x.book = now.book /\ x.trades = r.trades \o closed
       /\ x.equity = Append(r.equity, e)
  BY <1>2, <1>7, <1>9 DEF IsState
<1>11. Extended(x.equity, r.equity, d)
  BY <1>5, <1>10 DEF Extended
<1> QED
  BY <1>2, <1>4, <1>10, <1>11

\* Decisions only submit.
LEMMA DecidedState ==
  ASSUME NEW p \in Params, NEW r, IsState(r), NEW bars \in Bars, NEW d \in Nat,
         NEW x, x = Decided(p, r, bars, d)
  PROVE  /\ IsState(x) /\ x.equity = r.equity /\ x.trades = r.trades
         /\ SamePositions(x.book, r.book)
<1> DEFINE universe == {s \in Trading(bars) : r.n[s] > p.warm}
           seen(s) == [bars[s] EXCEPT !.up = p.warm \in @]
           series == [s \in universe |-> [bar |-> seen(s), n |-> r.n[s]]]
           signals == Asked(p, series, universe, r.book)
           qty == Gated(r, signals.enters, bars, d)
           c == Enter(Leave(r.book, signals), qty, signals.enters)
<1>1. CASE universe = {}
  <2>1. x = r
    BY <1>1 DEF Decided
  <2> QED
    BY <2>1 DEF SamePositions
<1>2. CASE universe # {}
  <2>1. universe \subseteq Symbols /\ \A s \in universe : bars[s] \in DayBar
    BY DEF Trading, Bars
  <2>2. ASSUME NEW s \in universe
        PROVE  /\ series[s].bar.high \in Nat /\ series[s].bar.close \in Nat /\ series[s].bar.atr \in Nat
    <3>1. series[s].bar = seen(s)
      OBVIOUS
    <3>2. bars[s] \in DayBar
      BY <2>1
    <3> QED
      BY <3>1, <3>2 DEF DayBar
  <2>3. DOMAIN series = universe
    OBVIOUS
  <2>4. r.book \in Book /\ r.price \in [Symbols -> Nat]
    BY DEF IsState
  <2> HIDE DEF series, universe
  <2>5. Sound(signals) /\ DOMAIN signals.enters \subseteq universe
    BY <2>1, <2>2, <2>3, <2>4, TrendSound
  <2> HIDE DEF signals
  <2>6. DOMAIN qty = DOMAIN signals.enters
    BY DEF Gated
  <2>7. ASSUME NEW s \in DOMAIN qty PROVE qty[s] \in Nat
    <3>1. PICK portfolio : portfolio = Portfolio(r.book, r.price)
      OBVIOUS
    <3>2. portfolio.cash \in Int /\ portfolio.equity \in Int
      BY <2>4, <3>1, PortfolioType
    <3>3. s \in DOMAIN signals.enters /\ s \in universe
      BY <2>5, <2>6
    <3>4. bars[s].close \in Nat /\ signals.enters[s] \in Int
      BY <2>1, <2>5, <3>3 DEF DayBar, Sound
    <3>5. qty[s] = Evaluate(s, bars[s].close, signals.enters[s], portfolio, d,
                            r.book.lastExit[s], r.brk.state.open)
      BY <3>1, <3>3 DEF Gated
    <3> QED
      BY <3>2, <3>4, <3>5, EvaluateType
  <2> HIDE DEF qty
  <2>8. PICK b : b = c
    OBVIOUS
  <2>9. b \in Book /\ SamePositions(b, r.book)
    BY <2>4, <2>5, <2>6, <2>7, <2>8, SignalsSubmitted
  <2>10. x = [r EXCEPT !.book = b]
    <3>1. x = Submitted(r, signals, bars, d)
      BY <1>2, Zenon DEF Decided, signals, series, universe, Asked
    <3>2. Submitted(r, signals, bars, d) = [r EXCEPT !.book = c]
      BY DEF Submitted, qty
    <3> QED
      BY <2>8, <3>1, <3>2
  <2> QED
    BY <2>9, <2>10 DEF IsState
<1> QED
  BY <1>1, <1>2

-----------------------------------------------------------------------------
(***************************************************************************)
(* What holds of a run on every day                                        *)
(***************************************************************************)
\* The days of the calendar behind the warm-up.
Evaluated(candles, warm) == {c \in Calendar(candles) : Place(candles, c) > warm + 1}

\* The curve goes through the evaluated days up to d, in order.
CurveInv(equity, candles, warm, d) ==
  /\ \A i \in DOMAIN equity : equity[i].day \in Evaluated(candles, warm) /\ equity[i].day <= d
  /\ \A c \in Evaluated(candles, warm) : c <= d => \E i \in DOMAIN equity : equity[i].day = c
  /\ \A i, j \in DOMAIN equity : i < j => equity[i].day < equity[j].day

\* Trades and positions of a symbol follow one another.
TradesInv(trades, book, candles, d) ==
  /\ \A i \in DOMAIN trades : /\ trades[i].left <= d /\ trades[i].entered <= trades[i].left
                              /\ trades[i].entered \in Calendar(candles)
  /\ \A s \in Held(book) : book.pos[s].since \in Calendar(candles) /\ book.pos[s].since <= d
  /\ \A i \in DOMAIN trades : \A s \in Held(book) :
       trades[i].symbol = s => trades[i].left <= book.pos[s].since
  /\ \A i, j \in DOMAIN trades :
       i < j /\ trades[i].symbol = trades[j].symbol => trades[i].left <= trades[j].entered

RunInv(run, candles, warm, d) ==
  /\ IsState(run)
  /\ CurveInv(run.equity, candles, warm, d)
  /\ TradesInv(run.trades, run.book, candles, d)

LEMMA EvaluatedType ==
  ASSUME NEW candles, IsCandles(candles), NEW warm
  PROVE  Evaluated(candles, warm) \subseteq Nat
  BY CalendarType DEF Evaluated

\* A day that is not evaluated leaves the curve as it is.
LEMMA CurveKept ==
  ASSUME NEW candles, IsCandles(candles), NEW warm, NEW d \in Nat, NEW equity \in Seq(Point),
         CurveInv(equity, candles, warm, d), d + 1 \notin Evaluated(candles, warm)
  PROVE  CurveInv(equity, candles, warm, d + 1)
<1>1. Evaluated(candles, warm) \subseteq Nat
  BY EvaluatedType
<1>2. \A c \in Evaluated(candles, warm) : c <= d + 1 => c <= d
  BY <1>1
<1>3. \A i \in DOMAIN equity : equity[i].day \in Nat /\ equity[i].day <= d => equity[i].day <= d + 1
  OBVIOUS
<1> QED
  BY <1>1, <1>2, <1>3 DEF CurveInv

\* An evaluated day adds its point to the curve.
LEMMA CurveAppended ==
  ASSUME NEW candles, IsCandles(candles), NEW warm, NEW d \in Nat, NEW equity \in Seq(Point),
         CurveInv(equity, candles, warm, d), d + 1 \in Evaluated(candles, warm),
         NEW e \in Point, e.day = d + 1
  PROVE  CurveInv(Append(equity, e), candles, warm, d + 1)
<1>1. Evaluated(candles, warm) \subseteq Nat
  BY EvaluatedType
<1>2. PICK new : new = Append(equity, e)
  OBVIOUS
<1>3. PICK n \in Nat : n = Len(equity)
  BY LenProperties
<1>4. /\ DOMAIN equity = 1 .. n /\ DOMAIN new = 1 .. n + 1
      /\ new[n + 1] = e /\ \A i \in 1 .. n : new[i] = equity[i]
  BY <1>2, <1>3, LenProperties, AppendProperties
<1>5. \A i \in 1 .. n : equity[i].day \in Evaluated(candles, warm) /\ equity[i].day <= d
  BY <1>4 DEF CurveInv
<1>6. \A i \in 1 .. n + 1 : i \in 1 .. n \/ i = n + 1
  OBVIOUS
<1>7. \A i \in DOMAIN new : new[i].day \in Evaluated(candles, warm) /\ new[i].day <= d + 1
  BY <1>1, <1>4, <1>5, <1>6
<1>8. ASSUME NEW c \in Evaluated(candles, warm), c <= d + 1
      PROVE  \E i \in DOMAIN new : new[i].day = c
  <2>1. CASE c = d + 1
    BY <1>4, <2>1
  <2>2. CASE c # d + 1
    <3>1. c <= d
      BY <1>1, <1>8, <2>2
    <3>2. PICK i \in 1 .. n : equity[i].day = c
      BY <1>4, <3>1 DEF CurveInv
    <3> QED
      BY <1>4, <3>2
  <2> QED
    BY <2>1, <2>2
<1>9. ASSUME NEW i \in DOMAIN new, NEW j \in DOMAIN new, i < j
      PROVE  new[i].day < new[j].day
  <2>1. i \in 1 .. n
    BY <1>3, <1>4, <1>9
  <2>2. CASE j \in 1 .. n
    <3>1. equity[i].day < equity[j].day
      BY <1>4, <1>9, <2>1, <2>2 DEF CurveInv
    <3> QED
      BY <1>4, <2>1, <2>2, <3>1
  <2>3. CASE j = n + 1
    BY <1>1, <1>4, <1>5, <2>1, <2>3
  <2> QED
    BY <1>4, <1>6, <2>2, <2>3
<1> QED
  BY <1>2, <1>7, <1>8, <1>9 DEF CurveInv

\* The days of a trade are numbers.
LEMMA TradesAreTyped ==
  ASSUME NEW trades \in Seq(Trade), NEW i \in DOMAIN trades
  PROVE  /\ trades[i] \in Trade
         /\ trades[i].left \in Nat /\ trades[i].entered \in Nat
<1>1. trades[i] \in Trade
  BY LenProperties, ElementOfSeq
<1> QED
  BY <1>1 DEF Trade

\* Days pass.
LEMMA TradesLater ==
  ASSUME NEW candles, IsCandles(candles), NEW d \in Nat, NEW b \in Book,
         NEW trades \in Seq(Trade), TradesInv(trades, b, candles, d)
  PROVE  TradesInv(trades, b, candles, d + 1)
<1>1. \A i \in DOMAIN trades : trades[i].left \in Nat
  BY TradesAreTyped
<1>2. \A s \in Held(b) : b.pos[s].since \in Nat
  BY CalendarType DEF TradesInv
<1>3. \A x \in Nat : x <= d => x <= d + 1
  OBVIOUS
<1> QED
  BY <1>1, <1>2, <1>3 DEF TradesInv

\* Orders leave trades and positions alone.
LEMMA TradesSubmitted ==
  ASSUME NEW candles, NEW d, NEW b, NEW c, SamePositions(c, b), NEW trades,
         TradesInv(trades, b, candles, d)
  PROVE  TradesInv(trades, c, candles, d)
  BY DEF TradesInv, SamePositions

\* The broker's day: what it opens is as new as can be, what it keeps is as it was.
LEMMA PositionsAdvanced ==
  ASSUME NEW candles, IsCandles(candles), NEW d \in Nat, d + 1 \in Calendar(candles),
         NEW b \in Book, NEW trades \in Seq(Trade), TradesInv(trades, b, candles, d),
         NEW bars \in Bars, NEW c, c = Advance(b, bars, d + 1)
  PROVE  TradesInv(trades, c, candles, d + 1)
<1>1. \A i \in DOMAIN trades : trades[i].left \in Nat
  BY TradesAreTyped
<1>2. d + 1 \in Nat
  OBVIOUS
<1>3. \A s \in Held(c) : \/ c.pos[s].since = d + 1
                         \/ s \in Held(b) /\ c.pos[s].since = b.pos[s].since
  BY <1>2, PositionAdvanced DEF Held
<1>4. TradesInv(trades, b, candles, d + 1)
  BY TradesLater
<1>5. \A s \in Held(c) : c.pos[s].since \in Calendar(candles) /\ c.pos[s].since <= d + 1
  BY <1>2, <1>3, <1>4 DEF TradesInv
<1>6. ASSUME NEW i \in DOMAIN trades, NEW s \in Held(c), trades[i].symbol = s
      PROVE  trades[i].left <= c.pos[s].since
  BY <1>3, <1>4, <1>6 DEF TradesInv
<1> QED
  BY <1>4, <1>5, <1>6 DEF TradesInv

\* The trades of a day follow the ones before, and what is held after it follows them.
LEMMA TradesAppended ==
  ASSUME NEW candles, IsCandles(candles), NEW d \in Nat, d + 1 \in Calendar(candles),
         NEW b \in Book, NEW trades \in Seq(Trade), TradesInv(trades, b, candles, d),
         NEW bars \in Bars, NEW c, c = Advance(b, bars, d + 1)
  PROVE  TradesInv(trades \o ClosedTrades(b, bars, d + 1), c, candles, d + 1)
<1>1. PICK closed : closed = ClosedTrades(b, bars, d + 1)
  OBVIOUS
<1>2. d + 1 \in Nat
  OBVIOUS
<1>3. /\ closed \in Seq(Trade)
      /\ \A i \in DOMAIN closed : /\ closed[i].symbol \in Left(b, bars)
                                  /\ closed[i].entered = b.pos[closed[i].symbol].since
                                  /\ closed[i].left = d + 1
      /\ \A i, j \in DOMAIN closed : i # j => closed[i].symbol # closed[j].symbol
  BY <1>1, <1>2, ClosedType
<1>4. \A i \in DOMAIN closed : closed[i].symbol \in Held(b)
  BY <1>3, LeftIsHeld
<1>5. PICK all : all = trades \o closed
  OBVIOUS
<1>6. PICK n \in Nat : n = Len(trades)
  BY LenProperties
<1>7. PICK m \in Nat : m = Len(closed)
  BY <1>3, LenProperties
<1>8. /\ DOMAIN all = 1 .. n + m /\ DOMAIN trades = 1 .. n /\ DOMAIN closed = 1 .. m
      /\ \A i \in 1 .. n + m : all[i] = IF i <= n THEN trades[i] ELSE closed[i - n]
  BY <1>3, <1>5, <1>6, <1>7, ConcatProperties, LenProperties
<1>9. \A i \in 1 .. n + m : \/ i \in DOMAIN trades /\ all[i] = trades[i] /\ i <= n
                            \/ i - n \in DOMAIN closed /\ all[i] = closed[i - n] /\ ~(i <= n)
  BY <1>8
<1>10. /\ TradesInv(trades, c, candles, d + 1)
       /\ TradesInv(trades, b, candles, d + 1)
  BY PositionsAdvanced, TradesLater
<1>11. \A s \in Held(b) : b.pos[s].since \in Nat /\ b.pos[s].since <= d + 1
  BY <1>10, CalendarType DEF TradesInv
<1>12. ASSUME NEW i \in DOMAIN all
       PROVE  /\ all[i].left <= d + 1 /\ all[i].entered <= all[i].left
              /\ all[i].entered \in Calendar(candles)
  <2>1. CASE i \in DOMAIN trades /\ all[i] = trades[i]
    BY <1>10, <2>1 DEF TradesInv
  <2>2. CASE i - n \in DOMAIN closed /\ all[i] = closed[i - n]
    <3>1. /\ all[i].left = d + 1 /\ all[i].symbol \in Held(b)
          /\ all[i].entered = b.pos[all[i].symbol].since
      BY <1>3, <1>4, <2>2
    <3>2. all[i].entered \in Calendar(candles)
      BY <1>10, <3>1 DEF TradesInv
    <3> QED
      BY <1>2, <1>11, <3>1, <3>2
  <2> QED
    BY <1>8, <1>9, <2>1, <2>2
<1>13. ASSUME NEW i \in DOMAIN all, NEW s \in Held(c), all[i].symbol = s
       PROVE  all[i].left <= c.pos[s].since
  <2>1. CASE i \in DOMAIN trades /\ all[i] = trades[i]
    BY <1>10, <1>13, <2>1 DEF TradesInv
  <2>2. CASE i - n \in DOMAIN closed /\ all[i] = closed[i - n]
    <3>1. all[i].left = d + 1 /\ s \in Left(b, bars)
      BY <1>3, <1>13, <2>2
    <3>2. s \in Symbols
      BY DEF Held
    <3>3. c.pos[s].since = d + 1
      BY <1>2, <3>1, <3>2, PositionAdvanced
    <3> QED
      BY <1>2, <3>1, <3>3
  <2> QED
    BY <1>8, <1>9, <2>1, <2>2
<1>14. ASSUME NEW i \in DOMAIN all, NEW j \in DOMAIN all, i < j, all[i].symbol = all[j].symbol
       PROVE  all[i].left <= all[j].entered
  <2>1. CASE j \in DOMAIN trades /\ all[j] = trades[j]
    <3>1. i \in DOMAIN trades /\ all[i] = trades[i]
      BY <1>8, <1>14, <2>1
    <3> QED
      BY <1>10, <1>14, <2>1, <3>1 DEF TradesInv
  <2>2. CASE /\ j - n \in DOMAIN closed /\ all[j] = closed[j - n]
             /\ i \in DOMAIN trades /\ all[i] = trades[i]
    <3>1. all[j].symbol \in Held(b) /\ all[j].entered = b.pos[all[j].symbol].since
      BY <1>3, <1>4, <2>2
    <3> QED
      BY <1>10, <1>14, <2>2, <3>1 DEF TradesInv
  <2>3. CASE /\ j - n \in DOMAIN closed /\ all[j] = closed[j - n]
             /\ i - n \in DOMAIN closed /\ all[i] = closed[i - n]
    <3>1. i - n # j - n
      BY <1>8, <1>14
    <3> QED
      BY <1>3, <1>14, <2>3, <3>1
  <2> QED
    BY <1>8, <1>9, <2>1, <2>2, <2>3
<1> QED
  BY <1>1, <1>5, <1>10, <1>12, <1>13, <1>14 DEF TradesInv

-----------------------------------------------------------------------------
\* The invariant of a run: at its start, from one day to the next, and so at its end.
LEMMA StartInv ==
  ASSUME NEW candles, IsCandles(candles), NEW warm, NEW cash \in Int, NEW breaker
  PROVE  RunInv(StartRun(cash, breaker), candles, warm, 0)
<1>1. PICK r : r = StartRun(cash, breaker)
  OBVIOUS
<1>2. IsState(r) /\ r.equity = <<>> /\ r.trades = <<>> /\ Held(r.book) = {}
  BY <1>1, StartIsState
<1>3. \A c \in Evaluated(candles, warm) : c \in Nat /\ c # 0
  BY CalendarType DEF Evaluated
<1>4. DOMAIN <<>> = {}
  OBVIOUS
<1>5. \A c \in Evaluated(candles, warm) : ~(c <= 0)
  BY <1>3
<1>6. CurveInv(r.equity, candles, warm, 0)
  BY <1>2, <1>4, <1>5 DEF CurveInv
<1>7. TradesInv(r.trades, r.book, candles, 0)
  BY <1>2, <1>4 DEF TradesInv
<1> QED
  BY <1>1, <1>2, <1>6, <1>7 DEF RunInv

LEMMA RunDayInv ==
  ASSUME NEW p \in Params, NEW candles, IsCandles(candles), NEW d \in Nat, NEW r,
         RunInv(r, candles, p.warm, d), NEW x, x = RunDay(p, r, candles, d + 1)
  PROVE  RunInv(x, candles, p.warm, d + 1)
<1>1. PICK day \in Nat : day = d + 1
  OBVIOUS
<1>2. PICK bars \in Bars : bars = BarsOn(candles, day)
  BY BarsType
<1>3. /\ IsState(r) /\ r.book \in Book /\ r.equity \in Seq(Point) /\ r.trades \in Seq(Trade)
      /\ CurveInv(r.equity, candles, p.warm, d)
      /\ TradesInv(r.trades, r.book, candles, d)
  BY DEF RunInv, IsState
<1>3a. IsState(r)
  BY <1>3
<1>4. CASE day \notin Calendar(candles)
  <2>1. x = r
    BY <1>1, <1>4 DEF RunDay
  <2>2. CurveInv(r.equity, candles, p.warm, day)
    BY <1>1, <1>3, <1>4, CurveKept DEF Evaluated
  <2>3. TradesInv(r.trades, r.book, candles, day)
    BY <1>1, <1>3, TradesLater
  <2> QED
    BY <1>1, <1>3, <2>1, <2>2, <2>3 DEF RunInv
<1>5. CASE day \in Calendar(candles) /\ Place(candles, day) <= p.warm + 1
  <2>1. x = Prime(r, bars, day)
    BY <1>1, <1>2, <1>5 DEF RunDay
  <2>2. /\ IsState(x) /\ x.equity = r.equity /\ x.trades = r.trades
        /\ x.book = Advance(r.book, bars, day)
    BY <1>3a, <2>1, PrimeState
  <2>3. day \notin Evaluated(candles, p.warm)
    <3>1. Place(candles, day) \in Nat /\ p.warm \in Nat
      BY PlaceType DEF Params
    <3> QED
      BY <1>5, <3>1 DEF Evaluated
  <2>4. CurveInv(r.equity, candles, p.warm, day)
    BY <1>1, <1>3, <2>3, CurveKept
  <2>5. TradesInv(r.trades, x.book, candles, day)
    BY <1>1, <1>3, <1>5, <2>2, PositionsAdvanced
  <2> QED
    BY <1>1, <2>2, <2>4, <2>5 DEF RunInv
<1>6. CASE day \in Calendar(candles) /\ ~(Place(candles, day) <= p.warm + 1)
  <2>1. PICK y : y = Recorded(r, bars, day)
    OBVIOUS
  <2>2. x = Decided(p, y, bars, day)
    BY <1>1, <1>2, <1>6, <2>1 DEF RunDay
  <2>3. /\ IsState(y) /\ y.book = Advance(r.book, bars, day)
        /\ y.trades = r.trades \o ClosedTrades(r.book, bars, day)
        /\ Extended(y.equity, r.equity, day)
    BY <1>3a, <2>1, RecordedState
  <2>4. /\ IsState(x) /\ x.equity = y.equity /\ x.trades = y.trades
        /\ SamePositions(x.book, y.book)
    BY <2>2, <2>3, DecidedState
  <2>5. day \in Evaluated(candles, p.warm)
    <3>1. Place(candles, day) \in Nat /\ p.warm \in Nat
      BY PlaceType DEF Params
    <3> QED
      BY <1>6, <3>1 DEF Evaluated
  <2>6. CurveInv(x.equity, candles, p.warm, day)
    BY <1>1, <1>3, <2>3, <2>4, <2>5, CurveAppended DEF Extended
  <2>7. TradesInv(y.trades, y.book, candles, day)
    BY <1>1, <1>3, <1>6, <2>3, TradesAppended
  <2>8. TradesInv(x.trades, x.book, candles, day)
    BY <2>4, <2>7, TradesSubmitted
  <2> QED
    BY <1>1, <2>4, <2>6, <2>8 DEF RunInv
<1> QED
  BY <1>4, <1>5, <1>6

\* The invariant of a run, and of what it returns.
LEMMA TableInv ==
  ASSUME NEW p \in Params, NEW candles, IsCandles(candles), NEW cash \in Int, NEW breaker,
         NEW n \in Nat, NEW t, IsRun(t, p, candles, cash, breaker, n)
  PROVE  \A i \in 0 .. n : RunInv(t[i], candles, p.warm, i)
<1> DEFINE Q == {i \in Nat : i \in 0 .. n => RunInv(t[i], candles, p.warm, i)}
<1>1. \A i \in 0 .. n : t[i] = DayOf(t, p, candles, cash, breaker, i)
  BY DEF IsRun
<1>2. 0 \in Q
  <2>1. t[0] = StartRun(cash, breaker)
    BY <1>1 DEF DayOf
  <2> QED
    BY <2>1, StartInv
<1>3. ASSUME NEW i \in Nat, i \in Q PROVE i + 1 \in Q
  <2> SUFFICES ASSUME i + 1 \in 0 .. n PROVE RunInv(t[i + 1], candles, p.warm, i + 1)
    OBVIOUS
  <2>1. i \in 0 .. n /\ i + 1 # 0 /\ i + 1 - 1 = i
    OBVIOUS
  <2>2. RunInv(t[i], candles, p.warm, i)
    BY <1>3, <2>1
  <2>3. t[i + 1] = RunDay(p, t[i], candles, i + 1)
    BY <1>1, <2>1 DEF DayOf
  <2> QED
    BY <2>2, <2>3, RunDayInv
<1> HIDE DEF Q
<1>4. Nat \subseteq Q
  BY <1>2, <1>3, SetInduction
<1> QED
  BY <1>4 DEF Q

LEMMA RunIsInv ==
  ASSUME NEW p \in Params, NEW candles, IsCandles(candles), NEW cash \in Int, NEW breaker
  PROVE  RunInv(Run(p, candles, cash, breaker), candles, p.warm, LastDay(candles))
<1>1. PICK n \in Nat : n = LastDay(candles)
  BY LastDayIsLast
<1>2. PICK t : IsRun(t, p, candles, cash, breaker, n) /\ Run(p, candles, cash, breaker) = t[n]
  BY <1>1, RunIsEntry DEF LastDay
<1>3. n \in 0 .. n
  OBVIOUS
<1> QED
  BY <1>1, <1>2, <1>3, TableInv

-----------------------------------------------------------------------------
(***************************************************************************)
(* Filter keeps the elements that are in the set, in their order           *)
(***************************************************************************)
Kept(t, seq, S, n) ==
  IF n = 0 THEN <<>> ELSE IF seq[n] \in S THEN Append(t[n - 1], seq[n]) ELSE t[n - 1]

IsFiltered(t, seq, S, n) == t = [i \in 0 .. n |-> Kept(t, seq, S, i)]

\* There is a table of what is kept of each beginning of a sequence.
LEMMA FilteredExists ==
  ASSUME NEW seq, NEW S
  PROVE  \A n \in Nat : \E t : IsFiltered(t, seq, S, n)
<1> DEFINE E(t, i) == Kept(t, seq, S, i)
           Q == {n \in Nat : \E t : t = [i \in 0 .. n |-> E(t, i)]}
<1>1. 0 \in Q
  <2>1. PICK t : t = [i \in 0 .. 0 |-> <<>>]
    OBVIOUS
  <2>2. t = [i \in 0 .. 0 |-> E(t, i)]
    BY <2>1 DEF Kept
  <2> QED
    BY <2>2
<1>2. ASSUME NEW n \in Nat, n \in Q PROVE n + 1 \in Q
  <2>1. PICK t : t = [i \in 0 .. n |-> E(t, i)]
    BY <1>2
  <2>2. PICK last : last = IF seq[n + 1] \in S THEN Append(t[n], seq[n + 1]) ELSE t[n]
    OBVIOUS
  <2>3. PICK g : g = [i \in 0 .. n + 1 |-> IF i = n + 1 THEN last ELSE t[i]]
    OBVIOUS
  <2>4. ASSUME NEW i \in 0 .. n + 1 PROVE g[i] = E(g, i)
    <3>1. CASE i = 0
      <4>1. g[i] = t[i] /\ t[i] = E(t, i)
        BY <2>1, <2>3, <3>1
      <4> QED
        BY <3>1, <4>1 DEF Kept
    <3>2. CASE i # 0 /\ i # n + 1
      <4>1. i \in 0 .. n /\ i - 1 \in 0 .. n + 1 /\ i - 1 # n + 1
        BY <3>2
      <4>2. g[i] = t[i] /\ g[i - 1] = t[i - 1]
        BY <2>3, <4>1, <3>2
      <4>3. t[i] = E(t, i)
        BY <2>1, <4>1
      <4> QED
        BY <3>2, <4>2, <4>3 DEF Kept
    <3>3. CASE i = n + 1
      <4>1. n \in 0 .. n + 1 /\ n # n + 1 /\ i - 1 = n /\ i # 0
        BY <3>3
      <4>2. g[n] = t[n] /\ g[i] = last
        BY <2>3, <3>3, <4>1
      <4>3. E(g, i) = IF seq[i] \in S THEN Append(g[n], seq[i]) ELSE g[n]
        BY <4>1 DEF Kept
      <4> QED
        BY <2>2, <3>3, <4>2, <4>3
    <3> QED
      BY <3>1, <3>2, <3>3
  <2> HIDE DEF E
  <2>5. g = [i \in 0 .. n + 1 |-> E(g, i)]
    BY <2>3, <2>4
  <2> QED
    BY <2>5
<1> HIDE DEF Q
<1>3. Nat \subseteq Q
  BY <1>1, <1>2, SetInduction
<1> QED
  BY <1>3 DEF Q, IsFiltered

\* What is kept of a sequence is the last entry of that table.
LEMMA FilterIsEntry ==
  ASSUME NEW seq, NEW S, Len(seq) \in Nat
  PROVE  \E t : IsFiltered(t, seq, S, Len(seq)) /\ Filter(seq, S) = t[Len(seq)]
<1> DEFINE g == CHOOSE t : t = [i \in 0 .. Len(seq) |-> Kept(t, seq, S, i)]
<1>1. \E t : IsFiltered(t, seq, S, Len(seq))
  BY FilteredExists
<1>2. IsFiltered(g, seq, S, Len(seq))
  BY <1>1, Zenon DEF IsFiltered
<1>3. Filter(seq, S) = g[Len(seq)]
  BY Zenon DEF Filter, Kept
<1> HIDE DEF g
<1> QED
  BY <1>2, <1>3

\* What u keeps of the first n elements of a sequence.
KeptOf(u, seq, S, n) ==
  /\ \A a \in DOMAIN u : u[a] \in S /\ \E k \in 1 .. n : u[a] = seq[k]
  /\ \A k \in 1 .. n : seq[k] \in S => \E a \in DOMAIN u : u[a] = seq[k]
  /\ \A a, b \in DOMAIN u : a < b => \E k, l \in 1 .. n : k < l /\ u[a] = seq[k] /\ u[b] = seq[l]

\* Two kept elements come from two elements in the same order.
LEMMA KeptInOrder ==
  ASSUME NEW u, NEW seq, NEW S, NEW n, KeptOf(u, seq, S, n),
         NEW a \in DOMAIN u, NEW b \in DOMAIN u, a < b
  PROVE  \E k \in 1 .. n, l \in 1 .. n : k < l /\ u[a] = seq[k] /\ u[b] = seq[l]
  BY Zenon DEF KeptOf

\* An element that is not kept changes nothing.
LEMMA KeptSkipped ==
  ASSUME NEW X, NEW u \in Seq(X), NEW seq, NEW S, NEW n \in Nat, KeptOf(u, seq, S, n),
         seq[n + 1] \notin S
  PROVE  KeptOf(u, seq, S, n + 1)
<1>1. \A k \in 1 .. n : k \in 1 .. n + 1
  OBVIOUS
<1>2. \A k \in 1 .. n + 1 : k \in 1 .. n \/ k = n + 1
  OBVIOUS
<1>3. ASSUME NEW a \in DOMAIN u
      PROVE  u[a] \in S /\ \E k \in 1 .. n + 1 : u[a] = seq[k]
  <2>1. PICK k \in 1 .. n : u[a] = seq[k] /\ u[a] \in S
    BY DEF KeptOf
  <2> QED
    BY <1>1, <2>1
<1>4. ASSUME NEW k \in 1 .. n + 1, seq[k] \in S PROVE \E a \in DOMAIN u : u[a] = seq[k]
  <2>1. k \in 1 .. n
    BY <1>2, <1>4
  <2> QED
    BY <1>4, <2>1 DEF KeptOf
<1>5. ASSUME NEW a \in DOMAIN u, NEW b \in DOMAIN u, a < b
      PROVE  \E k, l \in 1 .. n + 1 : k < l /\ u[a] = seq[k] /\ u[b] = seq[l]
  <2>1. PICK k \in 1 .. n, l \in 1 .. n : k < l /\ u[a] = seq[k] /\ u[b] = seq[l]
    BY <1>5 DEF KeptOf
  <2> QED
    BY <1>1, <2>1
<1>6. PICK m : m = n + 1
  OBVIOUS
<1>7. KeptOf(u, seq, S, m)
  BY <1>3, <1>4, <1>5, <1>6, Zenon DEF KeptOf
<1> QED
  BY <1>6, <1>7

\* An element that is kept comes last.
LEMMA KeptAppended ==
  ASSUME NEW X, NEW u \in Seq(X), NEW seq, NEW S, NEW n \in Nat, KeptOf(u, seq, S, n),
         seq[n + 1] \in S, seq[n + 1] \in X
  PROVE  KeptOf(Append(u, seq[n + 1]), seq, S, n + 1)
<1>1. PICK v : v = Append(u, seq[n + 1])
  OBVIOUS
<1>2. PICK m \in Nat : m = Len(u)
  BY LenProperties
<1>3. /\ DOMAIN u = 1 .. m /\ DOMAIN v = 1 .. m + 1
      /\ v[m + 1] = seq[n + 1] /\ \A a \in 1 .. m : v[a] = u[a]
  BY <1>1, <1>2, LenProperties, AppendProperties
<1>4. /\ \A k \in 1 .. n : k \in 1 .. n + 1 /\ k < n + 1
      /\ \A k \in 1 .. n + 1 : k \in 1 .. n \/ k = n + 1
      /\ \A a \in 1 .. m + 1 : a \in 1 .. m \/ a = m + 1
      /\ n + 1 \in 1 .. n + 1 /\ m + 1 \in 1 .. m + 1
      /\ \A a \in 1 .. m : a \in 1 .. m + 1
  OBVIOUS
<1>5. ASSUME NEW a \in DOMAIN v
      PROVE  v[a] \in S /\ \E k \in 1 .. n + 1 : v[a] = seq[k]
  <2>1. CASE a \in 1 .. m
    BY <1>3, <1>4, <2>1 DEF KeptOf
  <2>2. CASE a = m + 1
    BY <1>3, <1>4, <2>2
  <2> QED
    BY <1>3, <1>4, <2>1, <2>2
<1>6. ASSUME NEW k \in 1 .. n + 1, seq[k] \in S
      PROVE  \E a \in DOMAIN v : v[a] = seq[k]
  <2>1. CASE k \in 1 .. n
    <3>1. PICK a \in 1 .. m : u[a] = seq[k]
      BY <1>3, <1>6, <2>1 DEF KeptOf
    <3> QED
      BY <1>3, <1>4, <3>1
  <2>2. CASE k = n + 1
    BY <1>3, <1>4, <2>2
  <2> QED
    BY <1>4, <2>1, <2>2
<1>7. ASSUME NEW a \in DOMAIN v, NEW b \in DOMAIN v, a < b
      PROVE  \E k, l \in 1 .. n + 1 : k < l /\ v[a] = seq[k] /\ v[b] = seq[l]
  <2>0. a \in 1 .. m
    BY <1>2, <1>3, <1>7
  <2>1. CASE b \in 1 .. m
    <3>1. PICK k \in 1 .. n, l \in 1 .. n : k < l /\ u[a] = seq[k] /\ u[b] = seq[l]
      BY <1>3, <1>7, <2>0, <2>1 DEF KeptOf
    <3> QED
      BY <1>3, <1>4, <2>0, <2>1, <3>1
  <2>2. CASE b = m + 1
    <3>1. PICK k \in 1 .. n : u[a] = seq[k]
      BY <1>3, <2>0 DEF KeptOf
    <3>2. k < n + 1 /\ v[a] = seq[k] /\ v[b] = seq[n + 1]
      BY <1>3, <1>4, <2>0, <2>2, <3>1
    <3> QED
      BY <1>4, <3>2
  <2> QED
    BY <1>3, <1>4, <2>1, <2>2
<1>8. PICK p : p = n + 1
  OBVIOUS
<1>9. KeptOf(v, seq, S, p)
  BY <1>5, <1>6, <1>7, <1>8, Zenon DEF KeptOf
<1> QED
  BY <1>1, <1>8, <1>9

\* The elements that are in S, all of them, in their order.
LEMMA FilterKeeps ==
  ASSUME NEW X, NEW seq \in Seq(X), NEW S
  PROVE  /\ Filter(seq, S) \in Seq(X)
         /\ KeptOf(Filter(seq, S), seq, S, Len(seq))
<1>1. PICK n \in Nat : n = Len(seq)
  BY LenProperties
<1>2. PICK t : IsFiltered(t, seq, S, n) /\ Filter(seq, S) = t[n]
  BY <1>1, FilterIsEntry
<1>3. \A i \in 0 .. n : t[i] = Kept(t, seq, S, i)
  BY <1>2 DEF IsFiltered
<1> DEFINE Q == {i \in Nat : i \in 0 .. n => t[i] \in Seq(X) /\ KeptOf(t[i], seq, S, i)}
<1>4. 0 \in Q
  <2>1. t[0] = <<>>
    BY <1>3 DEF Kept
  <2>2. <<>> \in Seq(X) /\ DOMAIN <<>> = {}
    BY EmptySeq
  <2>3. 1 .. 0 = {}
    OBVIOUS
  <2> QED
    BY <2>1, <2>2, <2>3 DEF KeptOf
<1>5. ASSUME NEW i \in Nat, i \in Q PROVE i + 1 \in Q
  <2> SUFFICES ASSUME i + 1 \in 0 .. n
               PROVE  t[i + 1] \in Seq(X) /\ KeptOf(t[i + 1], seq, S, i + 1)
    OBVIOUS
  <2>1. i \in 0 .. n /\ i + 1 # 0 /\ i + 1 - 1 = i /\ i + 1 \in 1 .. n
    OBVIOUS
  <2>2. t[i] \in Seq(X) /\ KeptOf(t[i], seq, S, i)
    BY <1>5, <2>1
  <2>3. t[i + 1] = IF seq[i + 1] \in S THEN Append(t[i], seq[i + 1]) ELSE t[i]
    BY <1>3, <2>1 DEF Kept
  <2>4. seq[i + 1] \in X
    BY <1>1, <2>1, ElementOfSeq
  <2>5. CASE seq[i + 1] \in S
    BY <2>2, <2>3, <2>4, <2>5, KeptAppended, AppendProperties
  <2>6. CASE seq[i + 1] \notin S
    BY <2>2, <2>3, <2>6, KeptSkipped
  <2> QED
    BY <2>5, <2>6
<1> HIDE DEF Q
<1>6. Nat \subseteq Q
  BY <1>4, <1>5, SetInduction
<1>7. n \in 0 .. n
  OBVIOUS
<1> QED
  BY <1>1, <1>2, <1>6, <1>7 DEF Q

-----------------------------------------------------------------------------
(***************************************************************************)
(* Segments, slices and the runs on them                                   *)
(***************************************************************************)
\* Fewer days of the same candles.
Part(part, candles) ==
  \A s \in Symbols : /\ DOMAIN part[s] \subseteq DOMAIN candles[s]
                     /\ \A d \in DOMAIN part[s] : part[s][d] = candles[s][d]

\* Fewer days of candles are candles.
LEMMA PartIsCandles ==
  ASSUME NEW candles, IsCandles(candles), NEW part, Part(part, candles)
  PROVE  IsCandles(part) /\ Calendar(part) \subseteq Calendar(candles)
<1>1. ASSUME NEW s \in Symbols
      PROVE  /\ IsFiniteSet(DOMAIN part[s]) /\ DOMAIN part[s] \subseteq Nat \ {0}
             /\ \A d \in DOMAIN part[s] : part[s][d] \in DayBar
  <2>1. IsFiniteSet(DOMAIN candles[s]) /\ DOMAIN part[s] \subseteq DOMAIN candles[s]
    BY DEF Part, IsCandles
  <2>2. IsFiniteSet(DOMAIN part[s])
    BY <2>1, FS_Subset
  <2> QED
    BY <2>1, <2>2 DEF Part, IsCandles
<1>2. IsCandles(part)
  BY <1>1 DEF IsCandles
<1>3. Calendar(part) \subseteq Calendar(candles)
  BY DEF Part, Calendar
<1> QED
  BY <1>2, <1>3

\* Segments and slices have fewer days of the same candles.
LEMMA SegmentIsPart ==
  ASSUME NEW candles, NEW locked
  PROVE  Part(Segment(candles, locked), candles)
  BY DEF Part, Segment, Restrict

LEMMA SliceIsPart ==
  ASSUME NEW candles, NEW from, NEW to, NEW warm
  PROVE  Part(SliceForWindow(candles, from, to, warm), candles)
  BY DEF Part, SliceForWindow, Restrict

\* The days of a slice.
LEMMA SliceCalendar ==
  ASSUME NEW candles, NEW from, NEW to, NEW warm
  PROVE  Calendar(SliceForWindow(candles, from, to, warm)) =
           {d \in Calendar(candles) : LookbackStart(from, warm) <= d /\ d < to}
<1> DEFINE slice == SliceForWindow(candles, from, to, warm)
<1>1. \A s \in Symbols :
        DOMAIN slice[s] = {d \in DOMAIN candles[s] : LookbackStart(from, warm) <= d /\ d < to}
  BY DEF SliceForWindow, Restrict
<1> HIDE DEF slice
<1>2. \A d : d \in Calendar(slice) <=> \E s \in Symbols : d \in DOMAIN slice[s]
  BY DEF Calendar
<1>3. \A d : d \in Calendar(candles) <=> \E s \in Symbols : d \in DOMAIN candles[s]
  BY DEF Calendar
<1>4. \A d : d \in Calendar(slice) <=> d \in {c \in Calendar(candles) : LookbackStart(from, warm) <= c /\ c < to}
  BY <1>1, <1>2, <1>3
<1>5. Calendar(slice) = {c \in Calendar(candles) : LookbackStart(from, warm) <= c /\ c < to}
  BY <1>4
<1> QED
  BY <1>5 DEF slice

\* The days of [from, to) and whether enough days are before them.
Testing(candles, from, to) == {d \in Calendar(candles) : from <= d /\ d < to}

Warmed(candles, from, warm) ==
  Cardinality(Calendar(candles) \intersect (LookbackStart(from, warm) .. from - 1)) > warm

\* A day of the test is evaluated if the slice has days enough before.
LEMMA WarmedIsEvaluated ==
  ASSUME NEW candles, IsCandles(candles), NEW from \in Nat, NEW to \in Nat, NEW warm \in Nat,
         Warmed(candles, from, warm), NEW d \in Testing(candles, from, to)
  PROVE  d \in Evaluated(SliceForWindow(candles, from, to, warm), warm)
<1> DEFINE slice == SliceForWindow(candles, from, to, warm)
           before == Calendar(candles) \intersect (LookbackStart(from, warm) .. from - 1)
           upTo == {c \in Calendar(slice) : c <= d}
<1>1. Calendar(candles) \subseteq Nat /\ d \in Nat /\ from <= d /\ d < to /\ d \in Calendar(candles)
  BY CalendarType DEF Testing
<1>2. LookbackStart(from, warm) \in Int /\ LookbackStart(from, warm) <= from
  BY WalkForwardAssumption DEF LookbackStart
<1>3. Calendar(slice) = {c \in Calendar(candles) : LookbackStart(from, warm) <= c /\ c < to}
  BY SliceCalendar
<1> HIDE DEF slice
<1>4. before \union {d} \subseteq upTo
  BY <1>1, <1>2, <1>3
<1>5. d \notin before
  BY <1>1
<1>6. IsCandles(slice)
  BY SliceIsPart, PartIsCandles DEF slice
<1>7. IsFiniteSet(upTo)
  BY <1>6, CalendarType, FS_Subset
<1>8. IsFiniteSet(before)
  BY CalendarType, FS_Subset
<1>9. /\ Cardinality(before \union {d}) = Cardinality(before) + 1
      /\ Cardinality(before \union {d}) <= Cardinality(upTo)
      /\ Cardinality(before) \in Nat /\ Cardinality(upTo) \in Nat
  BY <1>4, <1>5, <1>7, <1>8, FS_AddElement, FS_Subset, FS_CardinalityType
<1>10. Cardinality(upTo) > warm + 1
  BY <1>9 DEF Warmed
<1>11. d \in Calendar(slice)
  BY <1>4
<1> QED
  BY <1>10, <1>11 DEF Evaluated, Place, slice

\* What the run of a window gives.
SubRunOK(run, candles, from, to, warm) ==
  /\ run.equity \in Seq(Point)
  /\ run.trades \in Seq(Trade)
  /\ \A i \in DOMAIN run.equity : run.equity[i].day \in Testing(candles, from, to)
  /\ \A i, j \in DOMAIN run.equity : i < j => run.equity[i].day < run.equity[j].day
  /\ Warmed(candles, from, warm) =>
       \A d \in Testing(candles, from, to) : \E i \in DOMAIN run.equity : run.equity[i].day = d
  /\ \A i \in DOMAIN run.trades : /\ run.trades[i].entered \in Testing(candles, from, to)
                                  /\ run.trades[i].left < to
  /\ \A i, j \in DOMAIN run.trades :
       i < j /\ run.trades[i].symbol = run.trades[j].symbol
         => run.trades[i].left <= run.trades[j].entered

\* The run of a window stays within its test: from the invariant of the run over the slice.
LEMMA SubRunIsOK ==
  ASSUME NEW p \in Params, NEW candles, IsCandles(candles), NEW from \in Nat, NEW to \in Nat \ {0},
         NEW cash \in Int
  PROVE  SubRunOK(SubRun(p, candles, from, to, cash), candles, from, to, p.warm)
<1>1. PICK slice : slice = SliceForWindow(candles, from, to, p.warm)
  OBVIOUS
<1>2. IsCandles(slice) /\ Calendar(slice) \subseteq Calendar(candles)
  BY <1>1, SliceIsPart, PartIsCandles
<1>3. PICK run : run = Run(p, slice, cash, NewBreaker)
  OBVIOUS
<1>4. RunInv(run, slice, p.warm, LastDay(slice))
  BY <1>2, <1>3, RunIsInv
<1>5. /\ run.equity \in Seq(Point) /\ run.trades \in Seq(Trade)
      /\ CurveInv(run.equity, slice, p.warm, LastDay(slice))
      /\ TradesInv(run.trades, run.book, slice, LastDay(slice))
  BY <1>4 DEF RunInv, IsState
<1>6. PICK T : T = {e \in Range(run.equity) : from <= e.day /\ e.day < to}
  OBVIOUS
<1>7. PICK U : U = {t \in Range(run.trades) : from <= t.entered /\ t.entered < to}
  OBVIOUS
<1>8. PICK equity \in Seq(Point) : equity = Filter(run.equity, T)
  BY <1>5, FilterKeeps
<1>9. PICK trades \in Seq(Trade) : trades = Filter(run.trades, U)
  BY <1>5, FilterKeeps
<1>10. KeptOf(equity, run.equity, T, Len(run.equity)) /\ KeptOf(trades, run.trades, U, Len(run.trades))
  BY <1>5, <1>8, <1>9, FilterKeeps
<1>11. DOMAIN run.equity = 1 .. Len(run.equity) /\ DOMAIN run.trades = 1 .. Len(run.trades)
  BY <1>5, LenProperties
<1>12. Calendar(slice) = {d \in Calendar(candles) : LookbackStart(from, p.warm) <= d /\ d < to}
  BY <1>1, SliceCalendar
<1>13. Calendar(candles) \subseteq Nat /\ LastDay(slice) \in Nat /\ LastDay(slice) < to
  <2>1. LastDay(slice) \in {0} \union Calendar(slice)
    BY <1>2, LastDayIsLast
  <2>2. \A d \in Calendar(slice) : d < to
    BY <1>12
  <2>3. Calendar(candles) \subseteq Nat /\ LastDay(slice) \in Nat
    BY <1>2, CalendarType, LastDayIsLast
  <2> QED
    BY <2>1, <2>2, <2>3
<1>14. ASSUME NEW i \in DOMAIN equity PROVE equity[i].day \in Testing(candles, from, to)
  <2>1. PICK k \in DOMAIN run.equity : equity[i] = run.equity[k] /\ equity[i] \in T
    BY <1>10, <1>11 DEF KeptOf
  <2>2. run.equity[k].day \in Calendar(slice)
    BY <1>5, <2>1 DEF CurveInv, Evaluated
  <2> QED
    BY <1>2, <1>6, <2>1, <2>2 DEF Testing
<1>15. ASSUME NEW i \in DOMAIN equity, NEW j \in DOMAIN equity, i < j
       PROVE  equity[i].day < equity[j].day
  <2>1. PICK k \in 1 .. Len(run.equity), l \in 1 .. Len(run.equity) :
          k < l /\ equity[i] = run.equity[k] /\ equity[j] = run.equity[l]
    BY <1>10, <1>15, KeptInOrder
  <2> QED
    BY <1>5, <1>11, <2>1 DEF CurveInv
<1>16. ASSUME Warmed(candles, from, p.warm), NEW d \in Testing(candles, from, to)
       PROVE  \E i \in DOMAIN equity : equity[i].day = d
  <2>0. p.warm \in Nat
    BY DEF Params
  <2>1. d \in Evaluated(slice, p.warm)
    BY <1>1, <1>16, <2>0, WarmedIsEvaluated
  <2>2. d <= LastDay(slice)
    BY <1>2, <2>1, LastDayIsLast DEF Evaluated
  <2>3. PICK k \in DOMAIN run.equity : run.equity[k].day = d
    BY <1>5, <2>1, <2>2 DEF CurveInv
  <2>4. run.equity[k] \in T
    BY <1>6, <2>3 DEF Testing, Range
  <2>5. PICK i \in DOMAIN equity : equity[i] = run.equity[k]
    BY <1>10, <1>11, <2>4 DEF KeptOf
  <2> QED
    BY <2>3, <2>5
<1>17. ASSUME NEW i \in DOMAIN trades
       PROVE  trades[i].entered \in Testing(candles, from, to) /\ trades[i].left < to
  <2>1. PICK k \in DOMAIN run.trades : trades[i] = run.trades[k] /\ trades[i] \in U
    BY <1>10, <1>11 DEF KeptOf
  <2>2. run.trades[k].entered \in Calendar(slice) /\ run.trades[k].left <= LastDay(slice)
    BY <1>5, <2>1 DEF TradesInv
  <2>3. run.trades[k].left \in Nat
    BY <1>5, TradesAreTyped
  <2>4. run.trades[k].left < to
    BY <1>13, <2>2, <2>3
  <2> QED
    BY <1>2, <1>7, <2>1, <2>2, <2>4 DEF Testing
<1>18. ASSUME NEW i \in DOMAIN trades, NEW j \in DOMAIN trades, i < j,
              trades[i].symbol = trades[j].symbol
       PROVE  trades[i].left <= trades[j].entered
  <2>1. PICK k \in 1 .. Len(run.trades), l \in 1 .. Len(run.trades) :
          k < l /\ trades[i] = run.trades[k] /\ trades[j] = run.trades[l]
    BY <1>10, <1>18, KeptInOrder
  <2> QED
    BY <1>5, <1>11, <1>18, <2>1 DEF TradesInv
<1>19. PICK sub : sub = SubRun(p, candles, from, to, cash)
  OBVIOUS
<1>20. sub.equity = equity /\ sub.trades = trades
  BY <1>1, <1>3, <1>6, <1>7, <1>8, <1>9, <1>19 DEF SubRun, Inside
<1> QED
  BY <1>14, <1>15, <1>16, <1>17, <1>18, <1>19, <1>20 DEF SubRunOK

-----------------------------------------------------------------------------
(***************************************************************************)
(* The parameter grid and the pick                                         *)
(***************************************************************************)
\* The best point so far, after every point.
Leading(t, grid, score, i) ==
  IF i = 0 THEN [found |-> FALSE, score |-> 0, params |-> Configured]
  ELSE IF i \in DOMAIN score THEN Better(t[i - 1], NewStrategy(grid[i]), score[i])
  ELSE t[i - 1]

IsBest(t, grid, score, n) == t = [i \in 0 .. n |-> Leading(t, grid, score, i)]

\* There is a table of the best point among the first ones.
LEMMA BestExists ==
  ASSUME NEW grid, NEW score
  PROVE  \A n \in Nat : \E t : IsBest(t, grid, score, n)
<1> DEFINE E(t, i) == Leading(t, grid, score, i)
           Q == {n \in Nat : \E t : t = [i \in 0 .. n |-> E(t, i)]}
<1>1. 0 \in Q
  <2>1. PICK t : t = [i \in 0 .. 0 |-> [found |-> FALSE, score |-> 0, params |-> Configured]]
    OBVIOUS
  <2>2. t = [i \in 0 .. 0 |-> E(t, i)]
    BY <2>1 DEF Leading
  <2> QED
    BY <2>2
<1>2. ASSUME NEW n \in Nat, n \in Q PROVE n + 1 \in Q
  <2>1. PICK t : t = [i \in 0 .. n |-> E(t, i)]
    BY <1>2
  <2>2. PICK last : last = IF n + 1 \in DOMAIN score THEN Better(t[n], NewStrategy(grid[n + 1]), score[n + 1]) ELSE t[n]
    OBVIOUS
  <2>3. PICK g : g = [i \in 0 .. n + 1 |-> IF i = n + 1 THEN last ELSE t[i]]
    OBVIOUS
  <2>4. ASSUME NEW i \in 0 .. n + 1 PROVE g[i] = E(g, i)
    <3>1. CASE i = 0
      <4>1. g[i] = t[i] /\ t[i] = E(t, i)
        BY <2>1, <2>3, <3>1
      <4> QED
        BY <3>1, <4>1 DEF Leading
    <3>2. CASE i # 0 /\ i # n + 1
      <4>1. i \in 0 .. n /\ i - 1 \in 0 .. n + 1 /\ i - 1 # n + 1
        BY <3>2
      <4>2. g[i] = t[i] /\ g[i - 1] = t[i - 1]
        BY <2>3, <4>1, <3>2
      <4>3. t[i] = E(t, i)
        BY <2>1, <4>1
      <4> QED
        BY <3>2, <4>2, <4>3 DEF Leading
    <3>3. CASE i = n + 1
      <4>1. n \in 0 .. n + 1 /\ n # n + 1 /\ i - 1 = n /\ i # 0
        BY <3>3
      <4>2. g[n] = t[n] /\ g[i] = last
        BY <2>3, <3>3, <4>1
      <4>3. E(g, i) = IF i \in DOMAIN score THEN Better(g[n], NewStrategy(grid[i]), score[i]) ELSE g[n]
        BY <4>1 DEF Leading
      <4> QED
        BY <2>2, <3>3, <4>2, <4>3
    <3> QED
      BY <3>1, <3>2, <3>3
  <2> HIDE DEF E
  <2>5. g = [i \in 0 .. n + 1 |-> E(g, i)]
    BY <2>3, <2>4
  <2> QED
    BY <2>5
<1> HIDE DEF Q
<1>3. Nat \subseteq Q
  BY <1>1, <1>2, SetInduction
<1> QED
  BY <1>3 DEF Q, IsBest

\* The best of a grid is the last entry of that table.
LEMMA BestIsEntry ==
  ASSUME NEW grid, NEW score, Len(grid) \in Nat
  PROVE  \E t : IsBest(t, grid, score, Len(grid)) /\ BestOf(grid, score) = t[Len(grid)]
<1> DEFINE g == CHOOSE t : t = [i \in 0 .. Len(grid) |-> Leading(t, grid, score, i)]
<1>1. \E t : IsBest(t, grid, score, Len(grid))
  BY BestExists
<1>2. IsBest(g, grid, score, Len(grid))
  BY <1>1, Zenon DEF IsBest
<1>3. BestOf(grid, score) = g[Len(grid)]
  BY Zenon DEF BestOf, Leading
<1> HIDE DEF g
<1> QED
  BY <1>2, <1>3

\* The grid after every axis.
Widened(t, axes, i) == IF i = 0 THEN <<NoParams>> ELSE Crossed(t[i - 1], axes[i])

IsGrid(t, axes, n) == t = [i \in 0 .. n |-> Widened(t, axes, i)]

\* There is a table of the grids of the first axes.
LEMMA GridExists ==
  ASSUME NEW axes
  PROVE  \A n \in Nat : \E t : IsGrid(t, axes, n)
<1> DEFINE E(t, i) == Widened(t, axes, i)
           Q == {n \in Nat : \E t : t = [i \in 0 .. n |-> E(t, i)]}
<1>1. 0 \in Q
  <2>1. PICK t : t = [i \in 0 .. 0 |-> <<NoParams>>]
    OBVIOUS
  <2>2. t = [i \in 0 .. 0 |-> E(t, i)]
    BY <2>1 DEF Widened
  <2> QED
    BY <2>2
<1>2. ASSUME NEW n \in Nat, n \in Q PROVE n + 1 \in Q
  <2>1. PICK t : t = [i \in 0 .. n |-> E(t, i)]
    BY <1>2
  <2>2. PICK last : last = Crossed(t[n], axes[n + 1])
    OBVIOUS
  <2>3. PICK g : g = [i \in 0 .. n + 1 |-> IF i = n + 1 THEN last ELSE t[i]]
    OBVIOUS
  <2>4. ASSUME NEW i \in 0 .. n + 1 PROVE g[i] = E(g, i)
    <3>1. CASE i = 0
      <4>1. g[i] = t[i] /\ t[i] = E(t, i)
        BY <2>1, <2>3, <3>1
      <4> QED
        BY <3>1, <4>1 DEF Widened
    <3>2. CASE i # 0 /\ i # n + 1
      <4>1. i \in 0 .. n /\ i - 1 \in 0 .. n + 1 /\ i - 1 # n + 1
        BY <3>2
      <4>2. g[i] = t[i] /\ g[i - 1] = t[i - 1]
        BY <2>3, <4>1, <3>2
      <4>3. t[i] = E(t, i)
        BY <2>1, <4>1
      <4> QED
        BY <3>2, <4>2, <4>3 DEF Widened
    <3>3. CASE i = n + 1
      <4>1. n \in 0 .. n + 1 /\ n # n + 1 /\ i - 1 = n /\ i # 0
        BY <3>3
      <4>2. g[n] = t[n] /\ g[i] = last
        BY <2>3, <3>3, <4>1
      <4>3. E(g, i) = Crossed(g[n], axes[i])
        BY <4>1 DEF Widened
      <4> QED
        BY <2>2, <3>3, <4>2, <4>3
    <3> QED
      BY <3>1, <3>2, <3>3
  <2> HIDE DEF E
  <2>5. g = [i \in 0 .. n + 1 |-> E(g, i)]
    BY <2>3, <2>4
  <2> QED
    BY <2>5
<1> HIDE DEF Q
<1>3. Nat \subseteq Q
  BY <1>1, <1>2, SetInduction
<1> QED
  BY <1>3 DEF Q, IsGrid

\* The grid of all axes is the last entry of that table.
LEMMA GridIsEntry ==
  ASSUME NEW axes, Len(axes) \in Nat
  PROVE  \E t : IsGrid(t, axes, Len(axes)) /\ ParamGrid(axes) = t[Len(axes)]
<1> DEFINE g == CHOOSE t : t = [i \in 0 .. Len(axes) |-> Widened(t, axes, i)]
<1>1. \E t : IsGrid(t, axes, Len(axes))
  BY GridExists
<1>2. IsGrid(g, axes, Len(axes))
  BY <1>1, Zenon DEF IsGrid
<1>3. ParamGrid(axes) = g[Len(axes)]
  BY Zenon DEF ParamGrid, Widened
<1> HIDE DEF g
<1> QED
  BY <1>2, <1>3

-----------------------------------------------------------------------------
\* A parameter point of the grid.
Choice == UNION {[D -> Nat] : D \in SUBSET {"warm", "mult"}}

\* A choice gives values to some of the parameters.
LEMMA ChoiceIs ==
  \A c : c \in Choice <=> /\ c = [f \in DOMAIN c |-> c[f]] /\ DOMAIN c \subseteq {"warm", "mult"}
                          /\ \A f \in DOMAIN c : c[f] \in Nat
<1> SUFFICES ASSUME NEW c
             PROVE  c \in Choice <=> /\ c = [f \in DOMAIN c |-> c[f]]
                                     /\ DOMAIN c \subseteq {"warm", "mult"}
                                     /\ \A f \in DOMAIN c : c[f] \in Nat
  OBVIOUS
<1>1. ASSUME c \in Choice
      PROVE  /\ c = [f \in DOMAIN c |-> c[f]] /\ DOMAIN c \subseteq {"warm", "mult"}
             /\ \A f \in DOMAIN c : c[f] \in Nat
  <2>1. PICK D \in SUBSET {"warm", "mult"} : c \in [D -> Nat]
    BY <1>1 DEF Choice
  <2> QED
    BY <2>1
<1>2. ASSUME c = [f \in DOMAIN c |-> c[f]], DOMAIN c \subseteq {"warm", "mult"},
             \A f \in DOMAIN c : c[f] \in Nat
      PROVE  c \in Choice
  <2>1. c \in [DOMAIN c -> Nat]
    BY <1>2
  <2> QED
    BY <1>2, <2>1 DEF Choice
<1> QED
  BY <1>1, <1>2

\* What a point overrides the configuration with is a parameter point.
LEMMA NewStrategyType ==
  ASSUME NEW c \in Choice
  PROVE  NewStrategy(c) \in Params
<1>1. Configured \in Params
  BY WalkForwardAssumption
<1>2. /\ DOMAIN Configured = {"warm", "mult"}
      /\ Configured["warm"] \in Nat /\ Configured["mult"] \in Nat
  BY <1>1 DEF Params
<1>3. \A f \in DOMAIN c : c[f] \in Nat
  BY ChoiceIs
<1>4. PICK p : p = NewStrategy(c)
  OBVIOUS
<1>5. p = [f \in {"warm", "mult"} |-> IF f \in DOMAIN c THEN c[f] ELSE Configured[f]]
  BY <1>2, <1>4 DEF NewStrategy
<1>6. p["warm"] \in Nat /\ p["mult"] \in Nat
  BY <1>2, <1>3, <1>5
<1>7. p = [warm |-> p["warm"], mult |-> p["mult"]]
  BY <1>5
<1> QED
  BY <1>4, <1>6, <1>7 DEF Params

\* The pick is the configuration's point or one of the grid.
LEMMA BestOfType ==
  ASSUME NEW grid \in Seq(Choice), NEW score
  PROVE  BestOf(grid, score).params \in Params
<1>1. PICK n \in Nat : n = Len(grid)
  BY LenProperties
<1>2. PICK t : IsBest(t, grid, score, n) /\ BestOf(grid, score) = t[n]
  BY <1>1, BestIsEntry
<1>3. \A i \in 0 .. n : t[i] = Leading(t, grid, score, i)
  BY <1>2 DEF IsBest
<1> DEFINE Q == {i \in Nat : i \in 0 .. n => t[i].params \in Params}
<1>4. 0 \in Q
  <2>1. t[0] = [found |-> FALSE, score |-> 0, params |-> Configured]
    <3>1. t[0] = Leading(t, grid, score, 0)
      BY <1>3
    <3>2. Leading(t, grid, score, 0) = [found |-> FALSE, score |-> 0, params |-> Configured]
      BY DEF Leading
    <3> QED
      BY <3>1, <3>2
  <2> QED
    BY <2>1, WalkForwardAssumption
<1>5. ASSUME NEW i \in Nat, i \in Q PROVE i + 1 \in Q
  <2> SUFFICES ASSUME i + 1 \in 0 .. n PROVE t[i + 1].params \in Params
    OBVIOUS
  <2>1. i \in 0 .. n /\ i + 1 # 0 /\ i + 1 - 1 = i /\ i + 1 \in 1 .. n
    OBVIOUS
  <2>2. t[i].params \in Params
    BY <1>5, <2>1
  <2>3. PICK p : p = NewStrategy(grid[i + 1])
    OBVIOUS
  <2>4. p \in Params
    BY <1>1, <2>1, <2>3, ElementOfSeq, NewStrategyType
  <2>5. t[i + 1] = IF i + 1 \in DOMAIN score THEN Better(t[i], p, score[i + 1]) ELSE t[i]
    BY <1>3, <2>1, <2>3 DEF Leading
  <2>6. Better(t[i], p, score[i + 1]).params \in {t[i].params, p}
    BY DEF Better
  <2> QED
    BY <2>2, <2>4, <2>5, <2>6
<1> HIDE DEF Q
<1>6. Nat \subseteq Q
  BY <1>4, <1>5, SetInduction
<1>7. n \in 0 .. n
  OBVIOUS
<1> QED
  BY <1>1, <1>2, <1>6, <1>7 DEF Q

\* A choice with one more parameter is a choice.
LEMMA WithType ==
  ASSUME NEW c \in Choice, NEW name \in {"warm", "mult"}, NEW value \in Nat
  PROVE  With(c, name, value) \in Choice
<1>1. PICK w : w = With(c, name, value)
  OBVIOUS
<1>2. w = [f \in DOMAIN c \union {name} |-> IF f = name THEN value ELSE c[f]]
  BY <1>1 DEF With
<1>3. DOMAIN c \subseteq {"warm", "mult"} /\ \A f \in DOMAIN c : c[f] \in Nat
  BY ChoiceIs
<1>4. /\ DOMAIN w \subseteq {"warm", "mult"} /\ \A f \in DOMAIN w : w[f] \in Nat
      /\ w = [f \in DOMAIN w |-> w[f]]
  BY <1>2, <1>3
<1> QED
  BY <1>1, <1>4, ChoiceIs

\* Sequences of a set flatten to a sequence of it.
LEMMA FlattenType ==
  ASSUME NEW S, NEW t \in Seq(Seq(S))
  PROVE  FlattenSeq(t) \in Seq(S)
<1>1. Len(t) \in Nat
  BY LenProperties
<1>2. CASE Len(t) = 0
  <2>1. t = <<>>
    BY <1>2, EmptySeq
  <2>2. FlattenSeq(t) = <<>>
    BY <1>2, <2>1, Zenon DEF FlattenSeq
  <2> QED
    BY <2>2, EmptySeq
<1>3. CASE Len(t) # 0
  <2>1. PICK f \in [1 .. Len(t) -> Seq(S)] : FlattenSeq(t) = f[Len(t)]
    BY <1>3, FlattenIsEntry, Zenon
  <2>2. Len(t) \in 1 .. Len(t)
    BY <1>1, <1>3
  <2> QED
    BY <2>1, <2>2
<1> QED
  BY <1>2, <1>3

\* Crossing a grid with an axis gives a grid.
LEMMA CrossedType ==
  ASSUME NEW grid \in Seq(Choice), NEW axis \in Axis
  PROVE  Crossed(grid, axis) \in Seq(Choice)
<1>1. axis.name \in {"warm", "mult"} /\ axis.values \in Seq(Nat)
  BY DEF Axis
<1>2. /\ Len(axis.values) \in Nat /\ DOMAIN axis.values = 1 .. Len(axis.values)
      /\ Len(grid) \in Nat /\ DOMAIN grid = 1 .. Len(grid)
  BY <1>1, LenProperties
<1> DEFINE row(i) == [j \in DOMAIN axis.values |-> With(grid[i], axis.name, axis.values[j])]
           all == [i \in DOMAIN grid |-> row(i)]
<1>3. ASSUME NEW i \in DOMAIN grid PROVE row(i) \in Seq(Choice)
  <2>1. \A j \in DOMAIN axis.values : With(grid[i], axis.name, axis.values[j]) \in Choice
    <3> SUFFICES ASSUME NEW j \in DOMAIN axis.values
                 PROVE  With(grid[i], axis.name, axis.values[j]) \in Choice
      OBVIOUS
    <3>1. grid[i] \in Choice /\ axis.values[j] \in Nat
      BY <1>1, <1>2, <1>3, ElementOfSeq
    <3> QED
      BY <1>1, <3>1, WithType
  <2> QED
    BY <1>2, <2>1
<1> HIDE DEF row
<1>4. all \in Seq(Seq(Choice))
  BY <1>2, <1>3
<1>5. Crossed(grid, axis) = FlattenSeq(all)
  BY DEF Crossed, row
<1> HIDE DEF all
<1> QED
  BY <1>4, <1>5, FlattenType

\* A grid is made of choices: induction on the number of axes.
LEMMA ParamGridType ==
  ASSUME NEW axes \in Seq(Axis)
  PROVE  ParamGrid(axes) \in Seq(Choice)
<1>1. PICK n \in Nat : n = Len(axes)
  BY LenProperties
<1>2. PICK t : IsGrid(t, axes, n) /\ ParamGrid(axes) = t[n]
  BY <1>1, GridIsEntry
<1>3. \A i \in 0 .. n : t[i] = Widened(t, axes, i)
  BY <1>2 DEF IsGrid
<1> DEFINE Q == {i \in Nat : i \in 0 .. n => t[i] \in Seq(Choice)}
<1>4. 0 \in Q
  <2>1. t[0] = <<NoParams>>
    BY <1>3 DEF Widened
  <2>2. NoParams \in Choice
    <3>1. NoParams = [f \in {} |-> 0]
      BY DEF NoParams
    <3> QED
      BY <3>1, ChoiceIs
  <2>3. \A c : c \in Choice => <<c>> \in Seq(Choice)
    OBVIOUS
  <2> QED
    BY <2>1, <2>2, <2>3
<1>5. ASSUME NEW i \in Nat, i \in Q PROVE i + 1 \in Q
  <2> SUFFICES ASSUME i + 1 \in 0 .. n PROVE t[i + 1] \in Seq(Choice)
    OBVIOUS
  <2>1. i \in 0 .. n /\ i + 1 # 0 /\ i + 1 - 1 = i /\ i + 1 \in 1 .. n
    OBVIOUS
  <2>2. t[i] \in Seq(Choice) /\ axes[i + 1] \in Axis
    BY <1>1, <1>5, <2>1, ElementOfSeq
  <2>3. t[i + 1] = Crossed(t[i], axes[i + 1])
    BY <1>3, <2>1 DEF Widened
  <2> QED
    BY <2>2, <2>3, CrossedType
<1> HIDE DEF Q
<1>6. Nat \subseteq Q
  BY <1>4, <1>5, SetInduction
<1>7. n \in 0 .. n
  OBVIOUS
<1> QED
  BY <1>1, <1>2, <1>6, <1>7 DEF Q

\* What a training window picks is a parameter point.
LEMMA SelectParamsType ==
  ASSUME NEW candles, NEW axes \in Seq(Axis), NEW w
  PROVE  SelectParams(candles, axes, w).params \in Params
  BY ParamGridType, BestOfType DEF SelectParams

-----------------------------------------------------------------------------
(***************************************************************************)
(* Prices that come later change nothing                                   *)
(***************************************************************************)
\* What a curve shows up to a day.
UpTo(equity, day) == {e \in Range(equity) : e.day <= day}

\* Other bars on the same days are candles with the same calendar.
LEMMA AlteredIsCandles ==
  ASSUME NEW candles, IsCandles(candles), NEW day, NEW bar \in DayBar
  PROVE  /\ IsCandles(Altered(candles, day, bar))
         /\ Calendar(Altered(candles, day, bar)) = Calendar(candles)
<1> DEFINE other == Altered(candles, day, bar)
<1>1. \A s \in Symbols : other[s] = [d \in DOMAIN candles[s] |-> IF d < day THEN candles[s][d] ELSE bar]
  BY DEF Altered
<1> HIDE DEF other
<1>2. \A s \in Symbols : DOMAIN other[s] = DOMAIN candles[s]
  BY <1>1
<1>3. ASSUME NEW s \in Symbols, NEW d \in DOMAIN candles[s] PROVE other[s][d] \in DayBar
  <2>1. candles[s][d] \in DayBar
    BY DEF IsCandles
  <2>2. other[s][d] = IF d < day THEN candles[s][d] ELSE bar
    BY <1>1
  <2> QED
    BY <2>1, <2>2
<1>4. IsCandles(other)
  BY <1>2, <1>3 DEF IsCandles
<1>5. Calendar(other) = Calendar(candles)
  <2>1. \A d : d \in Calendar(other) <=> d \in Calendar(candles)
    BY <1>2 DEF Calendar
  <2> QED
    BY <2>1
<1> QED
  BY <1>4, <1>5 DEF other

\* A slice that ends before the first other bar is the same.
LEMMA AlteredSlice ==
  ASSUME NEW candles, IsCandles(candles), NEW day \in Nat, NEW bar \in DayBar,
         NEW from, NEW to \in Nat, to <= day, NEW warm
  PROVE  SliceForWindow(Altered(candles, day, bar), from, to, warm)
           = SliceForWindow(candles, from, to, warm)
<1> DEFINE other == Altered(candles, day, bar)
<1>1. \A s \in Symbols : other[s] = [d \in DOMAIN candles[s] |-> IF d < day THEN candles[s][d] ELSE bar]
  BY DEF Altered
<1> HIDE DEF other
<1>2. ASSUME NEW s \in Symbols
      PROVE  Restrict(other[s], {d \in DOMAIN other[s] : LookbackStart(from, warm) <= d /\ d < to})
               = Restrict(candles[s], {d \in DOMAIN candles[s] : LookbackStart(from, warm) <= d /\ d < to})
  <2>1. PICK T : T = {d \in DOMAIN candles[s] : LookbackStart(from, warm) <= d /\ d < to}
    OBVIOUS
  <2>2. DOMAIN other[s] = DOMAIN candles[s]
    BY <1>1
  <2>3. {d \in DOMAIN other[s] : LookbackStart(from, warm) <= d /\ d < to} = T
    BY <2>1, <2>2
  <2>4. \A d \in T : d \in DOMAIN candles[s] /\ d < day
    <3>1. \A d \in T : d \in Nat /\ d < to /\ d \in DOMAIN candles[s]
      BY <2>1 DEF IsCandles
    <3> QED
      BY <3>1
  <2>5. \A d \in T : other[s][d] = candles[s][d]
    BY <1>1, <2>4
  <2>6. Restrict(other[s], T) = Restrict(candles[s], T)
    BY <2>5 DEF Restrict
  <2> QED
    BY <2>1, <2>3, <2>6
<1>3. SliceForWindow(other, from, to, warm) = SliceForWindow(candles, from, to, warm)
  BY <1>2 DEF SliceForWindow
<1> QED
  BY <1>3 DEF other

\* A run that ends before the first other bar is the same run.
LEMMA AlteredSubRun ==
  ASSUME NEW candles, IsCandles(candles), NEW day \in Nat, NEW bar \in DayBar,
         NEW from, NEW to \in Nat, to <= day, NEW p, NEW cash
  PROVE  /\ SubRun(p, Altered(candles, day, bar), from, to, cash) = SubRun(p, candles, from, to, cash)
         /\ SubRunUsable(p, Altered(candles, day, bar), from, to) = SubRunUsable(p, candles, from, to)
<1>1. SliceForWindow(Altered(candles, day, bar), from, to, p.warm) = SliceForWindow(candles, from, to, p.warm)
  BY AlteredSlice
<1>2. PICK slice : slice = SliceForWindow(candles, from, to, p.warm)
  OBVIOUS
<1> QED
  BY <1>1, Zenon DEF SubRun, SubRunUsable

\* Training that ends before the first other bar picks the same.
LEMMA AlteredPick ==
  ASSUME NEW candles, IsCandles(candles), NEW day \in Nat, NEW bar \in DayBar,
         NEW axes, NEW w, w.trainEnd \in Nat, w.trainEnd <= day
  PROVE  SelectParams(Altered(candles, day, bar), axes, w) = SelectParams(candles, axes, w)
<1> DEFINE other == Altered(candles, day, bar)
           grid == ParamGrid(axes)
           usable(c) == {i \in DOMAIN grid : SubRunUsable(NewStrategy(grid[i]), c, w.trainStart, w.trainEnd)}
           score(c) == [i \in usable(c) |-> DefaultObjective(
                          SubRun(NewStrategy(grid[i]), c, w.trainStart, w.trainEnd, InitialCash).equity)]
<1>1. \A p, cash : /\ SubRun(p, other, w.trainStart, w.trainEnd, cash)
                        = SubRun(p, candles, w.trainStart, w.trainEnd, cash)
                   /\ SubRunUsable(p, other, w.trainStart, w.trainEnd)
                        = SubRunUsable(p, candles, w.trainStart, w.trainEnd)
  BY AlteredSubRun
<1> HIDE DEF other, grid
<1>2. usable(other) = usable(candles)
  BY <1>1
<1>3. score(other) = score(candles)
  BY <1>1, <1>2
<1>4. \A c : SelectParams(c, axes, w) = BestOf(grid, score(c))
  BY Zenon DEF SelectParams, grid
<1> HIDE DEF score
<1>5. SelectParams(other, axes, w) = SelectParams(candles, axes, w)
  BY <1>3, <1>4
<1> QED
  BY <1>5 DEF other

-----------------------------------------------------------------------------
\* A day either adds its own point to the curve or none.
LEMMA RunDayEquity ==
  ASSUME NEW p \in Params, NEW candles, IsCandles(candles), NEW d \in Nat, NEW r, IsState(r),
         NEW x, x = RunDay(p, r, candles, d)
  PROVE  x.equity = r.equity \/ Extended(x.equity, r.equity, d)
<1>1. PICK bars \in Bars : bars = BarsOn(candles, d)
  BY BarsType
<1>2. CASE d \notin Calendar(candles)
  <2>1. x = r
    BY <1>2 DEF RunDay
  <2> QED
    BY <2>1
<1>3. CASE d \in Calendar(candles) /\ Place(candles, d) <= p.warm + 1
  <2>1. x = Prime(r, bars, d)
    BY <1>1, <1>3 DEF RunDay
  <2>2. x.equity = r.equity
    BY <2>1, PrimeState
  <2> QED
    BY <2>2
<1>4. CASE d \in Calendar(candles) /\ ~(Place(candles, d) <= p.warm + 1)
  <2>1. PICK y : y = Recorded(r, bars, d)
    OBVIOUS
  <2>2. x = Decided(p, y, bars, d)
    BY <1>1, <1>4, <2>1 DEF RunDay
  <2>3. IsState(y) /\ Extended(y.equity, r.equity, d)
    BY <2>1, RecordedState
  <2>4. x.equity = y.equity
    BY <2>2, <2>3, DecidedState
  <2> QED
    BY <2>3, <2>4
<1> QED
  BY <1>2, <1>3, <1>4

\* A point of a later day is not shown up to an earlier one.
LEMMA UpToExtended ==
  ASSUME NEW old \in Seq(Point), NEW new, NEW d \in Nat, NEW day \in Nat, day < d,
         Extended(new, old, d)
  PROVE  UpTo(new, day) = UpTo(old, day)
<1>1. PICK e \in Point : e.day = d /\ new = Append(old, e)
  BY DEF Extended
<1>2. PICK n \in Nat : n = Len(old)
  BY LenProperties
<1>3. /\ DOMAIN old = 1 .. n /\ DOMAIN new = 1 .. n + 1
      /\ new[n + 1] = e /\ \A i \in 1 .. n : new[i] = old[i]
  BY <1>1, <1>2, LenProperties, AppendProperties
<1>4. Range(old) = {old[i] : i \in 1 .. n} /\ Range(new) = {new[i] : i \in 1 .. n + 1}
  BY <1>3 DEF Range
<1>5. ~(e.day <= day)
  BY <1>1
<1>6. \A i \in 1 .. n + 1 : i \in 1 .. n \/ i = n + 1
  OBVIOUS
<1>7. \A i \in 1 .. n : i \in 1 .. n + 1
  OBVIOUS
<1>8. \A x : x \in UpTo(new, day) <=> x \in UpTo(old, day)
  BY <1>3, <1>4, <1>5, <1>6, <1>7 DEF UpTo
<1> QED
  BY <1>8

\* Two sets of candles that agree up to a day.
Agreeing(other, candles, day) ==
  /\ Calendar(other) = Calendar(candles)
  /\ \A d \in Nat : d <= day => BarsOn(other, d) = BarsOn(candles, d)

\* Their runs agree up to that day.
LEMMA TablesAgree ==
  ASSUME NEW p, NEW candles, NEW other, NEW day \in Nat, Agreeing(other, candles, day),
         NEW cash, NEW breaker, NEW n \in Nat,
         NEW t, IsRun(t, p, candles, cash, breaker, n),
         NEW u, IsRun(u, p, other, cash, breaker, n)
  PROVE  \A i \in 0 .. n : i <= day => u[i] = t[i]
<1> DEFINE Q == {i \in Nat : i \in 0 .. n /\ i <= day => u[i] = t[i]}
<1>1. \A i \in 0 .. n : /\ t[i] = DayOf(t, p, candles, cash, breaker, i)
                        /\ u[i] = DayOf(u, p, other, cash, breaker, i)
  BY DEF IsRun
<1>2. 0 \in Q
  BY <1>1 DEF DayOf
<1>3. ASSUME NEW i \in Nat, i \in Q PROVE i + 1 \in Q
  <2> SUFFICES ASSUME i + 1 \in 0 .. n, i + 1 <= day PROVE u[i + 1] = t[i + 1]
    OBVIOUS
  <2>1. i \in 0 .. n /\ i <= day /\ i + 1 # 0 /\ i + 1 - 1 = i /\ i + 1 \in Nat
    OBVIOUS
  <2>2. u[i] = t[i]
    BY <1>3, <2>1
  <2>3. t[i + 1] = RunDay(p, t[i], candles, i + 1) /\ u[i + 1] = RunDay(p, u[i], other, i + 1)
    BY <1>1, <2>1 DEF DayOf
  <2>4. /\ BarsOn(other, i + 1) = BarsOn(candles, i + 1)
        /\ Calendar(other) = Calendar(candles)
    BY <2>1 DEF Agreeing
  <2>5. Place(other, i + 1) = Place(candles, i + 1)
    BY <2>4 DEF Place
  <2>6. PICK r : r = t[i]
    OBVIOUS
  <2>7. RunDay(p, r, other, i + 1) = RunDay(p, r, candles, i + 1)
    BY <2>4, <2>5, Zenon DEF RunDay
  <2> QED
    BY <2>2, <2>3, <2>6, <2>7
<1> HIDE DEF Q
<1>4. Nat \subseteq Q
  BY <1>2, <1>3, SetInduction
<1> QED
  BY <1>4 DEF Q

\* After a day, a run adds later points only.
LEMMA TableUpTo ==
  ASSUME NEW p \in Params, NEW candles, IsCandles(candles), NEW cash \in Int, NEW breaker,
         NEW n \in Nat, NEW t, IsRun(t, p, candles, cash, breaker, n), NEW day \in 0 .. n
  PROVE  \A i \in 0 .. n : day <= i => UpTo(t[i].equity, day) = UpTo(t[day].equity, day)
<1> DEFINE Q == {i \in Nat : i \in 0 .. n /\ day <= i => UpTo(t[i].equity, day) = UpTo(t[day].equity, day)}
<1>1. \A i \in 0 .. n : t[i] = DayOf(t, p, candles, cash, breaker, i)
  BY DEF IsRun
<1>2. \A i \in 0 .. n : RunInv(t[i], candles, p.warm, i)
  BY TableInv
<1>3. 0 \in Q
  <2>1. day <= 0 => day = 0
    OBVIOUS
  <2> QED
    BY <2>1
<1>4. ASSUME NEW i \in Nat, i \in Q PROVE i + 1 \in Q
  <2> SUFFICES ASSUME i + 1 \in 0 .. n, day <= i + 1
               PROVE  UpTo(t[i + 1].equity, day) = UpTo(t[day].equity, day)
    OBVIOUS
  <2>1. CASE day = i + 1
    BY <2>1
  <2>2. CASE day # i + 1
    <3>1. i \in 0 .. n /\ day <= i /\ day < i + 1 /\ i + 1 # 0 /\ i + 1 - 1 = i /\ i + 1 \in Nat
          /\ day \in Nat
      BY <2>2
    <3>2. UpTo(t[i].equity, day) = UpTo(t[day].equity, day)
      BY <1>4, <3>1
    <3>3. t[i + 1] = RunDay(p, t[i], candles, i + 1)
      BY <1>1, <3>1 DEF DayOf
    <3>4. IsState(t[i]) /\ t[i].equity \in Seq(Point)
      BY <1>2, <3>1 DEF RunInv, IsState
    <3>5. t[i + 1].equity = t[i].equity \/ Extended(t[i + 1].equity, t[i].equity, i + 1)
      BY <3>1, <3>3, <3>4, RunDayEquity
    <3>6. UpTo(t[i + 1].equity, day) = UpTo(t[i].equity, day)
      BY <3>1, <3>4, <3>5, UpToExtended
    <3> QED
      BY <3>2, <3>6
  <2> QED
    BY <2>1, <2>2
<1> HIDE DEF Q
<1>5. Nat \subseteq Q
  BY <1>3, <1>4, SetInduction
<1> QED
  BY <1>5 DEF Q

\* Runs over candles that agree up to a day have the same curve up to it.
LEMMA RunsAgree ==
  ASSUME NEW p \in Params, NEW candles, IsCandles(candles), NEW other, IsCandles(other),
         NEW day \in Nat, Agreeing(other, candles, day), NEW cash \in Int, NEW breaker
  PROVE  UpTo(Run(p, other, cash, breaker).equity, day) = UpTo(Run(p, candles, cash, breaker).equity, day)
<1>1. PICK n \in Nat : n = LastDay(candles)
  BY LastDayIsLast
<1>2. n = LastDay(other)
  BY <1>1 DEF LastDay, Agreeing
<1>3. PICK t : IsRun(t, p, candles, cash, breaker, n) /\ Run(p, candles, cash, breaker) = t[n]
  BY <1>1, RunIsEntry DEF LastDay
<1>4. PICK u : IsRun(u, p, other, cash, breaker, n) /\ Run(p, other, cash, breaker) = u[n]
  BY <1>2, RunIsEntry DEF LastDay
<1>5. \A i \in 0 .. n : i <= day => u[i] = t[i]
  BY <1>3, <1>4, TablesAgree
<1>6. n \in 0 .. n
  OBVIOUS
<1>7. CASE n <= day
  BY <1>3, <1>4, <1>5, <1>6, <1>7
<1>8. CASE ~(n <= day)
  <2>1. day \in 0 .. n /\ day <= n /\ day <= day
    BY <1>8
  <2>2. UpTo(t[n].equity, day) = UpTo(t[day].equity, day)
    BY <1>3, <1>6, <2>1, TableUpTo
  <2>3. UpTo(u[n].equity, day) = UpTo(u[day].equity, day)
    BY <1>4, <1>6, <2>1, TableUpTo
  <2>4. u[day] = t[day]
    BY <1>5, <2>1
  <2> QED
    BY <1>3, <1>4, <2>2, <2>3, <2>4
<1> QED
  BY <1>7, <1>8

\* What the curve of a window shows up to a day.
LEMMA SubRunUpTo ==
  ASSUME NEW p \in Params, NEW candles, IsCandles(candles), NEW from, NEW to, NEW cash \in Int,
         NEW slice, slice = SliceForWindow(candles, from, to, p.warm), NEW day
  PROVE  UpTo(SubRun(p, candles, from, to, cash).equity, day)
           = {e \in UpTo(Run(p, slice, cash, NewBreaker).equity, day) : from <= e.day /\ e.day < to}
<1>1. IsCandles(slice)
  BY SliceIsPart, PartIsCandles
<1>2. PICK run : run = Run(p, slice, cash, NewBreaker)
  OBVIOUS
<1>3. run.equity \in Seq(Point)
  BY <1>1, <1>2, RunIsInv DEF RunInv, IsState
<1>4. PICK T : T = {e \in Range(run.equity) : from <= e.day /\ e.day < to}
  OBVIOUS
<1>5. PICK equity \in Seq(Point) : equity = Filter(run.equity, T)
  BY <1>3, FilterKeeps
<1>6. KeptOf(equity, run.equity, T, Len(run.equity))
  BY <1>3, <1>5, FilterKeeps
<1>7. DOMAIN run.equity = 1 .. Len(run.equity)
  BY <1>3, LenProperties
<1>8. \A e : e \in Range(equity) <=> e \in T
  <2>1. ASSUME NEW e \in Range(equity) PROVE e \in T
    BY <1>6 DEF KeptOf, Range
  <2>2. ASSUME NEW e \in T PROVE e \in Range(equity)
    <3>1. PICK k \in 1 .. Len(run.equity) : e = run.equity[k]
      BY <1>4, <1>7 DEF Range
    <3>2. PICK a \in DOMAIN equity : equity[a] = run.equity[k]
      BY <1>6, <3>1 DEF KeptOf
    <3> QED
      BY <3>1, <3>2 DEF Range
  <2> QED
    BY <2>1, <2>2
<1>9. \A e : e \in UpTo(equity, day) <=>
               e \in {x \in UpTo(run.equity, day) : from <= x.day /\ x.day < to}
  BY <1>4, <1>8 DEF UpTo
<1>10. UpTo(equity, day) = {x \in UpTo(run.equity, day) : from <= x.day /\ x.day < to}
  BY <1>9
<1>11. SubRun(p, candles, from, to, cash).equity = equity
  BY <1>2, <1>4, <1>5 DEF SubRun, Inside
<1> QED
  BY <1>2, <1>10, <1>11

\* With other prices from the next day on, a test goes the same up to the day.
LEMMA AlteredTest ==
  ASSUME NEW p \in Params, NEW candles, IsCandles(candles), NEW from, NEW to, NEW cash \in Int,
         NEW day \in Nat, NEW bar \in DayBar
  PROVE  UpTo(SubRun(p, Altered(candles, day + 1, bar), from, to, cash).equity, day)
           = UpTo(SubRun(p, candles, from, to, cash).equity, day)
<1>1. PICK other : other = Altered(candles, day + 1, bar)
  OBVIOUS
<1>2. IsCandles(other) /\ Calendar(other) = Calendar(candles)
  BY <1>1, AlteredIsCandles
<1>3. PICK slice : slice = SliceForWindow(candles, from, to, p.warm)
  OBVIOUS
<1>4. PICK cut : cut = SliceForWindow(other, from, to, p.warm)
  OBVIOUS
<1>5. IsCandles(slice) /\ IsCandles(cut)
  BY <1>2, <1>3, <1>4, SliceIsPart, PartIsCandles
<1>6. Calendar(cut) = Calendar(slice)
  BY <1>2, <1>3, <1>4, SliceCalendar
<1>7. ASSUME NEW d \in Nat, d <= day PROVE BarsOn(cut, d) = BarsOn(slice, d)
  <2>1. ASSUME NEW s \in Symbols
        PROVE  /\ DOMAIN cut[s] = DOMAIN slice[s]
               /\ d \in DOMAIN slice[s] => cut[s][d] = slice[s][d]
    <3>1. other[s] = [c \in DOMAIN candles[s] |-> IF c < day + 1 THEN candles[s][c] ELSE bar]
      BY <1>1 DEF Altered
    <3>2. DOMAIN other[s] = DOMAIN candles[s]
      BY <3>1
    <3>3. PICK T : T = {c \in DOMAIN candles[s] : LookbackStart(from, p.warm) <= c /\ c < to}
      OBVIOUS
    <3>4. slice[s] = [c \in T |-> candles[s][c]] /\ cut[s] = [c \in T |-> other[s][c]]
      BY <1>3, <1>4, <3>2, <3>3 DEF SliceForWindow, Restrict
    <3>5. d < day + 1
      BY <1>7
    <3>6. d \in T => other[s][d] = candles[s][d]
      BY <3>1, <3>3, <3>5
    <3> QED
      BY <3>4, <3>6
  <2> QED
    BY <2>1 DEF BarsOn
<1>8. Agreeing(cut, slice, day)
  BY <1>6, <1>7 DEF Agreeing
<1>9. UpTo(Run(p, cut, cash, NewBreaker).equity, day) = UpTo(Run(p, slice, cash, NewBreaker).equity, day)
  BY <1>5, <1>8, RunsAgree
<1>10. UpTo(SubRun(p, other, from, to, cash).equity, day)
         = {e \in UpTo(Run(p, cut, cash, NewBreaker).equity, day) : from <= e.day /\ e.day < to}
  BY <1>2, <1>4, SubRunUpTo
<1>11. UpTo(SubRun(p, candles, from, to, cash).equity, day)
         = {e \in UpTo(Run(p, slice, cash, NewBreaker).equity, day) : from <= e.day /\ e.day < to}
  BY <1>3, SubRunUpTo
<1> QED
  BY <1>1, <1>9, <1>10, <1>11

-----------------------------------------------------------------------------
(***************************************************************************)
(* The state of a walk through the windows                                 *)
(***************************************************************************)
WindowType == [trainStart : Nat, trainEnd : Nat, testStart : Nat, testEnd : Nat \ {0}]

\* The days of the test of a window.
DaysOf(candles, w) == Testing(candles, w.testStart, w.testEnd)

\* The cash that a curve ends with.
CashOf(equity) == IF equity = <<>> THEN InitialCash ELSE Last(equity).equity

IsResult(res) ==
  /\ \E S : res.windows \in Seq(S)
  /\ \A k \in DOMAIN res.windows : /\ res.windows[k].params \in Params
                                   /\ res.windows[k].equity \in Seq(Point)
  /\ res.equity \in Seq(Point)
  /\ res.trades \in Seq(Trade)
  /\ res.cash \in Int /\ res.cash = CashOf(res.equity)

\* The windows tested so far make one curve and one list of trades.
CurveOK(res, candles, windows) ==
  LET tested(k) == DaysOf(candles, windows[k])
      done == DOMAIN res.windows
  IN  /\ \A i \in DOMAIN res.equity : \E k \in done : res.equity[i].day \in tested(k)
      /\ \A i, j \in DOMAIN res.equity : i < j => res.equity[i].day < res.equity[j].day
      /\ \A k \in done : Warmed(candles, windows[k].testStart, res.windows[k].params.warm) =>
           \A d \in tested(k) : \E i \in DOMAIN res.equity : res.equity[i].day = d
      /\ \A i \in DOMAIN res.trades : \E k \in done : /\ res.trades[i].entered \in tested(k)
                                                      /\ res.trades[i].left < windows[k].testEnd
      /\ \A i, j \in DOMAIN res.trades :
           i < j /\ res.trades[i].symbol = res.trades[j].symbol
             => res.trades[i].left <= res.trades[j].entered

\* What the variables of the walk are, whatever the place.
WalkType ==
  /\ history \in Histories
  /\ chosen \in Params
  /\ IsResult(result)
  /\ commands \in 0 .. MaxCommands
  /\ pc \in {"idle", "decide", "recall", "view", "segment", "train", "test", "sweep", "verdict"}

\* Where the command is among its windows.
PlaceInv ==
  /\ pc \in {"idle", "decide", "recall", "view", "segment"} => result = NoResult
  /\ pc # "idle" => cmd.axes \in AxesChoices /\ commands > 0
  /\ looks > 0 => commands > 0
  /\ pc \in {"train", "test"} => Len(result.windows) < Len(Windows)
  /\ pc \in {"sweep", "verdict"} => Len(result.windows) = Len(Windows) /\ Windows # <<>>

\* What is tested next was picked for it.
PickInv == pc = "test" => chosen = SelectParams(Candles, cmd.axes, Window).params

\* What was tested last was a run from the cash before it.
TestInv ==
  LET k == Len(result.windows)
  IN  pc \in {"train", "sweep"} /\ k > 0 =>
        /\ CashOf(Before) \in Int
        /\ result.windows[k].equity =
             SubRun(chosen, Candles, Windows[k].testStart, Windows[k].testEnd, CashOf(Before)).equity

OneCurveInv ==
  pc \in {"train", "test", "sweep"} /\ TestDays <= StepDays => CurveOK(result, Candles, Windows)

WalkInv == WalkType /\ PlaceInv /\ PickInv /\ TestInv /\ OneCurveInv

-----------------------------------------------------------------------------
(***************************************************************************)
(* The windows of a segment                                                *)
(***************************************************************************)
LEMMA QuotientType == \A a \in Nat, b \in Nat \ {0} : a \div b \in Nat
  OBVIOUS

\* A window is tested where its training ends.
LEMMA WindowAtType ==
  ASSUME NEW start \in Nat
  PROVE  /\ WindowAt(start) \in WindowType
         /\ WindowAt(start).trainEnd = WindowAt(start).testStart
         /\ WindowAt(start).testStart = start + TrainDays
         /\ WindowAt(start).testEnd = start + TrainDays + TestDays
  BY WalkForwardAssumption DEF WindowAt, WindowType

\* n windows from a first day on.
Rolled(windows, first, n) ==
  windows = [k \in 1 .. n |-> WindowAt(first + (k - 1) * StepDays)]

\* Windows are laid out in steps from the first day on; there may be none.
LEMMA WindowsAreRolled ==
  ASSUME NEW calendar \in SUBSET Nat, IsFiniteSet(calendar)
  PROVE  \E first \in Nat, n \in Nat : Rolled(BuildWindows(calendar), first, n)
<1>1. PICK room : room = Max(calendar) - Min(calendar) - TrainDays - TestDays
  OBVIOUS
<1>2. CASE calendar = {} \/ room < 0
  <2>1. BuildWindows(calendar) = <<>>
    BY <1>1, <1>2 DEF BuildWindows
  <2>2. <<>> = [k \in 1 .. 0 |-> WindowAt(0 + (k - 1) * StepDays)]
    OBVIOUS
  <2> QED
    BY <2>1, <2>2 DEF Rolled
<1>3. CASE ~(calendar = {} \/ room < 0)
  <2>1. PICK first \in Nat : first = Min(calendar)
    BY <1>3, MinIsLeast
  <2>2. Max(calendar) \in Nat
    BY <1>3, MaxIsGreatest
  <2>3. room \in Nat
    BY <1>1, <1>3, <2>1, <2>2, WalkForwardAssumption
  <2>4. PICK n \in Nat : n = room \div StepDays + 1
    BY <2>3, QuotientType, WalkForwardAssumption
  <2>5. BuildWindows(calendar) = [k \in 1 .. n |-> WindowAt(first + (k - 1) * StepDays)]
    BY <1>1, <1>3, <2>1, <2>4 DEF BuildWindows
  <2> QED
    BY <2>5 DEF Rolled
<1> QED
  BY <1>2, <1>3

\* The windows are laid out in order; where the step is not shorter than the test, the next
\* test starts when the last one has ended.
LaidInOrder(windows) ==
  /\ Len(windows) \in Nat /\ DOMAIN windows = 1 .. Len(windows)
  /\ \A k \in 1 .. Len(windows) : /\ windows[k] \in WindowType
                                  /\ windows[k].trainEnd = windows[k].testStart
  /\ TestDays <= StepDays =>
       \A k, l \in 1 .. Len(windows) : k < l => windows[k].testEnd <= windows[l].testStart

\* They are in order, and tests not longer than a step do not overlap.
LEMMA WindowsInOrder ==
  ASSUME NEW calendar \in SUBSET Nat, IsFiniteSet(calendar)
  PROVE  LaidInOrder(BuildWindows(calendar))
<1>1. PICK windows : windows = BuildWindows(calendar)
  OBVIOUS
<1>2. PICK first \in Nat, n \in Nat : Rolled(windows, first, n)
  BY <1>1, WindowsAreRolled
<1>3. StepDays \in Nat /\ TestDays \in Nat /\ TrainDays \in Nat
  BY WalkForwardAssumption
<1>4. DOMAIN windows = 1 .. n /\ Len(windows) = n
  BY <1>2 DEF Rolled
<1>5. ASSUME NEW k \in 1 .. n
      PROVE  \E start \in Nat : start = first + (k - 1) * StepDays /\ windows[k] = WindowAt(start)
  <2>1. (k - 1) * StepDays \in Nat
    <3>1. k - 1 \in Nat
      OBVIOUS
    <3> QED
      BY <1>3, <3>1
  <2>2. windows[k] = WindowAt(first + (k - 1) * StepDays)
    BY <1>2 DEF Rolled
  <2> QED
    BY <2>1, <2>2
<1>6. \A k \in 1 .. n : windows[k] \in WindowType /\ windows[k].trainEnd = windows[k].testStart
  BY <1>5, WindowAtType
<1>7. ASSUME TestDays <= StepDays, NEW k \in 1 .. n, NEW l \in 1 .. n, k < l
      PROVE  windows[k].testEnd <= windows[l].testStart
  <2>1. PICK a \in Nat : a = first + (k - 1) * StepDays /\ windows[k] = WindowAt(a)
    BY <1>5
  <2>2. PICK b \in Nat : b = first + (l - 1) * StepDays /\ windows[l] = WindowAt(b)
    BY <1>5
  <2>3. PICK d \in Nat : l = k + 1 + d
    <3>1. l - k - 1 \in Nat /\ l = k + 1 + (l - k - 1)
      BY <1>7
    <3> QED
      BY <3>1
  <2>4. d * StepDays \in Nat /\ (k - 1) * StepDays \in Int
    BY <1>3
  <2>5. (l - 1) * StepDays = (k - 1) * StepDays + StepDays + d * StepDays
    BY <1>3, <2>3
  <2>6. a + StepDays <= b
    BY <1>3, <2>1, <2>2, <2>4, <2>5
  <2> QED
    BY <1>3, <1>7, <2>1, <2>2, <2>6, WindowAtType
<1>8. LaidInOrder(windows)
  BY <1>4, <1>6, <1>7 DEF LaidInOrder
<1> QED
  BY <1>1, <1>8

\* The parts of a concatenation of a and b elements.
Both(u, s, t, a, b) ==
  /\ DOMAIN s = 1 .. a /\ DOMAIN t = 1 .. b /\ DOMAIN u = 1 .. a + b /\ Len(u) = a + b
  /\ \A i \in 1 .. a : u[i] = s[i]
  /\ \A i \in 1 .. b : u[a + i] = t[i]
  /\ \A i \in DOMAIN u : i \in 1 .. a \/ \E j \in 1 .. b : i = a + j

LEMMA ConcatIsBoth ==
  ASSUME NEW S, NEW s \in Seq(S), NEW t \in Seq(S), NEW u, u = s \o t,
         NEW a \in Nat, a = Len(s), NEW b \in Nat, b = Len(t)
  PROVE  Both(u, s, t, a, b)
<1>1. DOMAIN s = 1 .. a /\ DOMAIN t = 1 .. b
  BY LenProperties
<1>2. /\ u \in Seq(S) /\ Len(u) = a + b
      /\ \A i \in 1 .. a + b : u[i] = IF i <= a THEN s[i] ELSE t[i - a]
  BY ConcatProperties
<1>3. DOMAIN u = 1 .. a + b
  BY <1>2, LenProperties
<1>4. \A i \in 1 .. a : u[i] = s[i]
  BY <1>2
<1>5. \A i \in 1 .. b : u[a + i] = t[i]
  <2> SUFFICES ASSUME NEW i \in 1 .. b PROVE u[a + i] = t[i]
    OBVIOUS
  <2>1. a + i \in 1 .. a + b /\ ~(a + i <= a) /\ a + i - a = i
    OBVIOUS
  <2> QED
    BY <1>2, <2>1
<1>6. ASSUME NEW i \in 1 .. a + b PROVE i \in 1 .. a \/ \E j \in 1 .. b : i = a + j
  <2>1. CASE i <= a
    BY <2>1
  <2>2. CASE i > a
    <3>1. i - a \in 1 .. b /\ i = a + (i - a)
      BY <2>2
    <3> QED
      BY <3>1
  <2> QED
    BY <2>1, <2>2
<1> QED
  BY <1>1, <1>2, <1>3, <1>4, <1>5, <1>6 DEF Both

-----------------------------------------------------------------------------
(***************************************************************************)
(* A result with one more window                                           *)
(***************************************************************************)
\* res goes on as next by a test with the parameters p: the curve and the trades of that
\* test come after those there are.
Grown(next, res, p, test) ==
  /\ \E x : x.params = p /\ x.equity = test.equity /\ next.windows = Append(res.windows, x)
  /\ next.equity = res.equity \o test.equity
  /\ next.trades = res.trades \o test.trades

\* The windows keep what they are, and the last one is new.
LEMMA WindowsGrow ==
  ASSUME NEW res, IsResult(res), NEW p \in Params, NEW test, test.equity \in Seq(Point),
         NEW next, Grown(next, res, p, test)
  PROVE  /\ \E S : next.windows \in Seq(S)
         /\ Len(res.windows) \in Nat /\ DOMAIN res.windows = 1 .. Len(res.windows)
         /\ Len(next.windows) = Len(res.windows) + 1
         /\ DOMAIN next.windows = 1 .. Len(res.windows) + 1
         /\ \A k \in 1 .. Len(res.windows) : next.windows[k] = res.windows[k]
         /\ next.windows[Len(res.windows) + 1].params = p
         /\ next.windows[Len(res.windows) + 1].equity = test.equity
<1>1. PICK S : res.windows \in Seq(S)
  BY DEF IsResult
<1>2. PICK x : x.params = p /\ x.equity = test.equity /\ next.windows = Append(res.windows, x)
  BY DEF Grown
<1>3. PICK old \in Seq(S \union {x}) : old = res.windows
  BY <1>1, SeqDef
<1>4. PICK n \in Nat : n = Len(old)
  BY LenProperties
<1>5. DOMAIN old = 1 .. n
  BY <1>4, LenProperties
<1>6. PICK new \in Seq(S \union {x}) : new = Append(old, x)
  BY AppendProperties
<1>7. /\ Len(new) = n + 1 /\ new[n + 1] = x
      /\ \A k \in 1 .. n : new[k] = old[k]
  BY <1>4, <1>6, AppendProperties
<1>8. DOMAIN new = 1 .. n + 1
  BY <1>7, LenProperties
<1>9. next.windows = new
  BY <1>2, <1>3, <1>6
<1> QED
  BY <1>2, <1>3, <1>4, <1>5, <1>6, <1>7, <1>8, <1>9

\* A result goes on as a result, and its cash is what the longer curve ends with.
LEMMA ResultGrows ==
  ASSUME NEW res, IsResult(res), NEW p \in Params, NEW test,
         test.equity \in Seq(Point), test.trades \in Seq(Trade),
         NEW next, Grown(next, res, p, test),
         next.cash = IF test.equity = <<>> THEN res.cash ELSE Last(test.equity).equity
  PROVE  IsResult(next)
<1>1. /\ next.equity \in Seq(Point) /\ next.trades \in Seq(Trade)
      /\ next.equity = res.equity \o test.equity
  BY ConcatProperties DEF Grown, IsResult
<1>2. \E S : next.windows \in Seq(S)
  BY WindowsGrow
<1>3. ASSUME NEW k \in DOMAIN next.windows
      PROVE  next.windows[k].params \in Params /\ next.windows[k].equity \in Seq(Point)
  <2>1. PICK n \in Nat : n = Len(res.windows)
    BY WindowsGrow
  <2>2. k \in 1 .. n \/ k = n + 1
    BY <2>1, WindowsGrow
  <2>3. CASE k \in 1 .. n
    <3>1. k \in DOMAIN res.windows /\ next.windows[k] = res.windows[k]
      BY <2>1, <2>3, WindowsGrow
    <3> QED
      BY <3>1 DEF IsResult
  <2>4. CASE k = n + 1
    BY <2>1, <2>4, WindowsGrow
  <2> QED
    BY <2>2, <2>3, <2>4
<1>4. next.cash \in Int /\ next.cash = CashOf(next.equity)
  <2>1. CASE test.equity = <<>>
    <3>1. next.equity = res.equity
      <4>1. PICK s \in Seq(Point) : s = res.equity
        BY DEF IsResult
      <4>2. s \o <<>> = s
        OBVIOUS
      <4> QED
        BY <1>1, <2>1, <4>1, <4>2
    <3> QED
      BY <2>1, <3>1 DEF IsResult
  <2>2. CASE test.equity # <<>>
    <3>1. PICK t \in Seq(Point), s \in Seq(Point) : t = test.equity /\ s = res.equity
      BY DEF IsResult
    <3>2. PICK u : u = s \o t
      OBVIOUS
    <3>3. PICK n \in Nat, m \in Nat : n = Len(s) /\ m = Len(t)
      BY LenProperties
    <3>4. m \in 1 .. m
      BY <2>2, <3>1, <3>3, EmptySeq
    <3>5. /\ Len(u) = n + m /\ u[n + m] = t[m]
      <4>1. Both(u, s, t, n, m)
        BY <3>2, <3>3, ConcatIsBoth
      <4> QED
        BY <3>4, <4>1 DEF Both
    <3>6. u # <<>>
      BY <3>4, <3>5
    <3>7. Last(u) = t[m] /\ Last(t) = t[m]
      BY <3>3, <3>5 DEF Last
    <3>8. t[m] \in Point
      BY <3>3, <3>4, ElementOfSeq
    <3>9. next.cash = t[m].equity /\ next.equity = u
      BY <1>1, <2>2, <3>1, <3>2, <3>7
    <3> QED
      BY <3>6, <3>7, <3>8, <3>9 DEF CashOf, Point
  <2> QED
    BY <2>1, <2>2
<1> QED
  BY <1>1, <1>2, <1>3, <1>4 DEF IsResult

\* A test behind the ones before it goes on with their curve.
LEMMA CurveGrows ==
  ASSUME NEW candles, IsCandles(candles), NEW windows, LaidInOrder(windows), TestDays <= StepDays,
         NEW res, IsResult(res), Len(res.windows) < Len(windows), CurveOK(res, candles, windows),
         NEW p \in Params, NEW w, w = windows[Len(res.windows) + 1],
         NEW test, SubRunOK(test, candles, w.testStart, w.testEnd, p.warm),
         NEW next, Grown(next, res, p, test)
  PROVE  CurveOK(next, candles, windows)
<1>1. test.equity \in Seq(Point) /\ test.trades \in Seq(Trade)
  BY DEF SubRunOK
<1>2. PICK n \in Nat : n = Len(res.windows)
  BY <1>1, WindowsGrow
<1>3. /\ DOMAIN res.windows = 1 .. n /\ DOMAIN next.windows = 1 .. n + 1
      /\ \A k \in 1 .. n : next.windows[k] = res.windows[k]
      /\ next.windows[n + 1].params = p
  BY <1>1, <1>2, WindowsGrow
<1>4. \A k \in 1 .. n : k \in DOMAIN next.windows /\ k \in DOMAIN res.windows
  BY <1>3
<1>5. n + 1 \in DOMAIN next.windows /\ w = windows[n + 1]
  BY <1>2, <1>3
<1>6. w.testStart \in Nat /\ \A k \in 1 .. n : windows[k].testEnd \in Nat /\ windows[k].testEnd <= w.testStart
  <2>1. PICK m \in Nat : m = Len(windows)
    BY DEF LaidInOrder
  <2>2. n < m
    BY <1>2, <2>1
  <2>3. n + 1 \in 1 .. m /\ \A k \in 1 .. n : k \in 1 .. m /\ k < n + 1
    BY <2>2
  <2>4. w \in WindowType /\ \A k \in 1 .. n : windows[k] \in WindowType
    BY <1>5, <2>1, <2>3 DEF LaidInOrder
  <2> QED
    BY <1>5, <2>1, <2>3, <2>4 DEF LaidInOrder, WindowType
<1>7. PICK s \in Seq(Point), t \in Seq(Point) : s = res.equity /\ t = test.equity
  BY <1>1 DEF IsResult
<1>8. PICK u : u = s \o t
  OBVIOUS
<1>9. PICK a \in Nat, b \in Nat : a = Len(s) /\ b = Len(t)
  BY LenProperties
<1>10. /\ next.equity = u
       /\ DOMAIN s = 1 .. a /\ DOMAIN t = 1 .. b /\ DOMAIN u = 1 .. a + b
       /\ \A i \in 1 .. a : u[i] = s[i]
       /\ \A i \in 1 .. b : u[a + i] = t[i]
       /\ \A i \in DOMAIN u : i \in 1 .. a \/ \E j \in 1 .. b : i = a + j
  <2>1. next.equity = u
    BY <1>7, <1>8 DEF Grown
  <2>2. Both(u, s, t, a, b)
    BY <1>8, <1>9, ConcatIsBoth
  <2> QED
    BY <2>1, <2>2 DEF Both
<1>11. Calendar(candles) \subseteq Nat
  BY CalendarType
<1>12. ASSUME NEW i \in 1 .. a PROVE \E k \in 1 .. n : s[i].day \in DaysOf(candles, windows[k])
  BY <1>3, <1>7, <1>10 DEF CurveOK
<1>13. ASSUME NEW j \in 1 .. b PROVE t[j].day \in DaysOf(candles, w)
  BY <1>7, <1>10 DEF SubRunOK, DaysOf
<1>14. \A i \in DOMAIN u : \E k \in DOMAIN next.windows : u[i].day \in DaysOf(candles, windows[k])
  <2> SUFFICES ASSUME NEW i \in DOMAIN u
               PROVE  \E k \in DOMAIN next.windows : u[i].day \in DaysOf(candles, windows[k])
    OBVIOUS
  <2>1. CASE i \in 1 .. a
    <3>1. PICK k \in 1 .. n : s[i].day \in DaysOf(candles, windows[k])
      BY <1>12, <2>1
    <3> QED
      BY <1>4, <1>10, <2>1, <3>1
  <2>2. ASSUME NEW j \in 1 .. b, i = a + j
        PROVE  \E k \in DOMAIN next.windows : u[i].day \in DaysOf(candles, windows[k])
    BY <1>5, <1>10, <1>13, <2>2
  <2> QED
    BY <1>10, <2>1, <2>2
<1>15. \A i, j \in DOMAIN u : i < j => u[i].day < u[j].day
  <2> SUFFICES ASSUME NEW i \in DOMAIN u, NEW j \in DOMAIN u, i < j PROVE u[i].day < u[j].day
    OBVIOUS
  <2>1. CASE i \in 1 .. a /\ j \in 1 .. a
    <3>1. s[i].day < s[j].day
      BY <1>7, <1>10, <2>1 DEF CurveOK
    <3> QED
      BY <1>10, <2>1, <3>1
  <2>2. ASSUME i \in 1 .. a, NEW l \in 1 .. b, j = a + l PROVE u[i].day < u[j].day
    <3>1. PICK k \in 1 .. n : s[i].day \in DaysOf(candles, windows[k])
      BY <1>12, <2>2
    <3>2. s[i].day \in Nat /\ s[i].day < windows[k].testEnd
      BY <1>11, <3>1 DEF DaysOf, Testing
    <3>3. t[l].day \in Nat /\ w.testStart <= t[l].day
      BY <1>11, <1>13 DEF DaysOf, Testing
    <3>4. s[i].day < t[l].day
      BY <1>6, <3>2, <3>3
    <3> QED
      BY <1>10, <2>2, <3>4
  <2>3. ASSUME NEW k \in 1 .. b, i = a + k, NEW l \in 1 .. b, j = a + l PROVE u[i].day < u[j].day
    <3>1. k < l
      BY <2>3
    <3>2. t[k].day < t[l].day
      BY <1>7, <1>10, <3>1 DEF SubRunOK
    <3> QED
      BY <1>10, <2>3, <3>2
  <2>4. ASSUME NEW k \in 1 .. b, i = a + k PROVE ~(j \in 1 .. a)
    BY <2>4
  <2> QED
    BY <1>10, <2>1, <2>2, <2>3, <2>4
<1>16. ASSUME NEW k \in DOMAIN next.windows,
              Warmed(candles, windows[k].testStart, next.windows[k].params.warm),
              NEW d \in DaysOf(candles, windows[k])
       PROVE  \E i \in DOMAIN u : u[i].day = d
  <2>1. CASE k \in 1 .. n
    <3>1. PICK i \in 1 .. a : s[i].day = d
      BY <1>3, <1>7, <1>10, <1>16, <2>1 DEF CurveOK
    <3>2. i \in 1 .. a + b
      OBVIOUS
    <3> QED
      BY <1>10, <3>1, <3>2
  <2>2. CASE k = n + 1
    <3>1. Warmed(candles, w.testStart, p.warm) /\ d \in Testing(candles, w.testStart, w.testEnd)
      BY <1>3, <1>5, <1>16, <2>2 DEF DaysOf
    <3>2. PICK j \in 1 .. b : t[j].day = d
      BY <1>7, <1>10, <3>1 DEF SubRunOK
    <3>3. a + j \in 1 .. a + b
      OBVIOUS
    <3> QED
      BY <1>10, <3>2, <3>3
  <2> QED
    BY <1>3, <2>1, <2>2
<1>17. PICK f \in Seq(Trade), g \in Seq(Trade) : f = res.trades /\ g = test.trades
  BY <1>1 DEF IsResult
<1>18. PICK h : h = f \o g
  OBVIOUS
<1>19. PICK c \in Nat, e \in Nat : c = Len(f) /\ e = Len(g)
  BY LenProperties
<1>20. /\ next.trades = h
       /\ DOMAIN f = 1 .. c /\ DOMAIN g = 1 .. e /\ DOMAIN h = 1 .. c + e
       /\ \A i \in 1 .. c : h[i] = f[i]
       /\ \A i \in 1 .. e : h[c + i] = g[i]
       /\ \A i \in DOMAIN h : i \in 1 .. c \/ \E j \in 1 .. e : i = c + j
  <2>1. next.trades = h
    BY <1>17, <1>18 DEF Grown
  <2>2. Both(h, f, g, c, e)
    BY <1>18, <1>19, ConcatIsBoth
  <2> QED
    BY <2>1, <2>2 DEF Both
<1>21. ASSUME NEW i \in 1 .. c
       PROVE  \E k \in 1 .. n : f[i].entered \in DaysOf(candles, windows[k]) /\ f[i].left < windows[k].testEnd
  BY <1>3, <1>17, <1>20 DEF CurveOK
<1>22. ASSUME NEW j \in 1 .. e
       PROVE  g[j].entered \in DaysOf(candles, w) /\ g[j].left < w.testEnd
  BY <1>17, <1>20 DEF SubRunOK, DaysOf
<1>23. \A i \in DOMAIN h : \E k \in DOMAIN next.windows :
         h[i].entered \in DaysOf(candles, windows[k]) /\ h[i].left < windows[k].testEnd
  <2> SUFFICES ASSUME NEW i \in DOMAIN h
               PROVE  \E k \in DOMAIN next.windows :
                        h[i].entered \in DaysOf(candles, windows[k]) /\ h[i].left < windows[k].testEnd
    OBVIOUS
  <2>1. CASE i \in 1 .. c
    <3>1. PICK k \in 1 .. n : f[i].entered \in DaysOf(candles, windows[k]) /\ f[i].left < windows[k].testEnd
      BY <1>21, <2>1
    <3> QED
      BY <1>4, <1>20, <2>1, <3>1
  <2>2. ASSUME NEW j \in 1 .. e, i = c + j
        PROVE  \E k \in DOMAIN next.windows :
                 h[i].entered \in DaysOf(candles, windows[k]) /\ h[i].left < windows[k].testEnd
    BY <1>5, <1>20, <1>22, <2>2
  <2> QED
    BY <1>20, <2>1, <2>2
<1>24. ASSUME NEW i \in DOMAIN h, NEW j \in DOMAIN h, i < j, h[i].symbol = h[j].symbol
       PROVE  h[i].left <= h[j].entered
  <2>1. CASE i \in 1 .. c /\ j \in 1 .. c
    <3>1. f[i].left <= f[j].entered
      BY <1>17, <1>20, <1>24, <2>1 DEF CurveOK
    <3> QED
      BY <1>20, <2>1, <3>1
  <2>2. ASSUME i \in 1 .. c, NEW l \in 1 .. e, j = c + l PROVE h[i].left <= h[j].entered
    <3>1. PICK k \in 1 .. n : f[i].entered \in DaysOf(candles, windows[k]) /\ f[i].left < windows[k].testEnd
      BY <1>21, <2>2
    <3>2. f[i].left \in Nat
      BY <1>19, <2>2, TradesAreTyped, <1>20
    <3>3. g[l].entered \in Nat /\ w.testStart <= g[l].entered
      BY <1>11, <1>22 DEF DaysOf, Testing
    <3>4. windows[k].testEnd \in Nat /\ windows[k].testEnd <= w.testStart
      BY <1>6
    <3>5. \A x, y, z, v \in Nat : x < y /\ y <= z /\ z <= v => x <= v
      OBVIOUS
    <3>6. f[i].left <= g[l].entered
      BY <1>6, <3>1, <3>2, <3>3, <3>4, <3>5, Zenon
    <3> QED
      BY <1>20, <2>2, <3>6
  <2>3. ASSUME NEW k \in 1 .. e, i = c + k, NEW l \in 1 .. e, j = c + l PROVE h[i].left <= h[j].entered
    <3>1. k < l
      BY <1>24, <2>3
    <3>2. g[k].symbol = g[l].symbol
      BY <1>20, <1>24, <2>3
    <3>3. g[k].left <= g[l].entered
      BY <1>17, <1>20, <3>1, <3>2 DEF SubRunOK
    <3> QED
      BY <1>20, <2>3, <3>3
  <2>4. ASSUME NEW k \in 1 .. e, i = c + k PROVE ~(j \in 1 .. c)
    BY <1>24, <2>4
  <2> QED
    BY <1>20, <2>1, <2>2, <2>3, <2>4
<1> QED
  BY <1>10, <1>14, <1>15, <1>16, <1>20, <1>23, <1>24 DEF CurveOK

-----------------------------------------------------------------------------
(***************************************************************************)
(* The steps of a command                                                  *)
(***************************************************************************)
\* Taking the second part off a concatenation leaves the first.
LEMMA ConcatFront ==
  ASSUME NEW S, NEW s \in Seq(S), NEW t \in Seq(S), NEW u, u = s \o t
  PROVE  SubSeq(u, 1, Len(u) - Len(t)) = s
<1>1. PICK a \in Nat, b \in Nat : a = Len(s) /\ b = Len(t)
  BY LenProperties
<1>2. Len(u) = a + b
  BY <1>1, ConcatProperties
<1>3. Len(u) - Len(t) = a
  BY <1>1, <1>2
<1>4. SubSeq(u, 1, a) = s
  <2>1. CASE a = 0
    <3>1. SubSeq(u, 1, 0) = <<>>
      BY SubSeqEmpty
    <3>2. s = <<>>
      BY <1>1, <2>1, EmptySeq
    <3> QED
      BY <2>1, <3>1, <3>2
  <2>2. CASE a # 0
    <3>1. 1 \in 1 .. Len(s) /\ a \in 1 .. Len(s)
      BY <1>1, <2>2
    <3>2. SubSeq(s \o t, 1, a) = SubSeq(s, 1, a)
      BY <3>1, SubSeqOfConcat1
    <3>3. SubSeq(s, 1, Len(s)) = s
      BY SubSeqFull
    <3> QED
      BY <1>1, <3>2, <3>3
  <2> QED
    BY <2>1, <2>2
<1> QED
  BY <1>3, <1>4

\* The segment of a command has candles, and its windows are in order.
LEMMA CandlesType ==
  ASSUME history \in Histories
  PROVE  IsCandles(Candles) /\ Calendar(Candles) \in SUBSET Nat /\ LaidInOrder(Windows)
<1>1. PICK h : h = history
  OBVIOUS
<1>2. PICK candles : candles = Candles
  OBVIOUS
<1>3. IsCandles(h)
  BY <1>1, WalkForwardAssumption DEF IsCandles
<1>4. candles = Segment(h, cmd.locked)
  BY <1>1, <1>2 DEF Candles
<1>5. IsCandles(candles)
  BY <1>3, <1>4, SegmentIsPart, PartIsCandles
<1>6. Calendar(candles) \in SUBSET Nat /\ IsFiniteSet(Calendar(candles))
  BY <1>5, CalendarType
<1>7. LaidInOrder(BuildWindows(Calendar(candles)))
  BY <1>6, WindowsInOrder
<1> QED
  BY <1>2, <1>5, <1>6, <1>7 DEF Windows

\* Without a window there is no point and no trade, and the cash is the initial one.
LEMMA NoResultIsResult == IsResult(NoResult) /\ NoResult.windows = <<>> /\ Len(NoResult.windows) = 0
<1>1. /\ NoResult.windows = <<>> /\ NoResult.equity = <<>> /\ NoResult.trades = <<>>
      /\ NoResult.cash = InitialCash
  BY DEF NoResult
<1>2. <<>> \in Seq({}) /\ <<>> \in Seq(Point) /\ <<>> \in Seq(Trade) /\ Len(<<>>) = 0 /\ DOMAIN <<>> = {}
  BY EmptySeq
<1>3. InitialCash \in Int
  BY BookAssumption
<1>4. \E S : NoResult.windows \in Seq(S)
  BY <1>1, <1>2, Zenon
<1> QED
  BY <1>1, <1>2, <1>3, <1>4 DEF IsResult, CashOf

LEMMA NoResultIsCurve ==
  ASSUME NEW candles, NEW windows
  PROVE  CurveOK(NoResult, candles, windows)
<1>1. /\ DOMAIN NoResult.windows = {} /\ DOMAIN NoResult.equity = {} /\ DOMAIN NoResult.trades = {}
  BY EmptySeq DEF NoResult
<1> QED
  BY <1>1 DEF CurveOK

\* The walk holds before the first command.
LEMMA InitWalk == Init => WalkInv
<1> SUFFICES ASSUME Init PROVE WalkInv
  OBVIOUS
<1>1. /\ history \in Histories /\ chosen = Configured /\ result = NoResult
      /\ commands = 0 /\ looks = 0 /\ pc = "idle"
  BY DEF Init
<1>2. Configured \in Params /\ MaxCommands \in Nat
  BY WalkForwardAssumption
<1>3. WalkType
  BY <1>1, <1>2, NoResultIsResult DEF WalkType
<1>4. PlaceInv /\ PickInv /\ TestInv /\ OneCurveInv
  BY <1>1 DEF PlaceInv, PickInv, TestInv, OneCurveInv
<1> QED
  BY <1>3, <1>4 DEF WalkInv

\* Steps that leave the segment alone.
LEMMA SameSegment ==
  ASSUME history' = history, cmd'.locked = cmd.locked
  PROVE  Candles' = Candles /\ Windows' = Windows
  BY DEF Candles, Windows

\* Before its first window a command has no result.
LEMMA EarlyWalk ==
  ASSUME WalkInv, history' = history, chosen' \in Params, result' = NoResult,
         commands' \in 0 .. MaxCommands,
         pc' \in {"idle", "decide", "recall", "view", "segment"},
         pc' # "idle" => cmd'.axes \in AxesChoices /\ commands' > 0,
         looks' > 0 => commands' > 0
  PROVE  WalkInv'
<1>1. WalkType'
  BY NoResultIsResult DEF WalkInv, WalkType
<1>2. PlaceInv' /\ PickInv' /\ TestInv' /\ OneCurveInv'
  BY DEF PlaceInv, PickInv, TestInv, OneCurveInv
<1> QED
  BY <1>1, <1>2 DEF WalkInv

\* A command starts without a result.
LEMMA StartCommandWalk ==
  ASSUME IInv, WalkInv, NEW c \in Commands, StartCommand(c)
  PROVE  WalkInv'
<1>1. /\ history' = history /\ chosen' = chosen /\ result' = NoResult
      /\ cmd' = c /\ commands' = commands + 1 /\ commands < MaxCommands
      /\ pc' \in {"decide", "recall"}
  BY DEF StartCommand
<1>2. chosen \in Params /\ commands \in 0 .. MaxCommands /\ MaxCommands \in Nat
  BY WalkForwardAssumption DEF WalkInv, WalkType
<1>3. c.axes \in AxesChoices
  BY DEF Commands
<1>4. commands' \in 0 .. MaxCommands /\ commands' > 0
  BY <1>1, <1>2
<1> QED
  BY <1>1, <1>2, <1>3, <1>4, EarlyWalk

\* Whatever ends a command forgets its result.
LEMMA IdleWalk ==
  ASSUME WalkInv, pc # "idle", Idle, history' = history, commands' = commands
  PROVE  WalkInv'
<1>1. /\ chosen' = Configured /\ result' = NoResult /\ pc' = "idle"
  BY DEF Idle
<1>2. Configured \in Params /\ commands \in 0 .. MaxCommands /\ MaxCommands \in Nat
  BY WalkForwardAssumption DEF WalkInv, WalkType
<1>3. commands > 0
  BY DEF WalkInv, PlaceInv
<1> QED
  BY <1>1, <1>2, <1>3, EarlyWalk

\* The steps before the windows are laid out keep the flags but for the thresholds.
LEMMA GradedWalk ==
  ASSUME IInv, WalkInv, DecideThresholds \/ RecallThresholds \/ ViewLockedSegment
  PROVE  WalkInv'
<1>1. /\ pc \in {"decide", "recall", "view"} /\ pc' \in {"view", "segment"}
      /\ UNCHANGED <<history, chosen, result, commands, looks>>
      /\ \/ cmd' = cmd \/ \E min : cmd' = [cmd EXCEPT !.min = min]
  BY DEF DecideThresholds, RecallThresholds, ViewLockedSegment, storeVars
<1>2. cmd'.axes = cmd.axes
  BY <1>1 DEF IInv, FlagsOK, Flags
<1>3. /\ chosen \in Params /\ commands \in 0 .. MaxCommands
      /\ result = NoResult /\ cmd.axes \in AxesChoices /\ commands > 0
  BY <1>1 DEF WalkInv, WalkType, PlaceInv
<1> QED
  BY <1>1, <1>2, <1>3, EarlyWalk

\* The first window exists when there are windows, and nothing was tested yet.
LEMMA BeginWalk ==
  ASSUME WalkInv, Begin
  PROVE  WalkInv'
<1>1. /\ pc = "segment" /\ pc' = "train" /\ Windows # <<>>
      /\ UNCHANGED <<history, cmd, chosen, result, commands, looks>>
  BY DEF Begin, LaidOut, storeVars
<1>2. result = NoResult /\ cmd.axes \in AxesChoices /\ commands > 0
  BY <1>1 DEF WalkInv, PlaceInv
<1>3. Candles' = Candles /\ Windows' = Windows
  BY <1>1, SameSegment
<1>4. Len(result.windows) = 0
  BY <1>2, NoResultIsResult
<1>5. Len(Windows) \in Nat /\ Len(Windows) # 0
  <2>1. PICK first \in Nat, n \in Nat : Rolled(Windows, first, n)
    BY CandlesType, CalendarType, WindowsAreRolled DEF Windows, WalkInv, WalkType
  <2>2. Len(Windows) = n
    BY <2>1 DEF Rolled
  <2>3. CASE n = 0
    <3>1. Windows = [k \in 1 .. 0 |-> WindowAt(first + (k - 1) * StepDays)]
      BY <2>1, <2>3 DEF Rolled
    <3>2. Windows = <<>>
      BY <3>1
    <3> QED
      BY <1>1, <3>2
  <2> QED
    BY <2>2, <2>3
<1>6. WalkType'
  BY <1>1 DEF WalkInv, WalkType
<1>7. PlaceInv'
  BY <1>1, <1>2, <1>3, <1>4, <1>5 DEF PlaceInv
<1>8. PickInv' /\ TestInv'
  BY <1>1, <1>4 DEF PickInv, TestInv
<1>9. OneCurveInv'
  <2>1. result' = NoResult
    BY <1>1, <1>2
  <2> QED
    BY <2>1, NoResultIsCurve DEF OneCurveInv
<1> QED
  BY <1>6, <1>7, <1>8, <1>9 DEF WalkInv

\* What is picked for a window is picked from its training.
LEMMA TrainWalk ==
  ASSUME WalkInv, Train
  PROVE  WalkInv'
<1>1. /\ pc = "train" /\ pc' = "test"
      /\ chosen' = SelectParams(Candles, cmd.axes, Window).params
      /\ UNCHANGED <<history, cmd, result, commands, looks>>
  BY DEF Train, storeVars
<1>2. Candles' = Candles /\ Windows' = Windows /\ Window' = Window
  BY <1>1, SameSegment DEF Window
<1>3. /\ cmd.axes \in AxesChoices /\ commands > 0
      /\ Len(result.windows) < Len(Windows)
  BY <1>1 DEF WalkInv, PlaceInv
<1>4. chosen' \in Params
  <2>1. PICK candles, axes, w : candles = Candles /\ axes = cmd.axes /\ w = Window
    OBVIOUS
  <2>2. axes \in Seq(Axis)
    BY <1>3, <2>1, WalkForwardAssumption
  <2>3. SelectParams(candles, axes, w).params \in Params
    BY <2>2, SelectParamsType
  <2> QED
    BY <1>1, <2>1, <2>3
<1>5. WalkType'
  BY <1>1, <1>4 DEF WalkInv, WalkType
<1>6. PlaceInv'
  BY <1>1, <1>2, <1>3 DEF PlaceInv
<1>7. PickInv' /\ TestInv'
  BY <1>1, <1>2 DEF PickInv, TestInv
<1>8. OneCurveInv'
  BY <1>1, <1>2 DEF OneCurveInv, WalkInv
<1> QED
  BY <1>5, <1>6, <1>7, <1>8 DEF WalkInv

\* The sweep starts after the last window.
LEMMA SweepWalk ==
  ASSUME WalkInv, Sweep
  PROVE  WalkInv'
<1>1. /\ pc = "sweep" /\ pc' = "verdict"
      /\ UNCHANGED <<history, cmd, chosen, result, commands, looks>>
  BY DEF Sweep, storeVars
<1>2. Candles' = Candles /\ Windows' = Windows
  BY <1>1, SameSegment
<1>3. WalkType'
  BY <1>1 DEF WalkInv, WalkType
<1>4. PlaceInv'
  BY <1>1, <1>2 DEF PlaceInv, WalkInv
<1>5. PickInv' /\ TestInv' /\ OneCurveInv'
  BY <1>1 DEF PickInv, TestInv, OneCurveInv
<1> QED
  BY <1>3, <1>4, <1>5 DEF WalkInv

\* A stutter changes nothing.
LEMMA SameWalk ==
  ASSUME WalkInv, UNCHANGED vars
  PROVE  WalkInv'
<1>1. UNCHANGED <<history, pc, cmd, chosen, result, commands, looks>>
  BY DEF vars
<1>2. Candles' = Candles /\ Windows' = Windows /\ Window' = Window /\ Before' = Before
  BY <1>1, SameSegment DEF Window, Before
<1>3. WalkType' /\ PlaceInv' /\ PickInv'
  BY <1>1, <1>2 DEF WalkInv, WalkType, PlaceInv, PickInv
<1>4. TestInv' /\ OneCurveInv'
  BY <1>1, <1>2 DEF WalkInv, TestInv, OneCurveInv
<1> QED
  BY <1>3, <1>4 DEF WalkInv

\* A test goes on with the result by what its run gave.
LEMMA TestWalk ==
  ASSUME WalkInv, Test
  PROVE  WalkInv'
<1>1. /\ pc = "test"
      /\ UNCHANGED <<history, cmd, chosen, commands, looks>>
      /\ pc' = IF Len(result'.windows) < Len(Windows) THEN "train" ELSE "sweep"
      /\ result' = Chained(SubRun(chosen, Candles, Window.testStart, Window.testEnd, result.cash))
  BY DEF Test, storeVars
<1>2. Candles' = Candles /\ Windows' = Windows
  BY <1>1, SameSegment
<1>3. /\ chosen \in Params /\ IsResult(result) /\ result.cash \in Int
      /\ cmd.axes \in AxesChoices /\ commands > 0
      /\ Len(result.windows) < Len(Windows)
  BY <1>1 DEF WalkInv, WalkType, PlaceInv, IsResult
<1>4. IsCandles(Candles) /\ LaidInOrder(Windows)
  BY CandlesType DEF WalkInv, WalkType
<1>5. PICK test : test = SubRun(chosen, Candles, Window.testStart, Window.testEnd, result.cash)
  OBVIOUS
<1>6. PICK n \in Nat : n = Len(result.windows)
  <2>1. PICK S : result.windows \in Seq(S)
    BY <1>3 DEF IsResult
  <2> QED
    BY <2>1, LenProperties
<1>7. Window = Windows[n + 1] /\ Window.testStart \in Nat /\ Window.testEnd \in Nat \ {0}
  <2>1. PICK m \in Nat : m = Len(Windows)
    BY <1>4 DEF LaidInOrder
  <2>2. n + 1 \in 1 .. m
    BY <1>3, <1>6, <2>1
  <2>3. Windows[n + 1] \in WindowType
    BY <1>4, <2>1, <2>2 DEF LaidInOrder
  <2> QED
    BY <1>6, <2>3 DEF Window, WindowType
<1>8. SubRunOK(test, Candles, Window.testStart, Window.testEnd, chosen.warm)
  BY <1>3, <1>4, <1>5, <1>7, SubRunIsOK
<1>9. test.equity \in Seq(Point) /\ test.trades \in Seq(Trade)
  BY <1>8 DEF SubRunOK
<1>10. PICK x : x = WindowResult(test.equity, BenchmarkCurve(test.equity))
  OBVIOUS
<1>11. x.params = chosen /\ x.equity = test.equity
  BY <1>10 DEF WindowResult
<1>12. /\ result'.windows = Append(result.windows, x)
       /\ result'.equity = result.equity \o test.equity
       /\ result'.trades = result.trades \o test.trades
       /\ result'.cash = IF test.equity = <<>> THEN result.cash ELSE Last(test.equity).equity
  BY <1>1, <1>5, <1>10 DEF Chained
<1>13. Grown(result', result, chosen, test)
  BY <1>11, <1>12 DEF Grown
<1>14. IsResult(result')
  BY <1>3, <1>9, <1>12, <1>13, ResultGrows
<1>15. /\ Len(result'.windows) = n + 1
       /\ result'.windows[n + 1].equity = test.equity
  BY <1>3, <1>6, <1>9, <1>13, WindowsGrow
<1>16. WalkType'
  BY <1>1, <1>14 DEF WalkInv, WalkType
<1>17. PlaceInv'
  <2>1. PICK m \in Nat : m = Len(Windows)
    BY <1>4 DEF LaidInOrder
  <2>2. CASE n + 1 < m
    <3>1. pc' = "train"
      BY <1>1, <1>15, <2>1, <2>2
    <3> QED
      BY <1>1, <1>2, <1>3, <1>15, <2>1, <2>2, <3>1 DEF PlaceInv
  <2>3. CASE ~(n + 1 < m)
    <3>1. pc' = "sweep" /\ n + 1 = m
      BY <1>1, <1>3, <1>6, <1>15, <2>1, <2>3
    <3>2. Windows # <<>>
      BY <2>1, <3>1, EmptySeq
    <3> QED
      BY <1>1, <1>2, <1>3, <1>15, <2>1, <3>1, <3>2 DEF PlaceInv
  <2> QED
    BY <2>2, <2>3
<1>18. PickInv'
  BY <1>1 DEF PickInv
<1>19. TestInv'
  <2>1. Before' = result.equity
    <3>1. PICK s \in Seq(Point), t \in Seq(Point) : s = result.equity /\ t = test.equity
      BY <1>3, <1>9 DEF IsResult
    <3>2. PICK u : u = result'.equity
      OBVIOUS
    <3>3. SubSeq(u, 1, Len(u) - Len(t)) = s
      BY <1>12, <3>1, <3>2, ConcatFront
    <3>4. Before' = SubSeq(u, 1, Len(u) - Len(t))
      BY <1>15, <3>1, <3>2 DEF Before
    <3> QED
      BY <3>1, <3>3, <3>4
  <2>2. CashOf(Before') = result.cash /\ CashOf(Before') \in Int
    BY <1>3, <2>1 DEF IsResult
  <2>3. result'.windows[n + 1].equity
          = SubRun(chosen', Candles', Windows'[n + 1].testStart, Windows'[n + 1].testEnd, CashOf(Before')).equity
    BY <1>1, <1>2, <1>5, <1>7, <1>15, <2>2
  <2> QED
    BY <1>15, <2>2, <2>3 DEF TestInv
<1>20. OneCurveInv'
  <2> SUFFICES ASSUME TestDays <= StepDays PROVE CurveOK(result', Candles', Windows')
    BY DEF OneCurveInv
  <2>1. CurveOK(result, Candles, Windows)
    BY <1>1 DEF WalkInv, OneCurveInv
  <2>2. PICK candles, windows, res, next, w, p :
          /\ candles = Candles /\ windows = Windows /\ res = result /\ next = result'
          /\ w = Window /\ p = chosen
    OBVIOUS
  <2>3. w = windows[Len(res.windows) + 1]
    BY <2>2 DEF Window
  <2>4. /\ IsCandles(candles) /\ LaidInOrder(windows) /\ IsResult(res)
        /\ Len(res.windows) < Len(windows) /\ CurveOK(res, candles, windows) /\ p \in Params
        /\ SubRunOK(test, candles, w.testStart, w.testEnd, p.warm) /\ Grown(next, res, p, test)
    BY <1>3, <1>4, <1>8, <1>13, <2>1, <2>2
  <2>5. CurveOK(next, candles, windows)
    BY <2>3, <2>4, CurveGrows
  <2> QED
    BY <1>2, <2>2, <2>5
<1> QED
  BY <1>16, <1>17, <1>18, <1>19, <1>20 DEF WalkInv

\* The walk through the windows, at every step of every command.
THEOREM WalkInductive == Spec => []WalkInv
<1>1. IInv /\ WalkInv /\ [Next]_vars => WalkInv'
  <2> SUFFICES ASSUME IInv, WalkInv, [Next]_vars PROVE WalkInv'
    OBVIOUS
  <2>1. CASE UNCHANGED vars
    BY <2>1, SameWalk
  <2>2. ASSUME NEW c \in Commands, StartCommand(c) PROVE WalkInv'
    BY <2>2, StartCommandWalk
  <2>3. CASE Abort
    BY <2>3, IdleWalk DEF Abort
  <2>4. CASE DecideThresholds \/ RecallThresholds \/ ViewLockedSegment
    BY <2>4, GradedWalk
  <2>5. CASE Begin
    BY <2>5, BeginWalk
  <2>6. CASE Train
    BY <2>6, TrainWalk
  <2>7. CASE Test
    BY <2>7, TestWalk
  <2>8. CASE Sweep
    BY <2>8, SweepWalk
  <2>9. ASSUME NEW positive \in BOOLEAN, Report(positive) PROVE WalkInv'
    BY <2>9, IdleWalk DEF Report
  <2> QED
    BY <2>1, <2>2, <2>3, <2>4, <2>5, <2>6, <2>7, <2>8, <2>9 DEF Next
<1> QED
  BY InitWalk, <1>1, Inductive, PTL DEF Spec

-----------------------------------------------------------------------------
\* Every variable has its type, and no window is trained, tested or swept that does not exist.
THEOREM TypeCorrect == Spec => []TypeOK
<1>1. IInv /\ WalkInv => TypeOK
  <2> SUFFICES ASSUME IInv, WalkInv PROVE TypeOK
    OBVIOUS
  <2>1. {thresholds, lockedView} \subseteq MinTradesChoices \union {NoRecord}
    BY DEF IInv, FlagsOK, RowsInv
  <2>2. DOMAIN chosen = DOMAIN Configured
    BY WalkForwardAssumption DEF WalkInv, WalkType, Params
  <2>3. {looks, commands} \subseteq 0 .. MaxCommands
    <3>1. /\ looks \in Nat /\ looks <= 1 /\ commands \in 0 .. MaxCommands
          /\ looks > 0 => commands > 0
      BY DEF IInv, FlagsOK, ReportInv, WalkInv, WalkType, PlaceInv
    <3> QED
      BY <3>1, WalkForwardAssumption
  <2>4. /\ cmd \in [locked : BOOLEAN, force : BOOLEAN, min : MinTradesChoices \union {0},
                    axes : AxesChoices \union {<<>>}]
        /\ warned \in BOOLEAN
    BY DEF IInv, FlagsOK, Flags
  <2>5. /\ history \in Histories
        /\ pc \in {"idle", "decide", "recall", "view", "segment", "train", "test", "sweep", "verdict"}
        /\ result.cash \in Int
        /\ pc \in {"train", "test"} => Len(result.windows) < Len(Windows)
        /\ pc \in {"sweep", "verdict"} => Len(result.windows) = Len(Windows) /\ Windows # <<>>
    BY DEF WalkInv, WalkType, PlaceInv, IsResult
  <2> QED
    BY <2>1, <2>2, <2>3, <2>4, <2>5 DEF TypeOK
<1> QED
  BY <1>1, Inductive, WalkInductive, PTL

-----------------------------------------------------------------------------
(***************************************************************************)
(* No look ahead, and one curve                                            *)
(***************************************************************************)
\* Prices from the start of the test on do not matter for what is picked.
LEMMA PicksWithoutPeek ==
  ASSUME WalkInv, pc = "test", NEW bar \in OtherBars
  PROVE  SelectParams(Altered(Candles, Window.testStart, bar), cmd.axes, Window).params = chosen
<1>1. IsCandles(Candles) /\ LaidInOrder(Windows)
  BY CandlesType DEF WalkInv, WalkType
<1>2. PICK w : w = Window
  OBVIOUS
<1>3. w.testStart \in Nat /\ w.trainEnd = w.testStart
  <2>1. PICK m \in Nat : m = Len(Windows)
    BY <1>1 DEF LaidInOrder
  <2>2. PICK n \in Nat : n = Len(result.windows)
    <3>1. PICK S : result.windows \in Seq(S)
      BY DEF WalkInv, WalkType, IsResult
    <3> QED
      BY <3>1, LenProperties
  <2>3. n + 1 \in 1 .. m
    BY <2>1, <2>2 DEF WalkInv, PlaceInv
  <2> QED
    BY <1>1, <1>2, <2>1, <2>2, <2>3 DEF LaidInOrder, Window, WindowType
<1>4. bar \in DayBar
  BY WalkForwardAssumption
<1>5. SelectParams(Altered(Candles, w.testStart, bar), cmd.axes, w) = SelectParams(Candles, cmd.axes, w)
  BY <1>1, <1>3, <1>4, AlteredPick
<1>6. chosen = SelectParams(Candles, cmd.axes, w).params
  BY <1>2 DEF WalkInv, PickInv
<1> QED
  BY <1>2, <1>5, <1>6

\* Prices from the next day on do not matter for a day of the test.
LEMMA TestsWithoutPeek ==
  ASSUME WalkInv, pc \in {"train", "sweep"}, NEW k, k = Len(result.windows), k > 0,
         NEW bar \in OtherBars, NEW day \in Windows[k].testStart .. Windows[k].testEnd - 2
  PROVE  UpTo(SubRun(chosen, Altered(Candles, day + 1, bar), Windows[k].testStart, Windows[k].testEnd,
                     CashOf(Before)).equity, day)
           = UpTo(result.windows[k].equity, day)
<1>1. IsCandles(Candles) /\ LaidInOrder(Windows)
  BY CandlesType DEF WalkInv, WalkType
<1>2. PICK m \in Nat : m = Len(Windows)
  BY <1>1 DEF LaidInOrder
<1>3. PICK n \in Nat : n = k
  <2>1. PICK S : result.windows \in Seq(S)
    BY DEF WalkInv, WalkType, IsResult
  <2> QED
    BY <2>1, LenProperties
<1>4. k \in 1 .. m
  BY <1>2, <1>3 DEF WalkInv, PlaceInv
<1>5. PICK w : w = Windows[k]
  OBVIOUS
<1>6. w.testStart \in Nat /\ w.testEnd \in Nat
  BY <1>1, <1>2, <1>4, <1>5 DEF LaidInOrder, WindowType
<1>7. day \in Nat
  BY <1>5, <1>6
<1>8. bar \in DayBar /\ chosen \in Params
  BY WalkForwardAssumption DEF WalkInv, WalkType
<1>9. PICK cash : cash = CashOf(Before)
  OBVIOUS
<1>10. cash \in Int
  BY <1>3, <1>9 DEF WalkInv, TestInv
<1>11. UpTo(SubRun(chosen, Altered(Candles, day + 1, bar), w.testStart, w.testEnd, cash).equity, day)
         = UpTo(SubRun(chosen, Candles, w.testStart, w.testEnd, cash).equity, day)
  BY <1>1, <1>7, <1>8, <1>10, AlteredTest
<1>12. result.windows[k].equity = SubRun(chosen, Candles, w.testStart, w.testEnd, cash).equity
  BY <1>3, <1>5, <1>9 DEF WalkInv, TestInv
<1> QED
  BY <1>5, <1>9, <1>11, <1>12

\* Parameters are picked and tests are run without a look ahead: with other prices from the
\* start of the test on, the same parameters would have been picked (walkforward.go), and
\* with other prices from the next day on, every day of the test would have ended the same.
THEOREM WithoutPeek == Spec => []NoPeek
<1>1. WalkInv => NoPeek
  <2> SUFFICES ASSUME WalkInv PROVE NoPeek
    OBVIOUS
  <2>1. pc = "test" =>
          \A bar \in OtherBars :
            SelectParams(Altered(Candles, Window.testStart, bar), cmd.axes, Window).params = chosen
    BY PicksWithoutPeek
  <2>2. PICK k : k = Len(result.windows)
    OBVIOUS
  <2>3. PICK w : w = Windows[k]
    OBVIOUS
  <2>4. PICK cash : cash = IF Before = <<>> THEN InitialCash ELSE Last(Before).equity
    OBVIOUS
  <2>5. ASSUME pc \in {"train", "sweep"}, k > 0, NEW bar \in OtherBars,
               NEW day \in w.testStart .. w.testEnd - 2
        PROVE  {e \in Range(SubRun(chosen, Altered(Candles, day + 1, bar),
                                   w.testStart, w.testEnd, cash).equity) : e.day <= day}
                 = {e \in Range(result.windows[k].equity) : e.day <= day}
    <3>1. cash = CashOf(Before)
      BY <2>4 DEF CashOf
    <3>2. UpTo(SubRun(chosen, Altered(Candles, day + 1, bar), w.testStart, w.testEnd, cash).equity, day)
            = UpTo(result.windows[k].equity, day)
      BY <2>2, <2>3, <2>5, <3>1, TestsWithoutPeek
    <3> QED
      BY <3>2 DEF UpTo
  <2> QED
    BY <2>1, <2>2, <2>3, <2>4, <2>5 DEF NoPeek
<1> QED
  BY <1>1, WalkInductive, PTL

\* The days on which a window tests are those of its test period in the segment.
LEMMA TestedIsDays ==
  ASSUME WalkInv, NEW k \in DOMAIN Windows
  PROVE  Tested(k) = DaysOf(Candles, Windows[k])
<1>1. Calendar(Candles) \in SUBSET Nat /\ LaidInOrder(Windows)
  BY CandlesType DEF WalkInv, WalkType
<1>2. PICK w : w = Windows[k]
  OBVIOUS
<1>3. w.testStart \in Nat /\ w.testEnd \in Nat
  BY <1>1, <1>2 DEF LaidInOrder, WindowType
<1>4. PICK calendar \in SUBSET Nat : calendar = Calendar(Candles)
  BY <1>1
<1>5. calendar \intersect (w.testStart .. w.testEnd - 1)
        = {d \in calendar : w.testStart <= d /\ d < w.testEnd}
  <2>1. PICK from \in Nat, to \in Nat : from = w.testStart /\ to = w.testEnd
    BY <1>3
  <2>2. \A d \in calendar : d \in from .. to - 1 <=> from <= d /\ d < to
    OBVIOUS
  <2> QED
    BY <2>1, <2>2
<1> QED
  BY <1>2, <1>4, <1>5 DEF Tested, DaysOf, Testing

\* For tests that do not overlap, the combined curve goes through days of the test periods
\* in order and once, through all of them where the warm-ups are covered; and every trade
\* it counts was entered in one, no two in one symbol at the same time.
THEOREM TestsMakeOneCurve == Spec => []OneCurve
<1>1. WalkInv => OneCurve
  <2> SUFFICES ASSUME WalkInv, pc = "sweep", TestDays <= StepDays
               PROVE  LET day(i) == result.equity[i].day
                          tested == UNION {Tested(k) : k \in DOMAIN Windows}
                          trades == result.trades
                      IN  /\ \A i, j \in DOMAIN result.equity : i < j => day(i) < day(j)
                          /\ {day(i) : i \in DOMAIN result.equity} \subseteq tested
                          /\ \A k \in DOMAIN Windows :
                               Covered(k) => Tested(k) \subseteq {day(i) : i \in DOMAIN result.equity}
                          /\ \A i \in DOMAIN trades : trades[i].entered \in tested
                          /\ \A i, j \in DOMAIN trades :
                               i < j /\ trades[i].symbol = trades[j].symbol
                                 => trades[i].left <= trades[j].entered
    BY DEF OneCurve
  <2>1. CurveOK(result, Candles, Windows)
    BY DEF WalkInv, OneCurveInv
  <2>2. DOMAIN result.windows = DOMAIN Windows
    <3>1. PICK S : result.windows \in Seq(S)
      BY DEF WalkInv, WalkType, IsResult
    <3>2. DOMAIN result.windows = 1 .. Len(result.windows)
      BY <3>1, LenProperties
    <3>3. DOMAIN Windows = 1 .. Len(Windows)
      BY CandlesType DEF WalkInv, WalkType, LaidInOrder
    <3> QED
      BY <3>2, <3>3 DEF WalkInv, PlaceInv
  <2>3. \A i, j \in DOMAIN result.equity : i < j => result.equity[i].day < result.equity[j].day
    BY <2>1 DEF CurveOK
  <2>4. ASSUME NEW i \in DOMAIN result.equity
        PROVE  result.equity[i].day \in UNION {Tested(k) : k \in DOMAIN Windows}
    <3>1. PICK k \in DOMAIN Windows : result.equity[i].day \in DaysOf(Candles, Windows[k])
      BY <2>1, <2>2 DEF CurveOK
    <3> QED
      BY <3>1, TestedIsDays
  <2>5. ASSUME NEW k \in DOMAIN Windows, Covered(k), NEW d \in Tested(k)
        PROVE  \E i \in DOMAIN result.equity : result.equity[i].day = d
    <3>1. Warmed(Candles, Windows[k].testStart, result.windows[k].params.warm)
      BY <2>5 DEF Covered, Warmed, LookbackStart
    <3>2. d \in DaysOf(Candles, Windows[k])
      BY <2>5, TestedIsDays
    <3> QED
      BY <2>1, <2>2, <3>1, <3>2 DEF CurveOK
  <2>6. ASSUME NEW i \in DOMAIN result.trades
        PROVE  result.trades[i].entered \in UNION {Tested(k) : k \in DOMAIN Windows}
    <3>1. PICK k \in DOMAIN Windows : result.trades[i].entered \in DaysOf(Candles, Windows[k])
      BY <2>1, <2>2 DEF CurveOK
    <3> QED
      BY <3>1, TestedIsDays
  <2>7. \A i, j \in DOMAIN result.trades :
          i < j /\ result.trades[i].symbol = result.trades[j].symbol
            => result.trades[i].left <= result.trades[j].entered
    BY <2>1 DEF CurveOK
  <2> QED
    BY <2>3, <2>4, <2>5, <2>6, <2>7
<1> QED
  BY <1>1, WalkInductive, PTL

=============================================================================
