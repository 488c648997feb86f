------------------------------ MODULE PaperBook ------------------------------
(***************************************************************************)
(* The simulated broker once more, a day at a time: the book before and    *)
(* after a call, for the modules that put the engines on top of it.  Its   *)
(* steps and its cost model are PaperBroker's; here a fill costs nothing.  *)
(*                                                                         *)
(* book = [cash, pos, buy, sell, stops, lastExit]: buy[s] is the quantity  *)
(* of a queued entry or 0, sell the symbols with a queued exit, stops the  *)
(* levels kept for entries to come, lastExit[s] a day or 0.                *)
(***************************************************************************)
EXTENDS Integers, FiniteSets, FiniteSetsExt, SequencesExt

CONSTANTS
  Symbols,
  NoBar, NoPosition,
  InitialCash

ASSUME BookAssumption ==
  /\ Symbols \subseteq Nat /\ IsFiniteSet(Symbols)
  /\ InitialCash \in Nat \ {0}

EmptyBook ==
  [cash |-> InitialCash,
   pos |-> [s \in Symbols |-> NoPosition],
   buy |-> [s \in Symbols |-> 0],
   sell |-> {},
   stops |-> [s \in Symbols |-> 0],
   lastExit |-> [s \in Symbols |-> 0]]

Held(book) == {s \in Symbols : book.pos[s] # NoPosition}

Buying(book) == {s \in Symbols : book.buy[s] > 0}

\* What the gate is shown: positions are worth their symbol's last close.
Portfolio(book, price) ==
  [cash |-> book.cash,
   held |-> Held(book),
   equity |-> book.cash + SumFunction([s \in Held(book) |-> book.pos[s].qty * price[s]])]

-----------------------------------------------------------------------------
(***************************************************************************)
(* Submit: what the broker refuses leaves the book as it is                *)
(***************************************************************************)
SubmitBuys(book, qty) ==
  LET taken == {s \in DOMAIN qty : qty[s] > 0 /\ book.pos[s] = NoPosition /\ book.buy[s] = 0}
  IN  [book EXCEPT !.buy = [s \in Symbols |-> IF s \in taken THEN qty[s] ELSE @[s]]]

SubmitSells(book, which) ==
  [book EXCEPT !.sell = @ \union {s \in which : book.pos[s] # NoPosition}]

\* A stop is attached to the open position, or kept for the next entry.
SubmitStops(book, level) ==
  LET valid == {s \in DOMAIN level : level[s] > 0}
      open == valid \intersect Held(book)
  IN  [book EXCEPT
         !.pos = [s \in Symbols |-> IF s \in open THEN [@[s] EXCEPT !.stop = level[s]] ELSE @[s]],
         !.stops = [s \in Symbols |-> IF s \in valid \ open THEN level[s] ELSE @[s]]]

-----------------------------------------------------------------------------
(***************************************************************************)
(* Advance: queued orders fill at the open, then the stops are checked     *)
(***************************************************************************)
\* Mutant: the stop kept for the entry is not attached to it.
OpenedNaked(book, bars, s, day) ==
  [qty |-> book.buy[s], stop |-> 0, high |-> bars[s].high, entry |-> bars[s].open, since |-> day]

Opened(book, bars, s, day) ==
  [qty |-> book.buy[s], stop |-> book.stops[s], high |-> bars[s].high,
   entry |-> bars[s].open, since |-> day]

Higher(p, bar) == [p EXCEPT !.high = Max({@, bar.high})]

StopHit(book, bars, s) ==
  /\ bars[s] # NoBar
  /\ book.pos[s].stop > 0
  /\ bars[s].low <= book.pos[s].stop

StopPrice(book, bars, s) == Min({book.pos[s].stop, bars[s].open})

\* Mutant: an order that filled stays in the queue.
StillSellingAll(book, trading) == book.sell

StillSelling(book, trading) == book.sell \ trading

\* The positions of the book that this day's bars close, by an exit or by their stop.
Sold(book, bars) == {s \in book.sell \intersect Held(book) : bars[s] # NoBar}

Stopped(book, bars) == {s \in Held(book) \ Sold(book, bars) : StopHit(book, bars, s)}

ExitPrice(book, bars, s) ==
  IF s \in Sold(book, bars) THEN bars[s].open ELSE StopPrice(book, bars, s)

Advance(book, bars, day) ==
  LET trading == {s \in Symbols : bars[s] # NoBar}
      bought == Buying(book) \intersect trading
      left == Sold(book, bars) \union Stopped(book, bars)
  IN  [cash |-> book.cash
                + SumFunction([s \in left |-> book.pos[s].qty * ExitPrice(book, bars, s)])
                - SumFunction([s \in bought |-> book.buy[s] * bars[s].open]),
       pos |-> [s \in Symbols |->
                  CASE s \in bought -> Opened(book, bars, s, day)
                    [] s \in left -> NoPosition
                    [] s \in (Held(book) \intersect trading) \ left -> Higher(book.pos[s], bars[s])
                    [] OTHER -> book.pos[s]],
       buy |-> [s \in Symbols |-> IF s \in bought THEN 0 ELSE book.buy[s]],
       sell |-> StillSelling(book, trading),
       stops |-> [s \in Symbols |-> IF s \in bought THEN 0 ELSE book.stops[s]],
       lastExit |-> [s \in Symbols |-> IF s \in left THEN day ELSE book.lastExit[s]]]

BySymbol(which) ==
  CHOOSE seq \in [1 .. Cardinality(which) -> which] :
    \A i, j \in DOMAIN seq : i < j => seq[i] < seq[j]

\* The trades those closures make, exits before stops and by symbol.
ClosedTrades(book, bars, day) ==
  LET closed == BySymbol(Sold(book, bars)) \o BySymbol(Stopped(book, bars))
      trade(s) == [symbol |-> s, entered |-> book.pos[s].since, left |-> day,
                   pnl |-> book.pos[s].qty * (ExitPrice(book, bars, s) - book.pos[s].entry)]
  IN  [i \in DOMAIN closed |-> trade(closed[i])]

-----------------------------------------------------------------------------
(***************************************************************************)
(* What both engines submit for a day's signals                            *)
(***************************************************************************)
\* Exits and stop updates come first and pass no gate.
Leave(book, signals) == SubmitSells(SubmitStops(book, signals.stops), signals.exits)

\* Mutant: a refused entry leaves its stop behind.
EnterAnyway(book, qty, stop) ==
  LET wanted == {s \in DOMAIN qty : qty[s] > 0 /\ stop[s] > 0 /\ book.buy[s] = 0}
  IN  SubmitStops(SubmitBuys(book, [s \in wanted |-> qty[s]]), stop)

\* The buy and its stop, unless the stop is unusable; a refused buy has none.
Enter(book, qty, stop) ==
  LET wanted == {s \in DOMAIN qty : qty[s] > 0 /\ stop[s] > 0 /\ book.buy[s] = 0}
  IN  SubmitStops(SubmitBuys(book, [s \in wanted |-> qty[s]]), [s \in wanted |-> stop[s]])

=============================================================================
