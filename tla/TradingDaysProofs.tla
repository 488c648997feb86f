-------------------------- MODULE TradingDaysProofs --------------------------
(***************************************************************************)
(* What the two engines share, proved for every set of symbols, every      *)
(* calendar of bars and every limit of the gate: they are one code path up *)
(* to their known differences, no open position is without a stop, no stop *)
(* ever falls and no exit is held back.                                    *)
(***************************************************************************)
EXTENDS TradingDays, LibraryProofs

-----------------------------------------------------------------------------
(***************************************************************************)
(* The inductive invariant                                                 *)
(***************************************************************************)
\* What BacktestDay makes of a book today.
Backtested(b) ==
  LET signals == Signals(strategy, day, SeriesOf(BacktestUniverse), BacktestUniverse, Held(b), b.pos)
  IN  IF day > WarmupBars(strategy) + 1 /\ BacktestUniverse # {}
      THEN Enter(Leave(b, signals), Gated(b, signals, day), signals.enters)
      ELSE b

\* What is left for LiveSubmit to do when every proposal is approved.
Approved(b) ==
  LET usable == {s \in DOMAIN proposed.qty : proposed.stop[s] > 0 /\ b.buy[s] = 0}
  IN  SubmitStops(SubmitBuys(b, [s \in usable |-> proposed.qty[s]]),
                  [s \in usable |-> proposed.stop[s]])

\* Between two days the engines are a known step apart.
SamePath ==
  apart = {} =>
    /\ pc \in {"candles", "backtest"} => book["backtest"] = book["live"]
    /\ pc = "live" => book["backtest"] = Backtested(book["live"])
    /\ pc = "decisions" => book["backtest"] = Approved(book["live"])

\* A queued entry has its stop waiting.
Reserved ==
  \A e \in Engines : \A s \in Buying(book[e]) :
    book[e].stops[s] > 0 \/ (e = "live" /\ s \in naked)

\* What awaits the operator is not held.
ProposedFlat == pc = "decisions" => DOMAIN proposed.qty \intersect Held(book["live"]) = {}

IInv == TypeOK /\ SamePath /\ Reserved /\ Protected /\ ProposedFlat

-----------------------------------------------------------------------------
(***************************************************************************)
(* The book under Submit                                                   *)
(***************************************************************************)
LEMMA HeldIsPosition ==
  ASSUME NEW b \in Book, NEW s \in Symbols
  PROVE  /\ s \in Held(b) <=> b.pos[s] \in Position
         /\ s \notin Held(b) <=> b.pos[s] = NoPosition
  BY DaysAssumption DEF Book, Held

\* A new stop level changes the stop of a position or the one kept for its entry.
LEMMA StopsSubmitted ==
  ASSUME NEW b \in Book, NEW level, \A s \in DOMAIN level : level[s] \in Int,
         NEW c, c = SubmitStops(b, level)
  PROVE  /\ c \in Book
         /\ Held(c) = Held(b)
         /\ c.cash = b.cash /\ c.buy = b.buy /\ c.sell = b.sell /\ c.lastExit = b.lastExit
         /\ \A s \in Held(b) :
              c.pos[s].stop = IF s \in DOMAIN level /\ level[s] > 0 THEN level[s] ELSE b.pos[s].stop
         /\ \A s \in Symbols :
              c.stops[s] = IF s \in DOMAIN level /\ level[s] > 0 /\ s \notin Held(b)
                           THEN level[s] ELSE b.stops[s]
<1> DEFINE valid == {s \in DOMAIN level : level[s] > 0}
           open == valid \intersect Held(b)
           pos == [s \in Symbols |-> IF s \in open THEN [b.pos[s] EXCEPT !.stop = level[s]]
                                                  ELSE b.pos[s]]
           stops == [s \in Symbols |-> IF s \in valid \ open THEN level[s] ELSE b.stops[s]]
<1>1. c = [b EXCEPT !.pos = pos, !.stops = stops]
  BY DEF SubmitStops
<1>2. \A s \in valid : level[s] \in Nat
  OBVIOUS
<1>3. \A s \in Symbols : /\ pos[s] \in Position \union {NoPosition}
                         /\ pos[s] = NoPosition <=> b.pos[s] = NoPosition
  <2> SUFFICES ASSUME NEW s \in Symbols
               PROVE  /\ pos[s] \in Position \union {NoPosition}
                      /\ pos[s] = NoPosition <=> b.pos[s] = NoPosition
    OBVIOUS
  <2>1. CASE s \in open
    <3>1. b.pos[s] \in Position
      BY <2>1, HeldIsPosition
    <3>2. [b.pos[s] EXCEPT !.stop = level[s]] \in Position
      BY <1>2, <2>1, <3>1 DEF Position
    <3> QED
      BY <2>1, <3>1, <3>2, DaysAssumption
  <2>2. CASE s \notin open
    BY <2>2 DEF Book
  <2> QED
    BY <2>1, <2>2
<1>4. pos \in [Symbols -> Position \union {NoPosition}]
  BY <1>3
<1>5. stops \in [Symbols -> Nat]
  BY <1>2 DEF Book
<1>6. \A s \in Held(b) :
        pos[s].stop = IF s \in DOMAIN level /\ level[s] > 0 THEN level[s] ELSE b.pos[s].stop
  BY HeldIsPosition DEF Position, Held
<1> HIDE DEF pos, stops
<1>7. c \in Book /\ c.pos = pos /\ c.stops = stops
  BY <1>1, <1>4, <1>5 DEF Book
<1>8. c.cash = b.cash /\ c.buy = b.buy /\ c.sell = b.sell /\ c.lastExit = b.lastExit
  BY <1>1 DEF Book
<1>9. Held(c) = Held(b)
  BY <1>3, <1>7 DEF Held
<1>10. \A s \in Symbols : stops[s] = IF s \in DOMAIN level /\ level[s] > 0 /\ s \notin Held(b)
                                     THEN level[s] ELSE b.stops[s]
  BY DEF stops
<1> QED
  BY <1>6, <1>7, <1>8, <1>9, <1>10

\* An entry is queued for a flat symbol without one.
LEMMA BuysSubmitted ==
  ASSUME NEW b \in Book, NEW qty, \A s \in DOMAIN qty : qty[s] \in Nat,
         NEW c, c = SubmitBuys(b, qty)
  PROVE  /\ c \in Book
         /\ c.cash = b.cash /\ c.pos = b.pos /\ c.sell = b.sell /\ c.stops = b.stops
         /\ c.lastExit = b.lastExit
         /\ \A s \in Symbols :
              c.buy[s] = IF s \in DOMAIN qty /\ qty[s] > 0 /\ b.pos[s] = NoPosition /\ b.buy[s] = 0
                         THEN qty[s] ELSE b.buy[s]
<1> DEFINE taken == {s \in DOMAIN qty : qty[s] > 0 /\ b.pos[s] = NoPosition /\ b.buy[s] = 0}
           buy == [s \in Symbols |-> IF s \in taken THEN qty[s] ELSE b.buy[s]]
<1>1. c = [b EXCEPT !.buy = buy]
  BY DEF SubmitBuys
<1>2. buy \in [Symbols -> Nat]
  BY DEF Book
<1>3. c \in Book /\ c.buy = buy
  BY <1>1, <1>2 DEF Book
<1>4. /\ c.cash = b.cash /\ c.pos = b.pos /\ c.sell = b.sell /\ c.stops = b.stops
      /\ c.lastExit = b.lastExit
  BY <1>1 DEF Book
<1> QED
  BY <1>3, <1>4

\* An exit is queued for open positions only.
LEMMA SellsSubmitted ==
  ASSUME NEW b \in Book, NEW which, which \subseteq Symbols, NEW c, c = SubmitSells(b, which)
  PROVE  /\ c \in Book
         /\ c.cash = b.cash /\ c.pos = b.pos /\ c.buy = b.buy /\ c.stops = b.stops
         /\ c.lastExit = b.lastExit
         /\ c.sell = b.sell \union (which \intersect Held(b))
<1>1. c = [b EXCEPT !.sell = b.sell \union {s \in which : b.pos[s] # NoPosition}]
  BY DEF SubmitSells
<1>2. {s \in which : b.pos[s] # NoPosition} = which \intersect Held(b)
  BY DEF Held
<1>3. b.sell \union (which \intersect Held(b)) \in SUBSET Symbols
  BY DEF Book
<1> HIDE DEF Held
<1>4. c \in Book
  BY <1>1, <1>2, <1>3 DEF Book
<1> QED
  BY <1>1, <1>2, <1>4 DEF Book

-----------------------------------------------------------------------------
(***************************************************************************)
(* The book under Advance                                                  *)
(***************************************************************************)
LEMMA SymbolsFinite == ASSUME NEW T, T \subseteq Symbols PROVE IsFiniteSet(T)
  BY BookAssumption, FS_Subset

\* What the closed positions bring is an integer.
LEMMA ProceedsType ==
  ASSUME NEW b \in Book, NEW bars \in [Symbols -> Bars \union {NoBar}]
  PROVE  LET left == Sold(b, bars) \union Stopped(b, bars)
         IN  SumFunction([s \in left |-> b.pos[s].qty * ExitPrice(b, bars, s)]) \in Int
<1> DEFINE left == Sold(b, bars) \union Stopped(b, bars)
           brings == [s \in left |-> b.pos[s].qty * ExitPrice(b, bars, s)]
<1>1. left \subseteq Held(b) /\ \A s \in left : bars[s] # NoBar
  BY DEF Sold, Stopped, StopHit
<1>2. ASSUME NEW s \in left PROVE brings[s] \in Int
  <2>1. s \in Symbols /\ bars[s] \in Bars /\ b.pos[s] \in Position
    BY <1>1, HeldIsPosition DEF Held
  <2>2. b.pos[s].qty \in Int /\ b.pos[s].stop \in Int /\ bars[s].open \in Int
    BY <2>1 DEF Position, Bars
  <2>3. Min({b.pos[s].stop, bars[s].open}) \in Int
    BY <2>2, MinOfTwo
  <2>4. ExitPrice(b, bars, s) \in Int
    BY <2>2, <2>3 DEF ExitPrice, StopPrice
  <2> QED
    BY <2>2, <2>4, ProductType
<1>3. IsFiniteSet(left)
  BY <1>1, SymbolsFinite DEF Held
<1> HIDE DEF left
<1>4. SumFunctionOnSet(brings, left) \in Int
  BY <1>2, <1>3, SumType
<1> QED
  BY <1>4 DEF left, SumFunction

\* What the filled entries cost is an integer.
LEMMA CostType ==
  ASSUME NEW b \in Book, NEW bars \in [Symbols -> Bars \union {NoBar}],
         NEW bought, bought \subseteq Symbols, \A s \in bought : bars[s] # NoBar
  PROVE  SumFunction([s \in bought |-> b.buy[s] * bars[s].open]) \in Int
<1> DEFINE costs == [s \in bought |-> b.buy[s] * bars[s].open]
<1>1. ASSUME NEW s \in bought PROVE costs[s] \in Int
  <2>1. b.buy[s] \in Int /\ bars[s].open \in Int
    BY DEF Book, Bars
  <2> QED
    BY <2>1, ProductType
<1>2. IsFiniteSet(bought)
  BY SymbolsFinite
<1>3. SumFunctionOnSet(costs, bought) \in Int
  BY <1>1, <1>2, SumType
<1> QED
  BY <1>3 DEF SumFunction

Left(b, bars) == Sold(b, bars) \union Stopped(b, bars)

Bought(b, bars) == {s \in Buying(b) : bars[s] # NoBar}

\* What a day makes of a position: an entry opens one with the stop kept for it, an
\* exit or a stop closes one, and one that stays keeps its stop.
LEMMA PositionAdvanced ==
  ASSUME NEW b \in Book, NEW d \in Nat, Consistent(b, d - 1),
         NEW bars \in [Symbols -> Bars \union {NoBar}],
         NEW c, c = Advance(b, bars, d), NEW s \in Symbols
  PROVE  /\ c.pos[s] \in Position \union {NoPosition}
         /\ s \in Bought(b, bars) => c.pos[s] \in Position /\ c.pos[s].stop = b.stops[s]
         /\ s \in Left(b, bars) => c.pos[s] = NoPosition
         /\ s \in Held(b) \ Left(b, bars) => c.pos[s] \in Position /\ c.pos[s].stop = b.pos[s].stop
         /\ s \notin Held(b) \union Bought(b, bars) => c.pos[s] = NoPosition
<1> DEFINE trading == {r \in Symbols : bars[r] # NoBar}
<1>1. Left(b, bars) \subseteq Held(b) /\ Bought(b, bars) = Buying(b) \intersect trading
  BY DEF Left, Sold, Stopped, Bought, Buying
<1>2. Held(b) \intersect Buying(b) = {}
  BY DEF Consistent
<1>3. c.pos[s] = CASE s \in Bought(b, bars) -> Opened(b, bars, s, d)
                  [] s \in Left(b, bars) -> NoPosition
                  [] s \in (Held(b) \intersect trading) \ Left(b, bars) -> Higher(b.pos[s], bars[s])
                  [] OTHER -> b.pos[s]
  BY <1>1 DEF Advance, Left
<1>4. CASE s \in Bought(b, bars)
  <2>1. s \notin Held(b) /\ s \notin Left(b, bars) /\ bars[s] \in Bars
    BY <1>1, <1>2, <1>4
  <2>2. c.pos[s] = Opened(b, bars, s, d)
    BY <1>3, <1>4, <2>1
  <2>3. /\ b.buy[s] \in Nat /\ b.stops[s] \in Nat /\ bars[s].high \in Nat /\ bars[s].open \in Nat
    BY <2>1 DEF Book, Bars
  <2>4. c.pos[s] \in Position /\ c.pos[s].stop = b.stops[s]
    BY <2>2, <2>3 DEF Opened, Position
  <2> QED
    BY <1>4, <2>1, <2>4
<1>5. CASE s \in Left(b, bars)
  <2>1. s \in Held(b) /\ s \notin Bought(b, bars)
    BY <1>1, <1>2, <1>5
  <2>2. c.pos[s] = NoPosition
    BY <1>3, <1>5, <2>1
  <2> QED
    BY <1>5, <2>1, <2>2
<1>6. CASE s \in Held(b) \ Left(b, bars) /\ s \in trading
  <2>1. s \notin Bought(b, bars) /\ bars[s] \in Bars /\ b.pos[s] \in Position
    BY <1>1, <1>2, <1>6, HeldIsPosition
  <2>2. c.pos[s] = Higher(b.pos[s], bars[s])
    BY <1>3, <1>6, <2>1
  <2>3. Max({b.pos[s].high, bars[s].high}) \in Nat
    <3>1. b.pos[s].high \in Nat /\ bars[s].high \in Nat
      BY <2>1 DEF Position, Bars
    <3>2. \A x, y \in Nat : Max({x, y}) \in Nat
      BY MaxOfTwo
    <3> QED
      BY <3>1, <3>2
  <2>4. c.pos[s] = [b.pos[s] EXCEPT !.high = Max({b.pos[s].high, bars[s].high})]
    BY <2>2 DEF Higher
  <2>5. c.pos[s] \in Position /\ c.pos[s].stop = b.pos[s].stop
    BY <2>1, <2>3, <2>4 DEF Position
  <2> QED
    BY <1>6, <2>1, <2>5
<1>7. CASE s \notin Bought(b, bars) /\ s \notin Left(b, bars) /\ ~(s \in Held(b) /\ s \in trading)
  <2>1. c.pos[s] = b.pos[s]
    BY <1>3, <1>7
  <2>2. s \in Held(b) => b.pos[s] \in Position
    BY HeldIsPosition
  <2>3. s \notin Held(b) => b.pos[s] = NoPosition
    BY HeldIsPosition
  <2> QED
    BY <1>7, <2>1, <2>2, <2>3
<1> QED
  BY <1>4, <1>5, <1>6, <1>7

\* The rest of the book on a new day.
LEMMA BookAdvanced ==
  ASSUME NEW b \in Book, NEW d \in Nat, Consistent(b, d - 1),
         NEW bars \in [Symbols -> Bars \union {NoBar}],
         NEW c, c = Advance(b, bars, d)
  PROVE  /\ c \in Book
         /\ \A s \in Symbols :
              /\ c.buy[s] = IF s \in Bought(b, bars) THEN 0 ELSE b.buy[s]
              /\ c.stops[s] = IF s \in Bought(b, bars) THEN 0 ELSE b.stops[s]
              /\ c.lastExit[s] \in {d, b.lastExit[s]}
         /\ c.sell = {s \in b.sell : bars[s] = NoBar}
<1> DEFINE trading == {r \in Symbols : bars[r] # NoBar}
           bought == Buying(b) \intersect trading
           left == Sold(b, bars) \union Stopped(b, bars)
           brings == SumFunction([s \in left |-> b.pos[s].qty * ExitPrice(b, bars, s)])
           costs == SumFunction([s \in bought |-> b.buy[s] * bars[s].open])
<1>1. brings \in Int
  BY ProceedsType
<1>2. costs \in Int
  BY CostType
<1>3. bought = Bought(b, bars)
  BY DEF Bought, Buying
<1> HIDE DEF brings, costs, left
<1>4. /\ c.cash = b.cash + brings - costs
      /\ c.buy = [s \in Symbols |-> IF s \in bought THEN 0 ELSE b.buy[s]]
      /\ c.sell = b.sell \ trading
      /\ c.stops = [s \in Symbols |-> IF s \in bought THEN 0 ELSE b.stops[s]]
      /\ c.lastExit = [s \in Symbols |-> IF s \in left THEN d ELSE b.lastExit[s]]
      /\ DOMAIN c.pos = Symbols
      /\ c.pos = [s \in Symbols |-> c.pos[s]]
      /\ c = [cash |-> c.cash, pos |-> c.pos, buy |-> c.buy, sell |-> c.sell, stops |-> c.stops,
              lastExit |-> c.lastExit]
  BY DEF Advance, StillSelling, brings, costs, left
<1>5. c.cash \in Int
  BY <1>1, <1>2, <1>4 DEF Book
<1>6. c.pos \in [Symbols -> Position \union {NoPosition}]
  BY <1>4, PositionAdvanced
<1>7. /\ c.buy \in [Symbols -> Nat] /\ c.stops \in [Symbols -> Nat]
      /\ c.lastExit \in [Symbols -> Nat] /\ c.sell \in SUBSET Symbols
  BY <1>4 DEF Book
<1>8. c \in Book
  BY <1>4, <1>5, <1>6, <1>7 DEF Book
<1>9. c.sell = {s \in b.sell : bars[s] = NoBar}
  BY <1>4 DEF Book
<1> QED
  BY <1>3, <1>4, <1>8, <1>9

\* The book stays consistent on a new day.
LEMMA AdvancedConsistent ==
  ASSUME NEW b \in Book, NEW d \in Nat, Consistent(b, d - 1),
         NEW bars \in [Symbols -> Bars \union {NoBar}],
         NEW c, c = Advance(b, bars, d)
  PROVE  /\ Consistent(c, d)
         /\ \A s \in Symbols : s \in Held(c) <=> \/ s \in Bought(b, bars)
                                                 \/ s \in Held(b) /\ s \notin Left(b, bars)
<1>1. \A s \in Symbols : /\ c.pos[s] \in Position \union {NoPosition}
                         /\ s \in Bought(b, bars) => c.pos[s] \in Position
                         /\ s \in Left(b, bars) => c.pos[s] = NoPosition
                         /\ s \in Held(b) \ Left(b, bars) => c.pos[s] \in Position
                         /\ s \notin Held(b) \union Bought(b, bars) => c.pos[s] = NoPosition
  BY PositionAdvanced
<1>2. /\ c.sell = {s \in b.sell : bars[s] = NoBar}
      /\ \A s \in Symbols :
           /\ c.buy[s] = IF s \in Bought(b, bars) THEN 0 ELSE b.buy[s]
           /\ c.lastExit[s] \in {d, b.lastExit[s]}
  BY BookAdvanced
<1>3. \A s \in Left(b, bars) : s \in Held(b) /\ bars[s] # NoBar
  BY DEF Left, Sold, Stopped, StopHit
<1>4. \A s \in Symbols : b.buy[s] \in Nat /\ b.lastExit[s] \in Nat
  BY DEF Book
<1>5. \A s \in Symbols : s \in Bought(b, bars) <=> b.buy[s] > 0 /\ bars[s] # NoBar
  BY DEF Bought, Buying
<1>6. b.sell \subseteq Held(b) /\ \A s \in Held(b) : s \in Symbols /\ ~(b.buy[s] > 0)
  BY DEF Consistent, Held, Buying
<1>7. \A s \in Symbols : s \in Held(c) <=> c.pos[s] # NoPosition
  BY DEF Held
<1>8. \A s \in Symbols : s \in Held(c) <=> \/ s \in Bought(b, bars)
                                           \/ s \in Held(b) /\ s \notin Left(b, bars)
  BY <1>1, <1>3, <1>5, <1>6, <1>7, DaysAssumption
<1>9. c.sell \subseteq Held(c)
  BY <1>2, <1>3, <1>6, <1>8
<1>10. Held(c) \intersect Buying(c) = {}
  <2> SUFFICES ASSUME NEW s \in Symbols, s \in Held(c), c.buy[s] > 0 PROVE FALSE
    BY DEF Buying
  <2> QED
    BY <1>2, <1>4, <1>5, <1>6, <1>8
<1>11. \A s \in Symbols : c.lastExit[s] <= d
  BY <1>2, <1>4 DEF Consistent
<1>12. Consistent(c, d)
  BY <1>9, <1>10, <1>11 DEF Consistent
<1> QED
  BY <1>8, <1>12

-----------------------------------------------------------------------------
(***************************************************************************)
(* What both engines submit                                                *)
(***************************************************************************)
\* Entries for flat symbols, each with its stop if the stop is usable.
Entered(b, W, stop, c) ==
  /\ c \in Book
  /\ Held(c) = Held(b) /\ Buying(c) = Buying(b) \union W
  /\ c.sell = b.sell /\ c.lastExit = b.lastExit
  /\ \A s \in Held(b) : c.pos[s].stop = b.pos[s].stop
  /\ \A s \in W : stop[s] > 0 => c.stops[s] = stop[s]
  /\ \A s \in Buying(b) : c.stops[s] = b.stops[s]

LEMMA EntriesSubmitted ==
  ASSUME NEW b \in Book, NEW W, W \subseteq Symbols,
         NEW qty \in [W -> Nat \ {0}], NEW stop \in [W -> Int],
         \A s \in W : s \notin Held(b) /\ b.buy[s] = 0,
         NEW m, m = SubmitBuys(b, qty), NEW c, c = SubmitStops(m, stop)
  PROVE  Entered(b, W, stop, c)
<1>1. /\ m \in Book
      /\ m.cash = b.cash /\ m.pos = b.pos /\ m.sell = b.sell /\ m.stops = b.stops
      /\ m.lastExit = b.lastExit
      /\ \A s \in Symbols :
           m.buy[s] = IF s \in DOMAIN qty /\ qty[s] > 0 /\ b.pos[s] = NoPosition /\ b.buy[s] = 0
                      THEN qty[s] ELSE b.buy[s]
  <2>1. \A s \in DOMAIN qty : qty[s] \in Nat
    OBVIOUS
  <2> QED
    BY <2>1, BuysSubmitted
<1>2. Held(m) = Held(b)
  BY <1>1 DEF Held
<1>3. /\ c \in Book
      /\ Held(c) = Held(m)
      /\ c.cash = m.cash /\ c.buy = m.buy /\ c.sell = m.sell /\ c.lastExit = m.lastExit
      /\ \A s \in Held(m) :
           c.pos[s].stop = IF s \in DOMAIN stop /\ stop[s] > 0 THEN stop[s] ELSE m.pos[s].stop
      /\ \A s \in Symbols :
           c.stops[s] = IF s \in DOMAIN stop /\ stop[s] > 0 /\ s \notin Held(m)
                        THEN stop[s] ELSE m.stops[s]
  <2>1. \A s \in DOMAIN stop : stop[s] \in Int
    OBVIOUS
  <2> QED
    BY <1>1, <2>1, StopsSubmitted
<1>4. \A s \in W : b.pos[s] = NoPosition
  BY DEF Held
<1>5. \A s \in Symbols : c.buy[s] = IF s \in W THEN qty[s] ELSE b.buy[s]
  BY <1>1, <1>3, <1>4
<1>6. Buying(c) = Buying(b) \union W
  BY <1>5 DEF Buying
<1>7. \A s \in Buying(b) : s \in Symbols /\ s \notin W
  BY DEF Buying
<1>8. \A s \in Buying(b) : c.stops[s] = b.stops[s]
  BY <1>1, <1>3, <1>7
<1>9. \A s \in W : stop[s] > 0 => c.stops[s] = stop[s]
  BY <1>2, <1>3
<1>10. \A s \in Held(b) : c.pos[s].stop = b.pos[s].stop
  <2>1. \A s \in Held(b) : s \notin W
    OBVIOUS
  <2> QED
    BY <1>1, <1>2, <1>3, <2>1
<1> QED
  BY <1>1, <1>2, <1>3, <1>6, <1>8, <1>9, <1>10 DEF Entered

\* What a strategy may ask for: new stops and exits for what is held, entries for
\* what is not, and no stop below the one there is.
Sound(signals, b) ==
  /\ DOMAIN signals.stops \subseteq Held(b)
  /\ \A s \in DOMAIN signals.stops : signals.stops[s] \in Int /\ signals.stops[s] >= b.pos[s].stop
  /\ signals.exits \subseteq Held(b)
  /\ DOMAIN signals.enters \subseteq Symbols \ Held(b)
  /\ \A s \in DOMAIN signals.enters : signals.enters[s] \in Int

\* Exits and stop updates touch open positions only.
LEMMA LeaveSubmitted ==
  ASSUME NEW b \in Book, NEW signals, Sound(signals, b), NEW c, c = Leave(b, signals)
  PROVE  /\ c \in Book
         /\ Held(c) = Held(b) /\ c.buy = b.buy /\ c.lastExit = b.lastExit
         /\ c.sell = b.sell \union signals.exits
         /\ \A s \in Held(b) :
              /\ c.pos[s].stop >= b.pos[s].stop
              /\ b.pos[s].stop > 0 => c.pos[s].stop > 0
         /\ \A s \in Symbols : s \notin Held(b) => c.stops[s] = b.stops[s]
<1>1. PICK m : m = SubmitStops(b, signals.stops)
  OBVIOUS
<1>2. /\ m \in Book
      /\ Held(m) = Held(b)
      /\ m.cash = b.cash /\ m.buy = b.buy /\ m.sell = b.sell /\ m.lastExit = b.lastExit
      /\ \A s \in Held(b) :
           m.pos[s].stop = IF s \in DOMAIN signals.stops /\ signals.stops[s] > 0
                           THEN signals.stops[s] ELSE b.pos[s].stop
      /\ \A s \in Symbols :
           m.stops[s] = IF s \in DOMAIN signals.stops /\ signals.stops[s] > 0 /\ s \notin Held(b)
                        THEN signals.stops[s] ELSE b.stops[s]
  BY <1>1, StopsSubmitted DEF Sound
<1>3. c = SubmitSells(m, signals.exits)
  BY <1>1 DEF Leave
<1>4. signals.exits \subseteq Symbols
  BY DEF Sound, Held
<1>5. /\ c \in Book
      /\ c.cash = m.cash /\ c.pos = m.pos /\ c.buy = m.buy /\ c.stops = m.stops
      /\ c.lastExit = m.lastExit
      /\ c.sell = m.sell \union (signals.exits \intersect Held(m))
  BY <1>2, <1>3, <1>4, SellsSubmitted
<1>6. Held(c) = Held(b)
  BY <1>2, <1>5 DEF Held
<1>7. c.sell = b.sell \union signals.exits
  BY <1>2, <1>5 DEF Sound
<1>8. ASSUME NEW s \in Held(b)
      PROVE  c.pos[s].stop >= b.pos[s].stop /\ (b.pos[s].stop > 0 => c.pos[s].stop > 0)
  <2>1. b.pos[s].stop \in Nat
    BY HeldIsPosition DEF Held, Position
  <2> QED
    BY <1>2, <1>5, <2>1 DEF Sound
<1>9. \A s \in Symbols : s \notin Held(b) => c.stops[s] = b.stops[s]
  BY <1>2, <1>5 DEF Sound
<1> QED
  BY <1>2, <1>5, <1>6, <1>7, <1>8, <1>9

-----------------------------------------------------------------------------
(***************************************************************************)
(* The gate and the strategies                                             *)
(***************************************************************************)
\* Positions are worth an integer.
LEMMA PortfolioType ==
  ASSUME NEW b \in Book, NEW prices \in [Symbols -> Nat]
  PROVE  /\ Portfolio(b, prices).cash \in Int
         /\ Portfolio(b, prices).equity \in Int
         /\ Portfolio(b, prices).held = Held(b)
<1> DEFINE worth == [s \in Held(b) |-> b.pos[s].qty * prices[s]]
<1>1. ASSUME NEW s \in Held(b) PROVE worth[s] \in Int
  <2>1. b.pos[s].qty \in Int /\ prices[s] \in Int
    BY HeldIsPosition DEF Held, Position
  <2> QED
    BY <2>1, ProductType
<1>2. IsFiniteSet(Held(b))
  BY SymbolsFinite DEF Held
<1>3. SumFunctionOnSet(worth, Held(b)) \in Int
  BY <1>1, <1>2, SumType
<1>4. SumFunction(worth) \in Int
  BY <1>3 DEF SumFunction
<1>5. b.cash \in Int
  BY DEF Book
<1>6. Portfolio(b, prices) = [cash |-> b.cash, held |-> Held(b),
                              equity |-> b.cash + SumFunction(worth)]
  BY DEF Portfolio
<1> HIDE DEF worth
<1> QED
  BY <1>4, <1>5, <1>6

LEMMA FloorType == \A num \in Int, den \in Nat \ {0} : FloorToStep(num, den) \in Int
<1> SUFFICES ASSUME NEW num \in Int, NEW den \in Nat \ {0} PROVE FloorToStep(num, den) \in Int
  OBVIOUS
<1>1. Step \in Nat \ {0}
  BY GateAssumption
<1>2. PICK k : k = den * Step
  OBVIOUS
<1>3. k \in Nat \ {0}
  BY <1>1, <1>2
<1>4. num \div k \in Int
  BY <1>3
<1> QED
  BY <1>1, <1>2, <1>4, ProductType DEF FloorToStep

\* The gate's answer is a quantity.
LEMMA EvaluateType ==
  ASSUME NEW s, NEW ref \in Nat, NEW stop \in Int, NEW portfolio,
         portfolio.cash \in Int, portfolio.equity \in Int,
         NEW now, NEW lastExit, NEW open
  PROVE  Evaluate(s, ref, stop, portfolio, now, lastExit, open) \in Nat
<1>1. ASSUME ref > 0, stop < ref PROVE Size(ref, stop, portfolio) \in Nat
  <2> DEFINE x == FloorToStep(portfolio.equity * RiskPct, 100 * (ref - stop))
             y == FloorToStep(portfolio.equity * MaxPositionPct, 100 * ref)
             z == FloorToStep(portfolio.cash, ref)
             qty == Min({x, y, z})
  <2>1. RiskPct \in Int /\ MaxPositionPct \in Int
    BY GateAssumption
  <2>2. portfolio.equity * RiskPct \in Int /\ portfolio.equity * MaxPositionPct \in Int
    BY <2>1, ProductType
  <2>3. 100 * (ref - stop) \in Nat \ {0} /\ 100 * ref \in Nat \ {0} /\ ref \in Nat \ {0}
    BY <1>1
  <2>4. x \in Int
    BY <2>2, <2>3, FloorType
  <2>5. y \in Int
    BY <2>2, <2>3, FloorType
  <2>6. z \in Int
    BY <2>3, FloorType
  <2> HIDE DEF x, y, z
  <2>7. qty \in Int
    BY <2>4, <2>5, <2>6, MinOfThree
  <2>8. Size(ref, stop, portfolio) = IF qty <= 0 \/ qty * ref < MinNotional THEN 0 ELSE qty
    BY <1>1 DEF Size, x, y, z
  <2> HIDE DEF qty
  <2> QED
    BY <2>7, <2>8
<1>2. ~(ref > 0 /\ stop < ref) => Size(ref, stop, portfolio) = 0
  BY DEF Size
<1> QED
  BY <1>1, <1>2 DEF Evaluate

\* Every entry is judged to a quantity.
LEMMA GatedType ==
  ASSUME TypeOK, NEW b \in Book, NEW signals, Sound(signals, b),
         \A s \in DOMAIN signals.enters : today[s] # NoBar, NEW now
  PROVE  Gated(b, signals, now) \in [DOMAIN signals.enters -> Nat]
<1> SUFFICES ASSUME NEW s \in DOMAIN signals.enters
             PROVE  Evaluate(s, today[s].close, signals.enters[s], Portfolio(b, price), now,
                             b.lastExit[s], breaker) \in Nat
  BY DEF Gated
<1>1. s \in Symbols /\ signals.enters[s] \in Int
  BY DEF Sound
<1>2. today[s].close \in Nat
  BY <1>1 DEF TypeOK, Bars
<1>3. Portfolio(b, price).cash \in Int /\ Portfolio(b, price).equity \in Int
  BY PortfolioType DEF TypeOK
<1> QED
  BY <1>1, <1>2, <1>3, EvaluateType

\* Trendfollow asks for nothing unsound: its trailing stop is a maximum with the
\* stop there is.
LEMMA TrendSound ==
  ASSUME TypeOK, NEW b \in Book, NEW universe, universe \subseteq {s \in Symbols : today[s] # NoBar},
         NEW signals, signals = Trend(SeriesOf(universe), universe, Held(b), b.pos)
  PROVE  Sound(signals, b) /\ DOMAIN signals.enters \subseteq universe
<1> DEFINE series == SeriesOf(universe)
           managed == DOMAIN series \intersect Held(b)
           broken == {s \in universe \ Held(b) :
                        series[s].n >= WarmupBars("trendfollow") /\ series[s].bar.up}
<1>1. \A s \in universe : s \in Symbols /\ today[s] \in Bars
  BY DEF TypeOK
<1>2. DOMAIN series = universe /\ \A s \in universe : series[s].bar = today[s]
  BY DEF SeriesOf
<1>3. signals = [stops |-> [s \in managed |-> TrailingStop(b.pos[s], series[s].bar)],
                 exits |-> {s \in managed : series[s].bar.weak},
                 enters |-> [s \in broken |-> EntryStop(series[s].bar)]]
  BY DEF Trend
<1> HIDE DEF series
<1>4. ASSUME NEW s \in managed
      PROVE  /\ TrailingStop(b.pos[s], series[s].bar) \in Int
             /\ TrailingStop(b.pos[s], series[s].bar) >= b.pos[s].stop
  <2>1. b.pos[s] \in Position /\ series[s].bar \in Bars
    BY <1>1, <1>2, HeldIsPosition
  <2>2. PICK stop, high, day_high, atr \in Nat :
          /\ stop = b.pos[s].stop /\ high = b.pos[s].high
          /\ day_high = series[s].bar.high /\ atr = series[s].bar.atr
    BY <2>1 DEF Position, Bars
  <2>3. StopMult * atr \in Int
    BY StrategyAssumption, ProductType
  <2>4. PICK level \in Int : level = Max({high, day_high}) - StopMult * atr
    BY <2>3, MaxOfTwo
  <2>5. TrailingStop(b.pos[s], series[s].bar) = Max({stop, level})
    BY <2>2, <2>4 DEF TrailingStop
  <2>6. Max({stop, level}) \in Int /\ Max({stop, level}) >= stop
    BY MaxOfTwo
  <2> QED
    BY <2>2, <2>5, <2>6
<1>5. ASSUME NEW s \in broken PROVE EntryStop(series[s].bar) \in Int
  <2>1. PICK close, atr \in Nat : close = series[s].bar.close /\ atr = series[s].bar.atr
    BY <1>1, <1>2 DEF Bars
  <2>2. StopMult * atr \in Int
    BY StrategyAssumption, ProductType
  <2> QED
    BY <2>1, <2>2 DEF EntryStop
<1>6. broken \subseteq Symbols \ Held(b) /\ broken \subseteq universe
  BY <1>1
<1> HIDE DEF broken
<1> QED
  BY <1>3, <1>4, <1>5, <1>6 DEF Sound

\* Nor does Momentum, which moves no stop.
LEMMA MomentumSound ==
  ASSUME TypeOK, NEW b \in Book, NEW universe, universe \subseteq {s \in Symbols : today[s] # NoBar},
         NEW signals, signals = Momentum(day, SeriesOf(universe), universe, Held(b))
  PROVE  Sound(signals, b) /\ DOMAIN signals.enters \subseteq universe
<1>1. \A s \in universe : s \in Symbols /\ today[s] \in Bars
  BY DEF TypeOK
<1>2. \A s \in universe : SeriesOf(universe)[s].bar = today[s]
  BY DEF SeriesOf
<1>3. CASE day % Week # Weekday
  BY <1>3 DEF Momentum, NoSignals, Sound
<1>4. CASE day % Week = Weekday
  <2> DEFINE series == SeriesOf(universe)
             ranked == {s \in universe : series[s].n >= WarmupBars("momentum") /\ series[s].bar.rated}
             score == [s \in ranked |-> series[s].bar.score]
             rank == [s \in ranked |-> RankAmong(s, ranked, score)]
             best == {s \in ranked \ Held(b) : rank[s] <= TopN}
             fallen == Fallen(ranked, rank, Held(b))
  <2>1. signals = [stops |-> [s \in {} |-> 0],
                   exits |-> fallen,
                   enters |-> [s \in best |-> EntryStop(series[s].bar)]]
    BY <1>4 DEF Momentum
  <2>2. best \subseteq Symbols \ Held(b) /\ best \subseteq universe
    BY <1>1
  <2>3. fallen \subseteq Held(b)
    BY DEF Fallen
  <2> HIDE DEF best, fallen
  <2>4. ASSUME NEW s \in best PROVE EntryStop(series[s].bar) \in Int
    <3>1. PICK close, atr \in Nat : close = series[s].bar.close /\ atr = series[s].bar.atr
      BY <1>1, <1>2, <2>2 DEF Bars
    <3>2. StopMult * atr \in Int
      BY StrategyAssumption, ProductType
    <3> QED
      BY <3>1, <3>2 DEF EntryStop
  <2> HIDE DEF series
  <2> QED
    BY <2>1, <2>2, <2>3, <2>4 DEF Sound
<1> QED
  BY <1>3, <1>4

LEMMA SignalsSound ==
  ASSUME TypeOK, NEW b \in Book, NEW universe, universe \subseteq {s \in Symbols : today[s] # NoBar},
         NEW signals,
         signals = Signals(strategy, day, SeriesOf(universe), universe, Held(b), b.pos)
  PROVE  Sound(signals, b) /\ DOMAIN signals.enters \subseteq universe
  BY TrendSound, MomentumSound DEF Signals

-----------------------------------------------------------------------------
(***************************************************************************)
(* The first state and a new day                                           *)
(***************************************************************************)
LEMMA EmptyBookFacts ==
  /\ EmptyBook \in Book
  /\ Held(EmptyBook) = {} /\ Buying(EmptyBook) = {}
  /\ \A d \in Nat : Consistent(EmptyBook, d)
<1>1. EmptyBook \in Book
  BY BookAssumption DEF EmptyBook, Book
<1>2. Held(EmptyBook) = {} /\ Buying(EmptyBook) = {}
  BY DEF EmptyBook, Held, Buying
<1>3. EmptyBook.sell = {} /\ \A s \in Symbols : EmptyBook.lastExit[s] = 0
  BY DEF EmptyBook
<1> QED
  BY <1>1, <1>2, <1>3 DEF Consistent

LEMMA InitInv == Init => IInv
<1> SUFFICES ASSUME Init PROVE IInv
  OBVIOUS
<1>1. \A e \in Engines : book[e] = EmptyBook
  BY DEF Init
<1>2. TypeOK
  <2>1. day \in 0 .. LastDay
    BY DaysAssumption DEF Init
  <2>2. today \in [Symbols -> Bars \union {NoBar}]
    BY DaysAssumption DEF Init
  <2>3. candles \in [Symbols -> Seq([day : 0 .. day, bar : Bars])]
    <3>1. PriorDays \in Nat /\ day = PriorDays /\ QuietBar \in Bars
      BY DaysAssumption DEF Init
    <3>2. [d \in 1 .. PriorDays |-> [day |-> d, bar |-> QuietBar]] \in Seq([day : 0 .. day, bar : Bars])
      BY <3>1
    <3> QED
      BY <3>2 DEF Init
  <2>4. price \in [Symbols -> Nat]
    BY DaysAssumption DEF Init, Bars
  <2>5. book \in [Engines -> Book]
    BY EmptyBookFacts DEF Init
  <2>6. \A e \in Engines : Consistent(book[e], day)
    BY <1>1, <2>1, EmptyBookFacts
  <2>7. /\ proposed \in [qty : [DOMAIN proposed.qty -> Nat \ {0}], stop : [DOMAIN proposed.qty -> Int]]
        /\ DOMAIN proposed.qty \subseteq Symbols
    BY DEF Init, NoProposals
  <2> QED
    BY <2>1, <2>2, <2>3, <2>4, <2>5, <2>6, <2>7 DEF TypeOK, Init
<1>3. SamePath
  BY <1>1 DEF SamePath, Init, Engines
<1>4. Reserved /\ Protected
  BY <1>1, EmptyBookFacts DEF Reserved, Protected
<1>5. ProposedFlat
  BY DEF ProposedFlat, Init
<1> QED
  BY <1>2, <1>3, <1>4, <1>5 DEF IInv

\* The types on a new day.
LEMMA NewDayType ==
  ASSUME TypeOK, NEW bars \in DayBars, NewDay(bars)
  PROVE  TypeOK'
<1>1. day' = day + 1 /\ day' \in 0 .. LastDay /\ day \in Nat /\ day' \in Nat
  BY DaysAssumption DEF TypeOK, NewDay
<1>2. bars \in [Symbols -> Bars \union {NoBar}]
  BY DaysAssumption
<1>3. candles' \in [Symbols -> Seq([day : 0 .. day', bar : Bars])]
  <2> DEFINE Old == [day : 0 .. day, bar : Bars]
             Row == [day : 0 .. day', bar : Bars]
  <2>1. Old \subseteq Row
    BY <1>1
  <2> SUFFICES ASSUME NEW s \in Symbols
               PROVE  (IF bars[s] = NoBar THEN candles[s]
                       ELSE Append(candles[s], [day |-> day + 1, bar |-> bars[s]])) \in Seq(Row)
    BY DEF NewDay
  <2>2. candles[s] \in Seq(Old)
    BY DEF TypeOK
  <2>3. candles[s] \in Seq(Row)
    <3> HIDE DEF Old, Row
    <3> QED
      BY <2>1, <2>2
  <2>4. bars[s] # NoBar => [day |-> day + 1, bar |-> bars[s]] \in Row
    BY <1>1, <1>2
  <2> HIDE DEF Old, Row
  <2> QED
    BY <2>3, <2>4
<1>4. price' \in [Symbols -> Nat]
  BY <1>2 DEF NewDay, TypeOK, Bars
<1>5. ASSUME NEW e \in Engines PROVE book'[e] \in Book /\ Consistent(book'[e], day')
  <2>1. PICK d \in Nat, b \in Book : d = day' /\ b = book[e] /\ Consistent(b, d - 1)
    BY <1>1 DEF TypeOK
  <2>2. PICK c : c = book'[e] /\ c = Advance(b, bars, d)
    BY <1>1, <1>5, <2>1 DEF NewDay
  <2>3. c \in Book
    BY <1>2, <2>1, <2>2, BookAdvanced
  <2>4. Consistent(c, d)
    BY <1>2, <2>1, <2>2, AdvancedConsistent
  <2> QED
    BY <2>1, <2>2, <2>3, <2>4
<1>6. book' \in [Engines -> Book]
  BY <1>5 DEF NewDay
<1>7. /\ strategy' \in {"trendfollow", "momentum"}
      /\ today' \in [Symbols -> Bars \union {NoBar}]
      /\ breaker' \in BOOLEAN
      /\ pc' \in {"candles", "backtest", "live", "decisions"}
      /\ apart' \subseteq {"universe", "empty", "cooldown", "missed", "refused", "naked"}
      /\ naked' \subseteq Symbols
  BY <1>2 DEF NewDay, TypeOK
<1>8. (/\ proposed \in [qty : [DOMAIN proposed.qty -> Nat \ {0}], stop : [DOMAIN proposed.qty -> Int]]
       /\ DOMAIN proposed.qty \subseteq Symbols)'
  BY DEF NewDay, TypeOK
<1> QED
  BY <1>1, <1>3, <1>4, <1>5, <1>6, <1>7, <1>8 DEF TypeOK

\* A queued entry opens with the stop that waits for it.
LEMMA NewDayStops ==
  ASSUME TypeOK, Reserved, Protected, NEW bars \in DayBars, NewDay(bars)
  PROVE  Reserved' /\ Protected'
<1>1. day' = day + 1 /\ day \in Nat /\ day' \in Nat
  BY DaysAssumption DEF TypeOK, NewDay
<1>2. bars \in [Symbols -> Bars \union {NoBar}]
  BY DaysAssumption
<1>3. ASSUME NEW e \in Engines, NEW s \in Symbols
      PROVE  /\ s \in Held(book'[e]) => book'[e].pos[s].stop > 0 \/ (e = "live" /\ s \in naked)
             /\ s \in Buying(book'[e]) => book'[e].stops[s] > 0 \/ (e = "live" /\ s \in naked)
  <2>1. PICK b \in Book : b = book[e] /\ Consistent(b, day' - 1)
    BY <1>1 DEF TypeOK
  <2>2. PICK c : c = book'[e] /\ c = Advance(b, bars, day')
    BY <1>1, <1>3, <2>1 DEF NewDay
  <2>3. /\ s \in Held(b) => b.pos[s].stop > 0 \/ (e = "live" /\ s \in naked)
        /\ s \in Buying(b) => b.stops[s] > 0 \/ (e = "live" /\ s \in naked)
    BY <2>1 DEF Reserved, Protected
  <2>4. /\ s \in Bought(b, bars) => c.pos[s].stop = b.stops[s]
        /\ s \in Held(b) \ Left(b, bars) => c.pos[s].stop = b.pos[s].stop
    BY <1>1, <1>2, <2>1, <2>2, PositionAdvanced
  <2>5. s \in Held(c) => s \in Bought(b, bars) \/ (s \in Held(b) /\ s \notin Left(b, bars))
    BY <1>1, <1>2, <2>1, <2>2, AdvancedConsistent
  <2>6. s \in Bought(b, bars) => s \in Buying(b)
    BY DEF Bought
  <2>7. /\ c.buy[s] = IF s \in Bought(b, bars) THEN 0 ELSE b.buy[s]
        /\ c.stops[s] = IF s \in Bought(b, bars) THEN 0 ELSE b.stops[s]
    BY <1>1, <1>2, <2>1, <2>2, BookAdvanced
  <2>8. s \in Buying(c) => s \in Buying(b) /\ c.stops[s] = b.stops[s]
    BY <2>7 DEF Buying
  <2> QED
    BY <2>2, <2>3, <2>4, <2>5, <2>6, <2>8
<1>4. naked' = naked \intersect (Held(book'["live"]) \union Buying(book'["live"]))
  BY DEF NewDay
<1>5. \A e \in Engines : \A s \in Held(book'[e]) \union Buying(book'[e]) : s \in Symbols
  BY DEF Held, Buying
<1>6. Reserved'
  <2> SUFFICES ASSUME NEW e \in Engines, NEW s \in Buying(book'[e])
               PROVE  book'[e].stops[s] > 0 \/ (e = "live" /\ s \in naked')
    BY DEF Reserved
  <2> QED
    BY <1>3, <1>4, <1>5
<1>7. Protected'
  <2> SUFFICES ASSUME NEW e \in Engines, NEW s \in Held(book'[e])
               PROVE  book'[e].pos[s].stop > 0 \/ (e = "live" /\ s \in naked')
    BY DEF Protected
  <2> QED
    BY <1>3, <1>4, <1>5
<1> QED
  BY <1>6, <1>7

\* Equal books advance to equal books.
LEMMA NewDayPath ==
  ASSUME TypeOK, SamePath, NEW bars \in DayBars, NewDay(bars)
  PROVE  SamePath' /\ ProposedFlat'
<1>1. pc = "candles" /\ pc' = "backtest" /\ apart' = apart
  BY DEF NewDay
<1>2. \A e \in Engines : book'[e] = Advance(book[e], bars, day + 1)
  BY DEF NewDay
<1>3. apart' = {} => book'["backtest"] = book'["live"]
  BY <1>1, <1>2 DEF SamePath, Engines
<1> QED
  BY <1>1, <1>3 DEF SamePath, ProposedFlat

-----------------------------------------------------------------------------
(***************************************************************************)
(* BacktestDay                                                             *)
(***************************************************************************)
\* Exits are queued for positions, entries beside them, and each with its stop.
LEMMA BacktestedBook ==
  ASSUME TypeOK, NEW b \in Book, Consistent(b, day), NEW c, c = Backtested(b)
  PROVE  /\ c \in Book /\ Consistent(c, day)
         /\ Held(c) = Held(b)
         /\ b.sell \subseteq c.sell
         /\ \A s \in Held(b) : /\ c.pos[s].stop >= b.pos[s].stop
                               /\ b.pos[s].stop > 0 => c.pos[s].stop > 0
         /\ \A s \in Buying(c) : \/ c.stops[s] > 0
                                 \/ s \in Buying(b) /\ c.stops[s] = b.stops[s]
         /\ day > WarmupBars(strategy) + 1 /\ BacktestUniverse # {} =>
              Signals(strategy, day, SeriesOf(BacktestUniverse), BacktestUniverse,
                      Held(b), b.pos).exits \subseteq c.sell
<1>1. PICK signals :
        signals = Signals(strategy, day, SeriesOf(BacktestUniverse), BacktestUniverse, Held(b), b.pos)
  OBVIOUS
<1>2. BacktestUniverse \subseteq {s \in Symbols : today[s] # NoBar}
  BY DEF BacktestUniverse
<1>3. Sound(signals, b) /\ DOMAIN signals.enters \subseteq BacktestUniverse
  BY <1>1, <1>2, SignalsSound
<1>4. CASE ~(day > WarmupBars(strategy) + 1 /\ BacktestUniverse # {})
  <2>1. c = b
    BY <1>4 DEF Backtested
  <2>2. \A s \in Held(b) : b.pos[s].stop \in Nat
    BY HeldIsPosition DEF Held, Position
  <2> QED
    BY <1>4, <2>1, <2>2
<1>5. CASE day > WarmupBars(strategy) + 1 /\ BacktestUniverse # {}
  <2>1. PICK qty \in [DOMAIN signals.enters -> Nat] : qty = Gated(b, signals, day)
    BY <1>2, <1>3, GatedType
  <2>2. PICK l : l = Leave(b, signals)
    OBVIOUS
  <2>3. c = Enter(l, qty, signals.enters)
    BY <1>1, <1>5, <2>1, <2>2 DEF Backtested
  <2>4. /\ l \in Book
        /\ Held(l) = Held(b) /\ l.buy = b.buy /\ l.lastExit = b.lastExit
        /\ l.sell = b.sell \union signals.exits
        /\ \A s \in Held(b) :
             /\ l.pos[s].stop >= b.pos[s].stop
             /\ b.pos[s].stop > 0 => l.pos[s].stop > 0
        /\ \A s \in Symbols : s \notin Held(b) => l.stops[s] = b.stops[s]
    BY <1>3, <2>2, LeaveSubmitted
  <2> DEFINE stop == signals.enters
             wanted == {s \in DOMAIN qty : qty[s] > 0 /\ stop[s] > 0 /\ l.buy[s] = 0}
  <2>5. PICK W, q, t :
          W = wanted /\ q = [s \in W |-> qty[s]] /\ t = [s \in W |-> stop[s]]
    OBVIOUS
  <2>6. PICK m, k : m = SubmitBuys(l, q) /\ k = SubmitStops(m, t) /\ c = k
    BY <2>3, <2>5 DEF Enter
  <2>7. W \subseteq Symbols /\ \A s \in W : s \notin Held(l) /\ l.buy[s] = 0
    BY <1>3, <2>4, <2>5 DEF Sound
  <2>8. q \in [W -> Nat \ {0}] /\ t \in [W -> Int]
    BY <1>3, <2>1, <2>5 DEF Sound
  <2>9. \A s \in W : t[s] > 0
    BY <2>5
  <2>10. Entered(l, W, t, c)
    <3>1. l \in Book /\ m = SubmitBuys(l, q) /\ k = SubmitStops(m, t)
      BY <2>4, <2>6
    <3>2. Entered(l, W, t, k)
      BY <3>1, <2>7, <2>8, EntriesSubmitted
    <3> QED
      BY <2>6, <3>2
  <2>11. Buying(l) = Buying(b)
    BY <2>4 DEF Buying
  <2>12. Consistent(c, day)
    BY <1>3, <2>4, <2>7, <2>10, <2>11 DEF Consistent, Sound, Entered
  <2>13. \A s \in Buying(b) : s \in Symbols /\ s \notin Held(b)
    BY DEF Buying, Consistent
  <2>14. \A s \in Buying(c) : c.stops[s] > 0 \/ (s \in Buying(b) /\ c.stops[s] = b.stops[s])
    BY <2>4, <2>9, <2>10, <2>11, <2>13 DEF Entered
  <2> QED
    BY <1>1, <2>4, <2>10, <2>12, <2>14 DEF Entered
<1> QED
  BY <1>4, <1>5

LEMMA BacktestDayInv ==
  ASSUME IInv, BacktestDay
  PROVE  IInv'
<1>0. TypeOK /\ SamePath /\ Reserved /\ Protected /\ ProposedFlat
  BY DEF IInv
<1>1. PICK b \in Book : b = book["backtest"] /\ Consistent(b, day)
  BY <1>0 DEF TypeOK, Engines
<1>2. PICK c : c = Backtested(b)
  OBVIOUS
<1>3. /\ pc = "backtest" /\ pc' = "live"
      /\ book' = [book EXCEPT !["backtest"] = c]
      /\ UNCHANGED <<strategy, day, today, candles, price, breaker, proposed, apart, naked>>
  BY <1>1, <1>2 DEF BacktestDay, Backtested, marketVars
<1>4. /\ c \in Book /\ Consistent(c, day)
      /\ Held(c) = Held(b)
      /\ \A s \in Held(b) : b.pos[s].stop > 0 => c.pos[s].stop > 0
      /\ \A s \in Buying(c) : \/ c.stops[s] > 0
                              \/ s \in Buying(b) /\ c.stops[s] = b.stops[s]
  BY <1>0, <1>1, <1>2, BacktestedBook
<1>5. book'["backtest"] = c /\ book'["live"] = book["live"]
  BY <1>0, <1>3 DEF TypeOK, Engines
<1>6. TypeOK'
  <2>1. book' \in [Engines -> Book]
    BY <1>0, <1>3, <1>4 DEF TypeOK
  <2>2. \A e \in Engines : Consistent(book'[e], day')
    BY <1>0, <1>3, <1>4, <1>5 DEF TypeOK, Engines
  <2> QED
    BY <1>0, <1>3, <2>1, <2>2 DEF TypeOK
<1>7. SamePath'
  <2>1. apart = {} => b = book["live"]
    BY <1>0, <1>1, <1>3 DEF SamePath
  <2>2. Backtested(book["live"])' = Backtested(book["live"])
    BY <1>3, <1>5 DEF Backtested, BacktestUniverse, SeriesOf, Gated
  <2> QED
    BY <1>2, <1>3, <1>5, <2>1, <2>2 DEF SamePath
<1>8. Reserved'
  <2> SUFFICES ASSUME NEW e \in Engines, NEW s \in Buying(book'[e])
               PROVE  book'[e].stops[s] > 0 \/ (e = "live" /\ s \in naked')
    BY DEF Reserved
  <2>1. CASE e = "backtest"
    <3>1. s \in Buying(b) => b.stops[s] > 0
      BY <1>0, <1>1 DEF Reserved, Engines
    <3> QED
      BY <1>4, <1>5, <2>1, <3>1
  <2>2. CASE e = "live"
    BY <1>0, <1>3, <1>5, <2>2 DEF Reserved
  <2> QED
    BY <2>1, <2>2 DEF Engines
<1>9. Protected'
  <2> SUFFICES ASSUME NEW e \in Engines, NEW s \in Held(book'[e])
               PROVE  book'[e].pos[s].stop > 0 \/ (e = "live" /\ s \in naked')
    BY DEF Protected
  <2>1. CASE e = "backtest"
    <3>1. s \in Held(b) => b.pos[s].stop > 0
      BY <1>0, <1>1 DEF Protected, Engines
    <3> QED
      BY <1>4, <1>5, <2>1, <3>1
  <2>2. CASE e = "live"
    BY <1>0, <1>3, <1>5, <2>2 DEF Protected
  <2> QED
    BY <2>1, <2>2 DEF Engines
<1>10. ProposedFlat'
  BY <1>3 DEF ProposedFlat
<1> QED
  BY <1>6, <1>7, <1>8, <1>9, <1>10 DEF IInv

-----------------------------------------------------------------------------
(***************************************************************************)
(* LiveRun                                                                 *)
(***************************************************************************)
\* Submitting nothing changes nothing.
LEMMA NothingSubmitted ==
  ASSUME NEW b \in Book, NEW f, DOMAIN f = {}
  PROVE  SubmitStops(b, f) = b /\ SubmitBuys(b, f) = b /\ SubmitSells(b, {}) = b
<1>1. /\ b.pos = [s \in Symbols |-> b.pos[s]] /\ b.stops = [s \in Symbols |-> b.stops[s]]
      /\ b.buy = [s \in Symbols |-> b.buy[s]]
      /\ b = [cash |-> b.cash, pos |-> b.pos, buy |-> b.buy, sell |-> b.sell, stops |-> b.stops,
              lastExit |-> b.lastExit]
  BY DEF Book
<1>2. SubmitStops(b, f) = b
  <2>1. SubmitStops(b, f) = [b EXCEPT !.pos = [s \in Symbols |-> b.pos[s]],
                                      !.stops = [s \in Symbols |-> b.stops[s]]]
    BY DEF SubmitStops
  <2> QED
    BY <1>1, <2>1
<1>3. SubmitBuys(b, f) = b
  <2>1. SubmitBuys(b, f) = [b EXCEPT !.buy = [s \in Symbols |-> b.buy[s]]]
    BY DEF SubmitBuys
  <2> QED
    BY <1>1, <2>1
<1>4. SubmitSells(b, {}) = b
  <2>1. SubmitSells(b, {}) = [b EXCEPT !.sell = b.sell]
    BY DEF SubmitSells
  <2> QED
    BY <1>1, <2>1
<1> QED
  BY <1>2, <1>3, <1>4

LEMMA LiveUniverseTrades ==
  ASSUME TypeOK
  PROVE  LiveUniverse \subseteq {s \in Symbols : today[s] # NoBar}
<1>1. DOMAIN candles = Symbols
  BY DEF TypeOK
<1> QED
  BY <1>1 DEF LiveUniverse, Build, CapByMaxSymbols

\* The entries left when every proposal is approved, as LiveRun would propose them.
Ordered(l, qty, stop) ==
  LET usable == {s \in DOMAIN qty : qty[s] > 0 /\ stop[s] > 0 /\ l.buy[s] = 0}
  IN  SubmitStops(SubmitBuys(l, [s \in usable |-> qty[s]]), [s \in usable |-> stop[s]])

\* Without a cooldown in between, a day later the gate answers the same.
LEMMA GatedSame ==
  ASSUME TypeOK, NEW b \in Book, NEW signals, Sound(signals, b),
         \A s \in DOMAIN signals.enters : ~CoolingDown(day, b.lastExit[s])
  PROVE  Gated(b, signals, day) = Gated(b, signals, day + 1)
<1> SUFFICES ASSUME NEW s \in DOMAIN signals.enters
             PROVE  CoolingDown(day, b.lastExit[s]) <=> CoolingDown(day + 1, b.lastExit[s])
  BY DEF Gated, Evaluate, Allowed
<1>1. PICK e \in Nat : e = b.lastExit[s]
  BY DEF Sound, Book
<1>2. day \in Nat /\ CooldownDays \in Nat
  BY DaysAssumption, GateAssumption DEF TypeOK
<1> QED
  BY <1>1, <1>2 DEF CoolingDown

LEMMA WarmupType == strategy \in {"trendfollow", "momentum"} => WarmupBars(strategy) \in Nat
<1> SUFFICES ASSUME strategy \in {"trendfollow", "momentum"} PROVE WarmupBars(strategy) \in Nat
  OBVIOUS
<1> DEFINE T == TrendPeriods
           R == {p + 1 : p \in ReturnPeriods} \union LevelPeriods
<1>1. T \subseteq Nat /\ T # {} /\ IsFiniteSet(T)
  BY StrategyAssumption
<1>2. R \subseteq Nat /\ R # {}
  <2>1. PICK q \in ReturnPeriods : q + 1 \in R
    BY StrategyAssumption
  <2>2. \A p \in ReturnPeriods : p + 1 \in Nat
    BY StrategyAssumption
  <2> QED
    BY <2>1, <2>2, StrategyAssumption
<1>3. IsFiniteSet(R)
  <2>1. IsFiniteSet({p + 1 : p \in ReturnPeriods})
    <3> DEFINE P == {p + 1 : p \in ReturnPeriods}
               f == [p \in ReturnPeriods |-> p + 1]
    <3>1. f \in Surjection(ReturnPeriods, P)
      BY DEF Surjection
    <3> QED
      BY <3>1, FS_Surjection, StrategyAssumption
  <2> QED
    BY <2>1, FS_Union, StrategyAssumption
<1>4. \A S : S \subseteq Nat /\ S # {} /\ IsFiniteSet(S) => Max(S) \in Nat
  BY GreatestExists DEF Max
<1> QED
  BY <1>1, <1>2, <1>3, <1>4 DEF WarmupBars

\* When nothing tells the engines apart, what the backtest does in one step the live
\* run does in two: it leaves, and its approved proposals enter.
LEMMA SameDecision ==
  ASSUME TypeOK, NEW b \in Book, b = book["live"], NEW signals,
         signals = Signals(strategy, day, SeriesOf(LiveUniverse), LiveUniverse, Held(b), b.pos),
         Differences(signals) = {}
  PROVE  Backtested(b) = Ordered(Leave(b, signals), Gated(b, signals, day + 1), signals.enters)
<1>1. LiveUniverse \subseteq {s \in Symbols : today[s] # NoBar}
  BY LiveUniverseTrades
<1>2. Sound(signals, b)
  BY <1>1, SignalsSound
<1>3. /\ LiveUniverse = BacktestUniverse /\ ~(day <= WarmupBars(strategy) + 1)
      /\ BacktestUniverse = {} => signals = NoSignals
      /\ \A s \in DOMAIN signals.enters : ~CoolingDown(day, b.lastExit[s])
  BY DEF Differences
<1>4. day > WarmupBars(strategy) + 1
  <2>1. day \in Nat /\ WarmupBars(strategy) \in Nat
    BY DaysAssumption, WarmupType DEF TypeOK
  <2> QED
    BY <1>3, <2>1
<1>5. Gated(b, signals, day) = Gated(b, signals, day + 1)
  BY <1>2, <1>3, GatedSame
<1>6. CASE BacktestUniverse = {}
  <2>1. signals = NoSignals
    BY <1>3, <1>6
  <2>2. Backtested(b) = b
    BY <1>6 DEF Backtested
  <2>3. \A f : DOMAIN f = {} => SubmitStops(b, f) = b /\ SubmitBuys(b, f) = b
    BY NothingSubmitted
  <2>4. SubmitSells(b, {}) = b
    <3>1. DOMAIN [s \in {} |-> 0] = {}
      OBVIOUS
    <3> QED
      BY <3>1, NothingSubmitted
  <2>5. Leave(b, signals) = b
    <3>1. signals.exits = {} /\ DOMAIN signals.stops = {}
      BY <2>1 DEF NoSignals
    <3>2. SubmitStops(b, signals.stops) = b
      BY <2>3, <3>1
    <3> QED
      BY <2>4, <3>1, <3>2 DEF Leave
  <2>6. DOMAIN Gated(b, signals, day + 1) = {}
    BY <2>1 DEF NoSignals, Gated
  <2>7. PICK qty, stop : qty = Gated(b, signals, day + 1) /\ stop = signals.enters
    OBVIOUS
  <2>8. Ordered(b, qty, stop) = b
    <3> DEFINE usable == {s \in DOMAIN qty : qty[s] > 0 /\ stop[s] > 0 /\ b.buy[s] = 0}
    <3>1. usable = {}
      BY <2>6, <2>7
    <3>2. PICK f, g : f = [s \in usable |-> qty[s]] /\ g = [s \in usable |-> stop[s]]
      OBVIOUS
    <3>3. DOMAIN f = {} /\ DOMAIN g = {}
      BY <3>1, <3>2
    <3>4. SubmitBuys(b, f) = b /\ SubmitStops(b, g) = b
      BY <2>3, <3>3
    <3> QED
      BY <3>2, <3>4 DEF Ordered
  <2> QED
    BY <2>2, <2>5, <2>7, <2>8
<1>7. CASE BacktestUniverse # {}
  <2>1. signals =
          Signals(strategy, day, SeriesOf(BacktestUniverse), BacktestUniverse, Held(b), b.pos)
    BY <1>3
  <2>2. Backtested(b) = Enter(Leave(b, signals), Gated(b, signals, day), signals.enters)
    BY <1>4, <1>7, <2>1 DEF Backtested
  <2>3. \A l, qty, stop : Enter(l, qty, stop) = Ordered(l, qty, stop)
    BY DEF Enter, Ordered
  <2> QED
    BY <1>5, <2>2, <2>3
<1> QED
  BY <1>6, <1>7

LEMMA LiveRunInv ==
  ASSUME IInv, LiveRun
  PROVE  IInv'
<1>0. TypeOK /\ SamePath /\ Reserved /\ Protected /\ ProposedFlat
  BY DEF IInv
<1>1. PICK b \in Book : b = book["live"] /\ Consistent(b, day)
  BY <1>0 DEF TypeOK, Engines
<1>2. PICK signals :
        signals = Signals(strategy, day, SeriesOf(LiveUniverse), LiveUniverse, Held(b), b.pos)
  OBVIOUS
<1>3. LiveUniverse \subseteq {s \in Symbols : today[s] # NoBar}
  BY <1>0, LiveUniverseTrades
<1>4. Sound(signals, b) /\ DOMAIN signals.enters \subseteq LiveUniverse
  BY <1>0, <1>2, <1>3, SignalsSound
<1>5. PICK qty \in [DOMAIN signals.enters -> Nat] : qty = Gated(b, signals, day + 1)
  BY <1>0, <1>3, <1>4, GatedType
<1>6. PICK l, approved :
        l = Leave(b, signals) /\ approved = {s \in DOMAIN qty : qty[s] > 0}
  OBVIOUS
<1>7. /\ pc = "live" /\ pc' = "decisions"
      /\ book' = [book EXCEPT !["live"] = l]
      /\ proposed' = [qty |-> [s \in approved |-> qty[s]],
                      stop |-> [s \in approved |-> signals.enters[s]]]
      /\ apart' = apart \union Differences(signals)
      /\ UNCHANGED <<strategy, day, today, candles, price, breaker, naked>>
  BY <1>1, <1>2, <1>5, <1>6 DEF LiveRun, marketVars
<1>8. l = Leave(b, signals) /\ approved \subseteq DOMAIN signals.enters
  BY <1>6
<1>9. /\ l \in Book
      /\ Held(l) = Held(b) /\ l.buy = b.buy /\ l.lastExit = b.lastExit
      /\ l.sell = b.sell \union signals.exits
      /\ \A s \in Held(b) : b.pos[s].stop > 0 => l.pos[s].stop > 0
      /\ \A s \in Symbols : s \notin Held(b) => l.stops[s] = b.stops[s]
  BY <1>4, <1>8, LeaveSubmitted
<1>10. book'["live"] = l /\ book'["backtest"] = book["backtest"]
  BY <1>0, <1>7 DEF TypeOK, Engines
<1>11. Buying(l) = Buying(b)
  BY <1>9 DEF Buying
<1>12. TypeOK'
  <2>1. book' \in [Engines -> Book]
    BY <1>0, <1>7, <1>9 DEF TypeOK
  <2>2. Consistent(l, day)
    BY <1>1, <1>4, <1>9, <1>11 DEF Consistent, Sound
  <2>3. \A e \in Engines : Consistent(book'[e], day')
    BY <1>0, <1>7, <1>10, <2>2 DEF TypeOK, Engines
  <2>4. DOMAIN proposed'.qty = approved /\ approved \subseteq Symbols
    BY <1>4, <1>7, <1>8 DEF Sound
  <2>5. /\ [s \in approved |-> qty[s]] \in [approved -> Nat \ {0}]
        /\ [s \in approved |-> signals.enters[s]] \in [approved -> Int]
    BY <1>4, <1>5, <1>6 DEF Sound
  <2>6. (/\ proposed \in [qty : [DOMAIN proposed.qty -> Nat \ {0}], stop : [DOMAIN proposed.qty -> Int]]
         /\ DOMAIN proposed.qty \subseteq Symbols)'
    BY <1>7, <2>4, <2>5
  <2>7. apart' \subseteq {"universe", "empty", "cooldown", "missed", "refused", "naked"}
    BY <1>0, <1>7 DEF TypeOK, Differences
  <2> QED
    BY <1>0, <1>7, <2>1, <2>3, <2>6, <2>7 DEF TypeOK
<1>13. SamePath'
  <2> SUFFICES ASSUME apart' = {} PROVE book'["backtest"] = Approved(l)'
    BY <1>7, <1>10 DEF SamePath, Approved
  <2>1. apart = {} /\ Differences(signals) = {}
    BY <1>7
  <2>2. book["backtest"] = Backtested(b)
    BY <1>0, <1>1, <1>7, <2>1 DEF SamePath
  <2>3. Backtested(b) = Ordered(l, qty, signals.enters)
    BY <1>0, <1>1, <1>2, <1>5, <1>6, <2>1, SameDecision
  <2> DEFINE stop == signals.enters
             usable == {s \in DOMAIN qty : qty[s] > 0 /\ stop[s] > 0 /\ l.buy[s] = 0}
             left == {s \in DOMAIN proposed'.qty : proposed'.stop[s] > 0 /\ l.buy[s] = 0}
  <2>4. /\ DOMAIN proposed'.qty = approved
        /\ \A s \in approved : proposed'.qty[s] = qty[s] /\ proposed'.stop[s] = stop[s]
    BY <1>7
  <2>5. left = usable /\ usable \subseteq approved
    BY <1>6, <2>4
  <2>6. /\ [s \in left |-> proposed'.qty[s]] = [s \in usable |-> qty[s]]
        /\ [s \in left |-> proposed'.stop[s]] = [s \in usable |-> stop[s]]
    BY <2>4, <2>5
  <2>7. Approved(l)' = SubmitStops(SubmitBuys(l, [s \in left |-> proposed'.qty[s]]),
                                   [s \in left |-> proposed'.stop[s]])
    BY DEF Approved
  <2>8. Ordered(l, qty, stop) = SubmitStops(SubmitBuys(l, [s \in usable |-> qty[s]]),
                                            [s \in usable |-> stop[s]])
    BY DEF Ordered
  <2> HIDE DEF left, usable, stop
  <2>9. Ordered(l, qty, stop) = Approved(l)'
    BY <2>6, <2>7, <2>8
  <2> QED
    BY <1>10, <2>2, <2>3, <2>9 DEF stop
<1>14. Reserved'
  <2> SUFFICES ASSUME NEW e \in Engines, NEW s \in Buying(book'[e])
               PROVE  book'[e].stops[s] > 0 \/ (e = "live" /\ s \in naked')
    BY DEF Reserved
  <2>1. CASE e = "live"
    <3>1. s \in Buying(b) /\ s \in Symbols /\ s \notin Held(b)
      BY <1>1, <1>10, <1>11, <2>1 DEF Consistent, Buying
    <3>2. b.stops[s] > 0 \/ s \in naked
      BY <1>0, <1>1, <3>1 DEF Reserved, Engines
    <3> QED
      BY <1>7, <1>9, <1>10, <2>1, <3>1, <3>2
  <2>2. CASE e = "backtest"
    BY <1>0, <1>7, <1>10, <2>2 DEF Reserved
  <2> QED
    BY <2>1, <2>2 DEF Engines
<1>15. Protected'
  <2> SUFFICES ASSUME NEW e \in Engines, NEW s \in Held(book'[e])
               PROVE  book'[e].pos[s].stop > 0 \/ (e = "live" /\ s \in naked')
    BY DEF Protected
  <2>1. CASE e = "live"
    <3>1. s \in Held(b)
      BY <1>9, <1>10, <2>1
    <3>2. b.pos[s].stop > 0 \/ s \in naked
      BY <1>0, <1>1, <3>1 DEF Protected, Engines
    <3> QED
      BY <1>7, <1>9, <1>10, <2>1, <3>1, <3>2
  <2>2. CASE e = "backtest"
    BY <1>0, <1>7, <1>10, <2>2 DEF Protected
  <2> QED
    BY <2>1, <2>2 DEF Engines
<1>16. ProposedFlat'
  <2>1. DOMAIN proposed'.qty = approved
    BY <1>7
  <2> QED
    BY <1>4, <1>8, <1>9, <1>10, <2>1 DEF ProposedFlat, Sound
<1> QED
  BY <1>12, <1>13, <1>14, <1>15, <1>16 DEF IInv

-----------------------------------------------------------------------------
(***************************************************************************)
(* LiveRunFails and LiveSubmit                                             *)
(***************************************************************************)
LEMMA LiveRunFailsInv ==
  ASSUME IInv, LiveRunFails
  PROVE  IInv'
<1>0. TypeOK /\ SamePath /\ Reserved /\ Protected /\ ProposedFlat
  BY DEF IInv
<1>1. /\ pc = "live" /\ pc' = "candles" /\ apart' = apart \union {"missed"}
      /\ UNCHANGED <<strategy, day, today, candles, price, breaker, book, proposed, naked>>
  BY DEF LiveRunFails, marketVars
<1>2. TypeOK'
  BY <1>0, <1>1 DEF TypeOK
<1>3. SamePath'
  BY <1>1 DEF SamePath
<1>4. Reserved' /\ Protected'
  BY <1>0, <1>1 DEF Reserved, Protected
<1>5. ProposedFlat'
  BY <1>1 DEF ProposedFlat
<1> QED
  BY <1>2, <1>3, <1>4, <1>5 DEF IInv

\* The entries that LiveSubmit hands to the broker, as it computes them.
TakenUp(which, kept) ==
  LET open == {s \in which : book["live"].buy[s] = 0}
      bare == {s \in open : proposed.stop[s] <= 0}
  IN  (open \ bare) \union kept

\* Those are the ones with a stop and the ones that stay without one.
LEMMA ActualEntries ==
  ASSUME TypeOK, NEW which \in SUBSET DOMAIN proposed.qty, NEW kept \in SUBSET Symbols,
         LiveSubmit(which, kept)
  PROVE  {s \in which : book["live"].buy[s] = 0 /\ (proposed.stop[s] > 0 \/ s \in kept)}
           = TakenUp(which, kept)
<1>1. \A s \in which : proposed.stop[s] \in Int
  BY DEF TypeOK
<1>2. \A s \in kept : s \in which /\ book["live"].buy[s] = 0
  BY DEF LiveSubmit
<1> QED
  BY <1>1, <1>2 DEF TakenUp

LEMMA LiveSubmitInv ==
  ASSUME IInv, NEW which \in SUBSET DOMAIN proposed.qty, NEW kept \in SUBSET Symbols,
         LiveSubmit(which, kept)
  PROVE  IInv'
<1>0. TypeOK /\ SamePath /\ Reserved /\ Protected /\ ProposedFlat
  BY DEF IInv
<1>1. PICK b \in Book : b = book["live"] /\ Consistent(b, day)
  BY <1>0 DEF TypeOK, Engines
<1>2. PICK W, qty, stop, m, c :
        /\ W = {s \in which : b.buy[s] = 0 /\ (proposed.stop[s] > 0 \/ s \in kept)}
        /\ qty = [s \in W |-> proposed.qty[s]] /\ stop = [s \in W |-> proposed.stop[s]]
        /\ m = SubmitBuys(b, qty) /\ c = SubmitStops(m, stop)
  OBVIOUS
<1>3. /\ pc = "decisions" /\ pc' = "candles"
      /\ book' = [book EXCEPT !["live"] = c]
      /\ naked' = naked \union kept
      /\ apart' = apart
           \union (IF which # DOMAIN proposed.qty THEN {"refused"} ELSE {})
           \union (IF kept # {} THEN {"naked"} ELSE {})
      /\ proposed' = NoProposals
      /\ UNCHANGED <<strategy, day, today, candles, price, breaker>>
      /\ kept \subseteq which
  <2>1. W = TakenUp(which, kept)
    BY <1>0, <1>1, <1>2, ActualEntries
  <2>2. /\ pc = "decisions" /\ pc' = "candles"
        /\ naked' = naked \union kept
        /\ apart' = apart
             \union (IF which # DOMAIN proposed.qty THEN {"refused"} ELSE {})
             \union (IF kept # {} THEN {"naked"} ELSE {})
        /\ proposed' = NoProposals
        /\ UNCHANGED <<strategy, day, today, candles, price, breaker>>
        /\ kept \subseteq which
    BY DEF LiveSubmit, marketVars
  <2>3. book' = [book EXCEPT !["live"] = c]
    BY <1>1, <1>2, <2>1 DEF LiveSubmit, TakenUp
  <2> QED
    BY <2>2, <2>3
<1>4. /\ DOMAIN proposed.qty \subseteq Symbols
      /\ \A s \in DOMAIN proposed.qty : proposed.qty[s] \in Nat \ {0} /\ proposed.stop[s] \in Int
  BY <1>0 DEF TypeOK
<1>5. /\ W \subseteq Symbols /\ W \subseteq DOMAIN proposed.qty
      /\ \A s \in W : s \notin Held(b) /\ b.buy[s] = 0
  BY <1>0, <1>1, <1>2, <1>3, <1>4 DEF ProposedFlat
<1>6. qty \in [W -> Nat \ {0}] /\ stop \in [W -> Int]
  BY <1>2, <1>4, <1>5
<1>7. m = SubmitBuys(b, qty) /\ c = SubmitStops(m, stop)
  BY <1>2
<1>8. Entered(b, W, stop, c)
  BY <1>5, <1>6, <1>7, EntriesSubmitted
<1>9. book'["live"] = c /\ book'["backtest"] = book["backtest"]
  BY <1>0, <1>3 DEF TypeOK, Engines
<1>10. TypeOK'
  <2>1. book' \in [Engines -> Book]
    BY <1>0, <1>3, <1>8 DEF TypeOK, Entered
  <2>2. Consistent(c, day)
    BY <1>1, <1>5, <1>8 DEF Consistent, Entered
  <2>3. \A e \in Engines : Consistent(book'[e], day')
    BY <1>0, <1>3, <1>9, <2>2 DEF TypeOK, Engines
  <2>4. (/\ proposed \in [qty : [DOMAIN proposed.qty -> Nat \ {0}], stop : [DOMAIN proposed.qty -> Int]]
         /\ DOMAIN proposed.qty \subseteq Symbols)'
    BY <1>3 DEF NoProposals
  <2>5. /\ apart' \subseteq {"universe", "empty", "cooldown", "missed", "refused", "naked"}
        /\ naked' \subseteq Symbols
    BY <1>0, <1>3, <1>5 DEF TypeOK
  <2> QED
    BY <1>0, <1>3, <2>1, <2>3, <2>4, <2>5 DEF TypeOK
<1>11. SamePath'
  <2> SUFFICES ASSUME apart' = {} PROVE book["backtest"] = c
    BY <1>3, <1>9 DEF SamePath
  <2>1. apart = {} /\ which = DOMAIN proposed.qty /\ kept = {}
    BY <1>3
  <2>2. book["backtest"] = Approved(b)
    BY <1>0, <1>1, <1>3, <2>1 DEF SamePath
  <2> DEFINE usable == {s \in DOMAIN proposed.qty : proposed.stop[s] > 0 /\ b.buy[s] = 0}
  <2>3. usable = W
    BY <1>2, <1>4, <1>5, <2>1
  <2>4. Approved(b) = SubmitStops(SubmitBuys(b, [s \in usable |-> proposed.qty[s]]),
                                  [s \in usable |-> proposed.stop[s]])
    BY DEF Approved
  <2> HIDE DEF usable
  <2> QED
    BY <1>2, <2>2, <2>3, <2>4
<1>12. Reserved'
  <2> SUFFICES ASSUME NEW e \in Engines, NEW s \in Buying(book'[e])
               PROVE  book'[e].stops[s] > 0 \/ (e = "live" /\ s \in naked')
    BY DEF Reserved
  <2>1. CASE e = "live"
    <3>1. s \in Buying(b) \/ s \in W
      BY <1>8, <1>9, <2>1 DEF Entered
    <3>2. CASE s \in Buying(b)
      <4>1. b.stops[s] > 0 \/ s \in naked
        BY <1>0, <1>1, <3>2 DEF Reserved, Engines
      <4> QED
        BY <1>3, <1>8, <1>9, <2>1, <3>2, <4>1 DEF Entered
    <3>3. CASE s \in W
      <4>1. proposed.stop[s] \in Int /\ stop[s] = proposed.stop[s]
        BY <1>2, <1>4, <1>5, <3>3
      <4>2. proposed.stop[s] > 0 \/ s \in naked'
        BY <1>2, <1>3, <3>3
      <4> QED
        BY <1>8, <1>9, <2>1, <3>3, <4>1, <4>2 DEF Entered
    <3> QED
      BY <3>1, <3>2, <3>3
  <2>2. CASE e = "backtest"
    BY <1>0, <1>9, <2>2 DEF Reserved
  <2> QED
    BY <2>1, <2>2 DEF Engines
<1>13. Protected'
  <2> SUFFICES ASSUME NEW e \in Engines, NEW s \in Held(book'[e])
               PROVE  book'[e].pos[s].stop > 0 \/ (e = "live" /\ s \in naked')
    BY DEF Protected
  <2>1. CASE e = "live"
    <3>1. s \in Held(b) /\ c.pos[s].stop = b.pos[s].stop
      BY <1>8, <1>9, <2>1 DEF Entered
    <3>2. b.pos[s].stop > 0 \/ s \in naked
      BY <1>0, <1>1, <3>1 DEF Protected, Engines
    <3> QED
      BY <1>3, <1>9, <2>1, <3>1, <3>2
  <2>2. CASE e = "backtest"
    BY <1>0, <1>9, <2>2 DEF Protected
  <2> QED
    BY <2>1, <2>2 DEF Engines
<1>14. ProposedFlat'
  BY <1>3 DEF ProposedFlat
<1> QED
  BY <1>10, <1>11, <1>12, <1>13, <1>14 DEF IInv

-----------------------------------------------------------------------------
(***************************************************************************)
(* The invariant and what it gives                                         *)
(***************************************************************************)
LEMMA StutterInv ==
  ASSUME IInv, UNCHANGED vars
  PROVE  IInv'
<1>0. TypeOK /\ SamePath /\ Reserved /\ Protected /\ ProposedFlat
  BY DEF IInv
<1>1. UNCHANGED <<strategy, day, today, candles, price, breaker, book, pc, proposed, apart, naked>>
  BY DEF vars, marketVars
<1>2. TypeOK'
  BY <1>0, <1>1 DEF TypeOK
<1>3. SamePath'
  <2>1. Backtested(book["live"])' = Backtested(book["live"])
    BY <1>1 DEF Backtested, BacktestUniverse, SeriesOf, Gated
  <2>2. Approved(book["live"])' = Approved(book["live"])
    BY <1>1 DEF Approved
  <2> QED
    BY <1>0, <1>1, <2>1, <2>2 DEF SamePath
<1>4. Reserved' /\ Protected' /\ ProposedFlat'
  BY <1>0, <1>1 DEF Reserved, Protected, ProposedFlat
<1> QED
  BY <1>2, <1>3, <1>4 DEF IInv

\* The conjunction is inductive: TradingDays keeps it from the first state on.
THEOREM Inductive == Spec => []IInv
<1>1. Init => IInv
  BY InitInv
<1>2. IInv /\ [Next]_vars => IInv'
  <2> SUFFICES ASSUME IInv, [Next]_vars PROVE IInv'
    OBVIOUS
  <2>1. ASSUME NEW bars \in DayBars, NewDay(bars) PROVE IInv'
    BY <2>1, NewDayType, NewDayStops, NewDayPath DEF IInv
  <2>2. CASE BacktestDay
    BY <2>2, BacktestDayInv
  <2>3. CASE LiveRun
    BY <2>3, LiveRunInv
  <2>4. CASE LiveRunFails
    BY <2>4, LiveRunFailsInv
  <2>5. ASSUME NEW which \in SUBSET DOMAIN proposed.qty, NEW kept \in SUBSET Symbols,
               LiveSubmit(which, kept)
        PROVE  IInv'
    BY <2>5, LiveSubmitInv
  <2>6. CASE UNCHANGED vars
    BY <2>6, StutterInv
  <2> QED
    BY <2>1, <2>2, <2>3, <2>4, <2>5, <2>6 DEF Next
<1> QED
  BY <1>1, <1>2, PTL DEF Spec

\* Both books keep their types, whatever the bars, the gate and the operator decide.
THEOREM TypeCorrect == Spec => []TypeOK
<1>1. IInv => TypeOK
  BY DEF IInv
<1> QED
  BY <1>1, Inductive, PTL

\* The project's first rule (engine.go, daily.go): with every proposal approved, both
\* engines build the same book until the first of their known differences.
THEOREM EnginesAgree == Spec => []OneCodePath
<1>1. IInv => OneCodePath
  BY DEF IInv, SamePath, OneCodePath
<1> QED
  BY <1>1, Inductive, PTL

\* Every open position has a stop (paper.go's reservation of stops, engine.go's and
\* daily.go's order of buy and stop).
THEOREM PositionsProtected == Spec => []Protected
<1>1. IInv => Protected
  BY DEF IInv
<1> QED
  BY <1>1, Inductive, PTL

-----------------------------------------------------------------------------
(***************************************************************************)
(* Stops only rise                                                         *)
(***************************************************************************)
StopsRise ==
  \A e \in Engines : \A s \in Held(book[e]) :
    book'[e].pos[s] # NoPosition => book'[e].pos[s].stop >= book[e].pos[s].stop

\* A book that is left alone keeps its stops.
LEMMA StopsStay ==
  ASSUME TypeOK, NEW e \in Engines, book'[e] = book[e], NEW s \in Held(book[e])
  PROVE  book'[e].pos[s].stop >= book[e].pos[s].stop
<1>1. PICK b \in Book : b = book[e]
  BY DEF TypeOK
<1>2. b.pos[s].stop \in Nat
  BY <1>1, HeldIsPosition DEF Held, Position
<1> QED
  BY <1>1, <1>2

LEMMA NewDayRises ==
  ASSUME TypeOK, NEW bars \in DayBars, NewDay(bars)
  PROVE  StopsRise
<1> SUFFICES ASSUME NEW e \in Engines, NEW s \in Held(book[e]), book'[e].pos[s] # NoPosition
             PROVE  book'[e].pos[s].stop >= book[e].pos[s].stop
  BY DEF StopsRise
<1>1. PICK d \in Nat, b \in Book : d = day + 1 /\ b = book[e] /\ Consistent(b, d - 1)
  BY DaysAssumption DEF TypeOK
<1>2. bars \in [Symbols -> Bars \union {NoBar}]
  BY DaysAssumption
<1>3. PICK c : c = book'[e] /\ c = Advance(b, bars, d)
  BY <1>1 DEF NewDay
<1>4. s \in Symbols /\ s \in Held(b)
  BY <1>1 DEF Held
<1>5. /\ s \in Left(b, bars) => c.pos[s] = NoPosition
      /\ s \in Held(b) \ Left(b, bars) => c.pos[s].stop = b.pos[s].stop
  BY <1>1, <1>2, <1>3, <1>4, PositionAdvanced
<1>6. b.pos[s].stop \in Nat
  BY <1>4, HeldIsPosition DEF Position
<1> QED
  BY <1>1, <1>3, <1>4, <1>5, <1>6

LEMMA BacktestDayRises ==
  ASSUME TypeOK, BacktestDay
  PROVE  StopsRise
<1>1. PICK b \in Book : b = book["backtest"] /\ Consistent(b, day)
  BY DEF TypeOK, Engines
<1>2. PICK c : c = Backtested(b)
  OBVIOUS
<1>3. book' = [book EXCEPT !["backtest"] = c]
  BY <1>1, <1>2 DEF BacktestDay, Backtested
<1>4. \A s \in Held(b) : c.pos[s].stop >= b.pos[s].stop
  BY <1>1, <1>2, BacktestedBook
<1>5. book'["backtest"] = c /\ book'["live"] = book["live"]
  BY <1>3 DEF TypeOK, Engines
<1>6. \A s \in Held(book["live"]) : book'["live"].pos[s].stop >= book["live"].pos[s].stop
  BY <1>5, StopsStay DEF Engines
<1> QED
  BY <1>1, <1>4, <1>5, <1>6 DEF StopsRise, Engines

LEMMA LiveRunRises ==
  ASSUME TypeOK, LiveRun
  PROVE  StopsRise
<1>1. PICK b \in Book : b = book["live"]
  BY DEF TypeOK, Engines
<1>2. PICK signals :
        signals = Signals(strategy, day, SeriesOf(LiveUniverse), LiveUniverse, Held(b), b.pos)
  OBVIOUS
<1>3. Sound(signals, b)
  BY <1>2, LiveUniverseTrades, SignalsSound
<1>4. PICK l : l = Leave(b, signals)
  OBVIOUS
<1>5. book' = [book EXCEPT !["live"] = l]
  BY <1>1, <1>2, <1>4 DEF LiveRun
<1>6. \A s \in Held(b) : l.pos[s].stop >= b.pos[s].stop
  BY <1>3, <1>4, LeaveSubmitted
<1>7. book'["live"] = l /\ book'["backtest"] = book["backtest"]
  BY <1>5 DEF TypeOK, Engines
<1>8. \A s \in Held(book["backtest"]) :
        book'["backtest"].pos[s].stop >= book["backtest"].pos[s].stop
  BY <1>7, StopsStay DEF Engines
<1> QED
  BY <1>1, <1>6, <1>7, <1>8 DEF StopsRise, Engines

\* Submitting an approved entry touches no open position.
LEMMA LiveSubmitted ==
  ASSUME TypeOK, ProposedFlat, NEW which \in SUBSET DOMAIN proposed.qty, NEW kept \in SUBSET Symbols,
         LiveSubmit(which, kept),
         NEW b \in Book, b = book["live"]
  PROVE  \E W, stop, c : /\ Entered(b, W, stop, c)
                         /\ book'["live"] = c /\ book'["backtest"] = book["backtest"]
<1>1. PICK W, qty, stop, m, c :
        /\ W = {s \in which : b.buy[s] = 0 /\ (proposed.stop[s] > 0 \/ s \in kept)}
        /\ qty = [s \in W |-> proposed.qty[s]] /\ stop = [s \in W |-> proposed.stop[s]]
        /\ m = SubmitBuys(b, qty) /\ c = SubmitStops(m, stop)
  OBVIOUS
<1>2. /\ pc = "decisions"
      /\ book' = [book EXCEPT !["live"] = c]
  <2>1. W = TakenUp(which, kept)
    BY <1>1, ActualEntries
  <2> QED
    BY <1>1, <2>1 DEF LiveSubmit, TakenUp
<1>3. /\ DOMAIN proposed.qty \subseteq Symbols
      /\ \A s \in DOMAIN proposed.qty : proposed.qty[s] \in Nat \ {0} /\ proposed.stop[s] \in Int
  BY DEF TypeOK
<1>4. /\ W \subseteq Symbols /\ W \subseteq DOMAIN proposed.qty
      /\ \A s \in W : s \notin Held(b) /\ b.buy[s] = 0
  BY <1>1, <1>2, <1>3 DEF ProposedFlat
<1>5. qty \in [W -> Nat \ {0}] /\ stop \in [W -> Int]
  BY <1>1, <1>3, <1>4
<1>6. m = SubmitBuys(b, qty) /\ c = SubmitStops(m, stop)
  BY <1>1
<1>7. Entered(b, W, stop, c)
  BY <1>4, <1>5, <1>6, EntriesSubmitted
<1>8. book'["live"] = c /\ book'["backtest"] = book["backtest"]
  BY <1>2 DEF TypeOK, Engines
<1> QED
  BY <1>7, <1>8

LEMMA LiveSubmitRises ==
  ASSUME TypeOK, ProposedFlat, NEW which \in SUBSET DOMAIN proposed.qty, NEW kept \in SUBSET Symbols,
         LiveSubmit(which, kept)
  PROVE  StopsRise
<1>1. PICK b \in Book : b = book["live"]
  BY DEF TypeOK, Engines
<1>2. PICK W, stop, c : /\ Entered(b, W, stop, c)
                        /\ book'["live"] = c /\ book'["backtest"] = book["backtest"]
  BY <1>1, LiveSubmitted
<1>3. \A s \in Held(b) : b.pos[s].stop \in Nat
  BY HeldIsPosition DEF Held, Position
<1>4. \A s \in Held(b) : c.pos[s].stop >= b.pos[s].stop
  BY <1>2, <1>3 DEF Entered
<1>5. \A s \in Held(book["backtest"]) :
        book'["backtest"].pos[s].stop >= book["backtest"].pos[s].stop
  BY <1>2, StopsStay DEF Engines
<1> QED
  BY <1>1, <1>2, <1>4, <1>5 DEF StopsRise, Engines

\* Whichever of entry, trailing stop, restarted series and reservation sets it
\* (paper.go, trendfollow.go), the stop of a position never falls.
THEOREM StopsNeverFall == Spec => StopOnlyRises
<1>1. IInv /\ [Next]_vars => [StopsRise]_vars
  <2> SUFFICES ASSUME IInv, Next PROVE StopsRise
    OBVIOUS
  <2>0. TypeOK /\ ProposedFlat
    BY DEF IInv
  <2>1. ASSUME NEW bars \in DayBars, NewDay(bars) PROVE StopsRise
    BY <2>0, <2>1, NewDayRises
  <2>2. CASE BacktestDay
    BY <2>0, <2>2, BacktestDayRises
  <2>3. CASE LiveRun
    BY <2>0, <2>3, LiveRunRises
  <2>4. CASE LiveRunFails
    <3>1. \A e \in Engines : book'[e] = book[e]
      BY <2>4 DEF LiveRunFails
    <3> QED
      BY <2>0, <3>1, StopsStay DEF StopsRise
  <2>5. ASSUME NEW which \in SUBSET DOMAIN proposed.qty, NEW kept \in SUBSET Symbols,
               LiveSubmit(which, kept)
        PROVE  StopsRise
    BY <2>0, <2>5, LiveSubmitRises
  <2> QED
    BY <2>1, <2>2, <2>3, <2>4, <2>5 DEF Next
<1> QED
  BY <1>1, Inductive, PTL DEF Spec, StopOnlyRises, StopsRise

-----------------------------------------------------------------------------
(***************************************************************************)
(* Exits are held back by nothing                                          *)
(***************************************************************************)
\* The universe an engine decides over.
UniverseOf(e) == IF e = "live" THEN LiveUniverse ELSE BacktestUniverse

\* What the strategy wants to leave is among its signals' exits.
LEMMA DueIsSignalled ==
  ASSUME TypeOK, NEW e \in Engines, NEW b \in Book, b = book[e], NEW s, ExitDue(e, s),
         NEW signals,
         signals = Signals(strategy, day, SeriesOf(UniverseOf(e)), UniverseOf(e), Held(b), b.pos)
  PROVE  s \in signals.exits
<1> DEFINE universe == UniverseOf(e)
           series == SeriesOf(universe)
           dueRanked == {r \in universe : Len(candles[r]) >= WarmupBars(strategy) /\ today[r].rated}
           better == {r \in dueRanked : \/ today[r].score > today[s].score
                                        \/ today[r].score = today[s].score /\ r < s}
<1>1. universe \subseteq {r \in Symbols : today[r] # NoBar}
  BY LiveUniverseTrades DEF UniverseOf, BacktestUniverse
<1>2. /\ DOMAIN series = universe
      /\ \A r \in universe : series[r].bar = today[r] /\ series[r].n = Len(candles[r])
  BY <1>1 DEF SeriesOf
<1>3. /\ s \in Held(b)
      /\ \/ strategy = "trendfollow" /\ s \in universe /\ today[s].weak
         \/ /\ strategy = "momentum"
            /\ day % Week = Weekday
            /\ s \in dueRanked => Cardinality(better) >= ExitRank
  BY DEF ExitDue, UniverseOf
<1> HIDE DEF universe, series
<1>4. CASE strategy = "trendfollow"
  <2>1. s \in universe /\ today[s].weak
    BY <1>3, <1>4
  <2>2. s \in DOMAIN series \intersect Held(b) /\ series[s].bar.weak
    BY <1>2, <1>3, <2>1
  <2>3. signals = Trend(series, universe, Held(b), b.pos)
    BY <1>4 DEF Signals, series, universe
  <2> QED
    BY <2>2, <2>3 DEF Trend
<1>5. CASE strategy = "momentum"
  <2> DEFINE ranked == {r \in universe : series[r].n >= WarmupBars("momentum") /\ series[r].bar.rated}
             score == [r \in ranked |-> series[r].bar.score]
             rank == [r \in ranked |-> RankAmong(r, ranked, score)]
             fallen == Fallen(ranked, rank, Held(b))
  <2>1. day % Week = Weekday
    BY <1>3, <1>5
  <2>2. signals = Momentum(day, series, universe, Held(b))
    BY <1>5 DEF Signals, series, universe
  <2>3. signals.exits = fallen
    <3> DEFINE best == {r \in ranked \ Held(b) : rank[r] <= TopN}
    <3>1. signals = [stops |-> [r \in {} |-> 0],
                     exits |-> fallen,
                     enters |-> [r \in best |-> EntryStop(series[r].bar)]]
      BY <2>1, <2>2 DEF Momentum
    <3> HIDE DEF fallen, best
    <3> QED
      BY <3>1
  <2>4. ranked = dueRanked
    BY <1>2, <1>5
  <2>5. ASSUME s \in ranked PROVE rank[s] > ExitRank
    <3>1. {r \in ranked : score[r] > score[s] \/ (score[r] = score[s] /\ r < s)} = better
      BY <1>2, <2>4, <2>5
    <3>2. rank[s] = 1 + Cardinality(better)
      BY <2>5, <3>1 DEF RankAmong
    <3>3. Cardinality(better) \in Nat
      BY <1>1, SymbolsFinite, FS_CardinalityType
    <3>4. Cardinality(better) >= ExitRank /\ ExitRank \in Nat
      BY <1>3, <1>5, <2>4, <2>5, StrategyAssumption
    <3> HIDE DEF better, rank
    <3> QED
      BY <3>2, <3>3, <3>4
  <2> HIDE DEF ranked, rank
  <2> QED
    BY <1>3, <2>3, <2>5 DEF Fallen
<1> QED
  BY <1>3, <1>4, <1>5

\* An exit that is queued stays queued unless the position goes.
QueuedExitsStay ==
  \A e \in Engines : \A s \in book[e].sell :
    IF pc = "candles" /\ today'[s] # NoBar
    THEN book'[e].pos[s] = NoPosition
    ELSE s \in book'[e].sell \/ book'[e].pos[s] = NoPosition

ExitsFollow ==
  /\ pc = "backtest" => \A s \in Symbols : ExitDue("backtest", s) => s \in book'["backtest"].sell
  /\ pc = "live" /\ pc' = "decisions" => \A s \in Symbols :
       ExitDue("live", s) => s \in book'["live"].sell
  /\ QueuedExitsStay

LEMMA NewDayExits ==
  ASSUME TypeOK, NEW bars \in DayBars, NewDay(bars)
  PROVE  ExitsFollow
<1>1. pc = "candles" /\ today' = bars
  BY DEF NewDay
<1> SUFFICES ASSUME NEW e \in Engines, NEW s \in book[e].sell
             PROVE  IF bars[s] # NoBar THEN book'[e].pos[s] = NoPosition
                                       ELSE s \in book'[e].sell
  BY <1>1 DEF ExitsFollow, QueuedExitsStay
<1>2. PICK d \in Nat, b \in Book : d = day + 1 /\ b = book[e] /\ Consistent(b, d - 1)
  BY DaysAssumption DEF TypeOK
<1>3. bars \in [Symbols -> Bars \union {NoBar}]
  BY DaysAssumption
<1>4. PICK c : c = book'[e] /\ c = Advance(b, bars, d)
  BY <1>2 DEF NewDay
<1>5. s \in Held(b) /\ s \in Symbols
  BY <1>2 DEF Consistent, Held
<1>6. s \in Left(b, bars) => c.pos[s] = NoPosition
  BY <1>2, <1>3, <1>4, <1>5, PositionAdvanced
<1>7. c.sell = {r \in b.sell : bars[r] = NoBar}
  BY <1>2, <1>3, <1>4, BookAdvanced
<1>8. bars[s] # NoBar => s \in Left(b, bars)
  BY <1>2, <1>5 DEF Left, Sold
<1> QED
  BY <1>2, <1>4, <1>6, <1>7, <1>8

LEMMA BacktestDayExits ==
  ASSUME TypeOK, BacktestDay
  PROVE  ExitsFollow
<1>1. PICK b \in Book : b = book["backtest"] /\ Consistent(b, day)
  BY DEF TypeOK, Engines
<1>2. PICK c : c = Backtested(b)
  OBVIOUS
<1>3. book' = [book EXCEPT !["backtest"] = c] /\ pc = "backtest"
  BY <1>1, <1>2 DEF BacktestDay, Backtested
<1>4. book'["backtest"] = c /\ book'["live"] = book["live"]
  BY <1>3 DEF TypeOK, Engines
<1>5. PICK signals :
        signals = Signals(strategy, day, SeriesOf(BacktestUniverse), BacktestUniverse, Held(b), b.pos)
  OBVIOUS
<1>6. /\ b.sell \subseteq c.sell
      /\ day > WarmupBars(strategy) + 1 /\ BacktestUniverse # {} => signals.exits \subseteq c.sell
  BY <1>1, <1>2, <1>5, BacktestedBook
<1>7. ASSUME NEW s \in Symbols, ExitDue("backtest", s) PROVE s \in c.sell
  <2>1. BacktestUniverse # {} /\ day > WarmupBars(strategy) + 1
    BY <1>7 DEF ExitDue
  <2>2. UniverseOf("backtest") = BacktestUniverse
    BY DEF UniverseOf
  <2>3. s \in signals.exits
    BY <1>1, <1>5, <1>7, <2>2, DueIsSignalled DEF Engines
  <2> QED
    BY <1>6, <2>1, <2>3
<1>8. QueuedExitsStay
  BY <1>1, <1>3, <1>4, <1>6 DEF QueuedExitsStay, Engines
<1> QED
  BY <1>3, <1>4, <1>7, <1>8 DEF ExitsFollow

LEMMA LiveRunExits ==
  ASSUME TypeOK, LiveRun
  PROVE  ExitsFollow
<1>1. PICK b \in Book : b = book["live"]
  BY DEF TypeOK, Engines
<1>2. PICK signals :
        signals = Signals(strategy, day, SeriesOf(LiveUniverse), LiveUniverse, Held(b), b.pos)
  OBVIOUS
<1>3. Sound(signals, b)
  BY <1>2, LiveUniverseTrades, SignalsSound
<1>4. PICK l : l = Leave(b, signals)
  OBVIOUS
<1>5. book' = [book EXCEPT !["live"] = l] /\ pc = "live"
  BY <1>1, <1>2, <1>4 DEF LiveRun
<1>6. l.sell = b.sell \union signals.exits
  BY <1>3, <1>4, LeaveSubmitted
<1>7. book'["live"] = l /\ book'["backtest"] = book["backtest"]
  BY <1>5 DEF TypeOK, Engines
<1>8. ASSUME NEW s \in Symbols, ExitDue("live", s) PROVE s \in l.sell
  <2>1. UniverseOf("live") = LiveUniverse
    BY DEF UniverseOf
  <2>2. s \in signals.exits
    BY <1>1, <1>2, <1>8, <2>1, DueIsSignalled DEF Engines
  <2> QED
    BY <1>6, <2>2
<1>9. QueuedExitsStay
  BY <1>1, <1>5, <1>6, <1>7 DEF QueuedExitsStay, Engines
<1> QED
  BY <1>5, <1>7, <1>8, <1>9 DEF ExitsFollow

LEMMA LiveSubmitExits ==
  ASSUME TypeOK, ProposedFlat, NEW which \in SUBSET DOMAIN proposed.qty, NEW kept \in SUBSET Symbols,
         LiveSubmit(which, kept)
  PROVE  ExitsFollow
<1>1. PICK b \in Book : b = book["live"]
  BY DEF TypeOK, Engines
<1>2. PICK W, stop, c : /\ Entered(b, W, stop, c)
                        /\ book'["live"] = c /\ book'["backtest"] = book["backtest"]
  BY <1>1, LiveSubmitted
<1>3. c.sell = b.sell
  BY <1>2 DEF Entered
<1>4. pc = "decisions"
  BY DEF LiveSubmit
<1> QED
  BY <1>1, <1>2, <1>3, <1>4 DEF ExitsFollow, QueuedExitsStay, Engines

\* No breaker, limit, cooldown or missing answer keeps a position the strategy wants
\* to leave (engine.go and daily.go submit exits before they gate entries, paper.go
\* fills them at the symbol's next bar).
THEOREM ExitsHappen == Spec => ExitsAreNotGated
<1>1. IInv /\ [Next]_vars => [ExitsFollow]_vars
  <2> SUFFICES ASSUME IInv, Next PROVE ExitsFollow
    OBVIOUS
  <2>0. TypeOK /\ ProposedFlat
    BY DEF IInv
  <2>1. ASSUME NEW bars \in DayBars, NewDay(bars) PROVE ExitsFollow
    BY <2>0, <2>1, NewDayExits
  <2>2. CASE BacktestDay
    BY <2>0, <2>2, BacktestDayExits
  <2>3. CASE LiveRun
    BY <2>0, <2>3, LiveRunExits
  <2>4. CASE LiveRunFails
    BY <2>4 DEF LiveRunFails, ExitsFollow, QueuedExitsStay
  <2>5. ASSUME NEW which \in SUBSET DOMAIN proposed.qty, NEW kept \in SUBSET Symbols,
               LiveSubmit(which, kept)
        PROVE  ExitsFollow
    BY <2>0, <2>5, LiveSubmitExits
  <2> QED
    BY <2>1, <2>2, <2>3, <2>4, <2>5 DEF Next
<1> QED
  BY <1>1, Inductive, PTL DEF Spec, ExitsAreNotGated, ExitsFollow, QueuedExitsStay

=============================================================================
