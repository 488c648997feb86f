----------------------------- MODULE TradingDays -----------------------------
(***************************************************************************)
(* The trading day in both engines: backtest.Run                           *)
(* (src/internal/backtest/engine.go) and the live engine's RunOnce         *)
(* (src/internal/engine/daily.go), side by side on the same candles, each  *)
(* with a paper broker of its own.  The project's first rule is that the   *)
(* two are one code path.                                                  *)
(*                                                                         *)
(* Candles, the breaker and the operator are free; the proposals' life and *)
(* the breaker's are modelled in Proposals and DailyBreaker.               *)
(***************************************************************************)
EXTENDS RiskGate, Strategies, Universe, PaperBook

CONSTANTS
  DayBars,     \* what the exchange may bring on a day, a bar or NoBar per symbol
  QuietBar,    \* the bar of the days before the first one
  PriorDays,
  LastDay      \* bound: the calendar ends here

Engines == {"backtest", "live"}

\* A day of a symbol: its prices and volume and what the indicators make of them.
Bars == [open : Nat, high : Nat, low : Nat, close : Nat, atr : Nat, volume : Nat, score : Int,
         up : BOOLEAN, weak : BOOLEAN, odd : BOOLEAN, rated : BOOLEAN]

Position == [qty : Nat, stop : Nat, high : Nat, entry : Nat, since : Nat]

Book == [cash : Int,
         pos : [Symbols -> Position \union {NoPosition}],
         buy : [Symbols -> Nat],
         sell : SUBSET Symbols,
         stops : [Symbols -> Nat],
         lastExit : [Symbols -> Nat]]

ASSUME DaysAssumption ==
  /\ QuietBar \in Bars /\ NoBar \notin Bars
  /\ DayBars \subseteq [Symbols -> Bars \union {NoBar}]
  /\ \A bars \in DayBars : \E s \in Symbols : bars[s] # NoBar
  /\ {PriorDays, LastDay} \subseteq Nat /\ PriorDays <= LastDay
  /\ NoPosition \notin Position

VARIABLES
  strategy,    \* the configured one
  day,         \* the day of the last closed candles
  today,       \* its bars
  candles,     \* candles[s]: rows [day, bar] of the store
  price,       \* last known close
  breaker,     \* whether the breaker is open
  book,        \* book[e]: the broker of engine e
  pc,          \* whose turn it is
  proposed,    \* entries awaiting the operator: their symbols, quantities and stops
  apart,       \* what has made the engines differ so far (observer)
  naked        \* symbols whose live entry had no usable stop and is replayed (observer)

marketVars == <<day, today, candles, price, breaker>>
vars == <<strategy, marketVars, book, pc, proposed, apart, naked>>

NoProposals == [qty |-> [s \in {} |-> 0], stop |-> [s \in {} |-> 0]]

Init ==
  /\ strategy \in {"trendfollow", "momentum"}
  /\ day = PriorDays
  /\ today = [s \in Symbols |-> QuietBar]
  /\ candles = [s \in Symbols |-> [d \in 1 .. PriorDays |-> [day |-> d, bar |-> QuietBar]]]
  /\ price = [s \in Symbols |-> QuietBar.close]
  /\ breaker = FALSE
  /\ book = [e \in Engines |-> EmptyBook]
  /\ pc = "candles"
  /\ proposed = NoProposals
  /\ apart = {}
  /\ naked = {}

-----------------------------------------------------------------------------
(***************************************************************************)
(* A new day: candles close, both brokers advance, the breaker may trip    *)
(***************************************************************************)
NewDay(bars) ==
  /\ pc = "candles"
  /\ day < LastDay
  /\ pc' = "backtest"
  /\ day' = day + 1
  /\ today' = bars
  /\ candles' = [s \in Symbols |-> IF bars[s] = NoBar
                                   THEN candles[s]
                                   ELSE Append(candles[s], [day |-> day + 1, bar |-> bars[s]])]
  /\ price' = [s \in Symbols |-> IF bars[s] = NoBar THEN price[s] ELSE bars[s].close]
  /\ book' = [e \in Engines |-> Advance(book[e], bars, day + 1)]
  /\ breaker' \in {breaker, TRUE}
  /\ naked' = naked \intersect (Held(book'["live"]) \union Buying(book'["live"]))
  /\ UNCHANGED <<strategy, proposed, apart>>

\* Today's bar of each candidate that has one, and how many bars it has by now.
SeriesOf(candidates) ==
  [s \in {c \in candidates : today[c] # NoBar} |-> [bar |-> today[s], n |-> Len(candles[s])]]

\* Every entry is gated against the portfolio of the run's start.
Gated(b, signals, now) ==
  [s \in DOMAIN signals.enters |->
     Evaluate(s, today[s].close, signals.enters[s], Portfolio(b, price), now, b.lastExit[s], breaker)]

-----------------------------------------------------------------------------
(***************************************************************************)
(* The backtest                                                            *)
(***************************************************************************)
\* The symbols with a bar today and more than the strategy's warm-up.
BacktestUniverse ==
  {s \in Symbols : today[s] # NoBar /\ Len(candles[s]) > WarmupBars(strategy)}

BacktestDay ==
  LET b == book["backtest"]
      universe == BacktestUniverse
      signals == Signals(strategy, day, SeriesOf(universe), universe, Held(b), b.pos)
      qty == Gated(b, signals, day)
      deciding == day > WarmupBars(strategy) + 1 /\ universe # {}
  IN  /\ pc = "backtest"
      /\ pc' = "live"
      /\ book' = [book EXCEPT !["backtest"] =
                    IF deciding THEN Enter(Leave(b, signals), qty, signals.enters) ELSE b]
      /\ UNCHANGED <<strategy, marketVars, proposed, apart, naked>>

-----------------------------------------------------------------------------
(***************************************************************************)
(* RunOnce                                                                 *)
(***************************************************************************)
LiveUniverse ==
  {s \in Build(candles, day, WarmupBars(strategy)) : today[s] # NoBar}

\* What the engines are known to do differently today: the universe, the strategy
\* that the backtest does not call for an empty one, and the cooldown, which
\* RunOnce counts from the next day on.
Differences(signals) ==
  (IF LiveUniverse # BacktestUniverse \/ day <= WarmupBars(strategy) + 1 THEN {"universe"} ELSE {})
  \union (IF BacktestUniverse = {} /\ signals # NoSignals THEN {"empty"} ELSE {})
  \union (IF \E s \in DOMAIN signals.enters : CoolingDown(day, book["live"].lastExit[s])
          THEN {"cooldown"} ELSE {})

LiveRun ==
  LET b == book["live"]
      universe == LiveUniverse
      signals == Signals(strategy, day, SeriesOf(universe), universe, Held(b), b.pos)
      qty == Gated(b, signals, day + 1)
      approved == {s \in DOMAIN qty : qty[s] > 0}
  IN  /\ pc = "live"
      /\ pc' = "decisions"
      /\ book' = [book EXCEPT !["live"] = Leave(b, signals)]
      /\ proposed' = [qty |-> [s \in approved |-> qty[s]],
                      stop |-> [s \in approved |-> signals.enters[s]]]
      /\ apart' = apart \union Differences(signals)
      /\ UNCHANGED <<strategy, marketVars, naked>>

\* The daily run fails before its exits and the scheduler goes on to the next day.
LiveRunFails ==
  /\ pc = "live"
  /\ pc' = "candles"
  /\ apart' = apart \union {"missed"}
  /\ UNCHANGED <<strategy, marketVars, book, proposed, naked>>

\* The operator approves some of the proposals, and the next reconstruction submits
\* those once more.  An entry without a usable stop is marked FAILED and left out then,
\* unless its row still reads APPROVED: a process that was restarted while it waited
\* marks none of them, and the outcome of the write is ignored.
LiveSubmit(which, kept) ==
  LET b == book["live"]
      open == {s \in which : b.buy[s] = 0}
      bare == {s \in open : proposed.stop[s] <= 0}
      taken == (open \ bare) \union kept
  IN  /\ pc = "decisions"
      /\ kept \subseteq bare
      /\ pc' = "candles"
      /\ book' = [book EXCEPT !["live"] =
                    SubmitStops(SubmitBuys(b, [s \in taken |-> proposed.qty[s]]),
                                [s \in taken |-> proposed.stop[s]])]
      /\ naked' = naked \union kept
      /\ apart' = apart
           \union (IF which # DOMAIN proposed.qty THEN {"refused"} ELSE {})
           \union (IF kept # {} THEN {"naked"} ELSE {})
      /\ proposed' = NoProposals
      /\ UNCHANGED <<strategy, marketVars>>

-----------------------------------------------------------------------------
Next ==
  \/ \E bars \in DayBars : NewDay(bars)
  \/ BacktestDay
  \/ LiveRun
  \/ LiveRunFails
  \/ \E which \in SUBSET DOMAIN proposed.qty, kept \in SUBSET Symbols : LiveSubmit(which, kept)

Spec == Init /\ [][Next]_vars

-----------------------------------------------------------------------------
(***************************************************************************)
(* Properties                                                              *)
(***************************************************************************)
\* An exit is queued for open positions only, and an entry for others.
Consistent(b, d) ==
  /\ b.sell \subseteq Held(b)
  /\ Held(b) \intersect Buying(b) = {}
  /\ \A s \in Symbols : b.lastExit[s] <= d

TypeOK ==
  /\ strategy \in {"trendfollow", "momentum"}
  /\ day \in 0 .. LastDay
  /\ today \in [Symbols -> Bars \union {NoBar}]
  /\ candles \in [Symbols -> Seq([day : 0 .. day, bar : Bars])]
  /\ price \in [Symbols -> Nat]
  /\ breaker \in BOOLEAN
  /\ pc \in {"candles", "backtest", "live", "decisions"}
  /\ book \in [Engines -> Book]
  /\ \A e \in Engines : Consistent(book[e], day)
  /\ proposed \in [qty : [DOMAIN proposed.qty -> Nat \ {0}], stop : [DOMAIN proposed.qty -> Int]]
  /\ DOMAIN proposed.qty \subseteq Symbols
  /\ apart \subseteq {"universe", "empty", "cooldown", "missed", "refused", "naked"}
  /\ naked \subseteq Symbols

\* One code path: from the same candles and with every proposal approved, the two
\* engines build the same book, order for order, up to the first of the differences
\* they are known to have.
OneCodePath == pc = "candles" /\ apart = {} => book["live"] = book["backtest"]

\* Every open position has a stop, in the backtest always, in the live engine but for
\* an entry whose stop was zero or less and whose row has not been marked FAILED.
Protected ==
  \A e \in Engines : \A s \in Held(book[e]) :
    book[e].pos[s].stop > 0 \/ (e = "live" /\ s \in naked)

\* As long as a position is held its stop never falls, whichever of entry, update,
\* restarted series and left-over reservations sets it.
StopOnlyRises ==
  [][\A e \in Engines : \A s \in Held(book[e]) :
       book'[e].pos[s] # NoPosition => book'[e].pos[s].stop >= book[e].pos[s].stop]_vars

\* The strategy wants to leave: the trend has broken, or the symbol's rank, which a
\* symbol outside the ranking does not have, has fallen too far.
ExitDue(e, s) ==
  LET universe == IF e = "live" THEN LiveUniverse ELSE BacktestUniverse
      ranked == {r \in universe : Len(candles[r]) >= WarmupBars(strategy) /\ today[r].rated}
      better == {r \in ranked : today[r].score > today[s].score
                                  \/ (today[r].score = today[s].score /\ r < s)}
  IN  /\ s \in Held(book[e])
      /\ e = "backtest" => universe # {} /\ day > WarmupBars(strategy) + 1
      /\ \/ strategy = "trendfollow" /\ s \in universe /\ today[s].weak
         \/ /\ strategy = "momentum"
            /\ day % Week = Weekday
            /\ s \in ranked => Cardinality(better) >= ExitRank

\* No breaker, limit, cooldown or missing answer keeps a position that the strategy
\* wants to leave: the symbol's next bar closes it, after a gap too.
ExitsAreNotGated ==
  [][/\ pc = "backtest" => \A s \in Symbols :
          ExitDue("backtest", s) => s \in book'["backtest"].sell
     /\ pc = "live" /\ pc' = "decisions" => \A s \in Symbols :
          ExitDue("live", s) => s \in book'["live"].sell
     /\ \A e \in Engines : \A s \in book[e].sell :
          IF pc = "candles" /\ today'[s] # NoBar
          THEN book'[e].pos[s] = NoPosition
          ELSE s \in book'[e].sell \/ book'[e].pos[s] = NoPosition]_vars

\* A symbol that the trend-following strategy holds is managed in every run, whether
\* it is still in the universe or not (trendfollow.go:93-97).
HeldIsManaged ==
  [][pc = "live" /\ pc' = "decisions" /\ strategy = "trendfollow" =>
       \A s \in Held(book["live"]) : today[s] # NoBar /\ today[s].weak =>
         s \in book'["live"].sell]_vars

=============================================================================
