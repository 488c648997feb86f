---------------------------- MODULE PaperBroker -----------------------------
(***************************************************************************)
(* The simulated broker behind backtests and paper trading:                *)
(* src/internal/broker/paper.go.  Its caller (backtest.Run or the daily    *)
(* engine) submits and cancels orders between calls of Advance; Advance    *)
(* settles one day: it fills the queued market orders at the day's open,   *)
(* raises the high-water marks, and closes the positions whose resting     *)
(* stop the day's low has reached.                                         *)
(*                                                                         *)
(* Days are numbered by the calls of Advance (t strictly increases).       *)
(* Advance is a sequence of steps here, one per iteration of its loops;    *)
(* phase orders them and keeps the caller out until the call returns.      *)
(*                                                                         *)
(* Prices are integers.  Slippage and fee are SlippageBps and FeeBps parts *)
(* of Denom (10000 in the code), so a fill price is counted in 1/Denom and *)
(* an amount of money in 1/Denom^2 of the quote currency: no rounding is   *)
(* lost, where the code rounds to float64.  A day without a candle for a   *)
(* symbol (a data gap) is NoBar.  Rejected calls change nothing the caller *)
(* can see and are steps that stutter.                                     *)
(***************************************************************************)
EXTENDS Integers, Sequences, FiniteSets, Functions

CONSTANTS
  Symbols,      \* tradable symbols; numbers, since checkStops visits them sorted
  OrderIds,     \* ClientOrderIDs the caller may use
  DayBars,      \* what a day may bring: a candle or NoBar for each symbol
  NoBar,        \* no candle that day
  Qtys,         \* order quantities
  StopPrices,   \* stop levels the caller may submit
  InitialCash,
  Denom, SlippageBps, FeeBps,
  MaxDay,       \* bound: number of calls of Advance
  NoPosition, NoOrder

VARIABLES
  now,          \* clock.Now(): the last settled day
  last,         \* [day, bar] under the cursor: the latest known candle
  positions, pendingStops, pending, seen, trades, cash,
  phase,        \* "idle", or where Advance is: "fill", "stops"
  today,        \* Advance's argument t
  queue,        \* the orders fillPending has still to visit
  justOpened,   \* fillPending's result: entries filled today
  unchecked     \* the symbols checkStops has still to visit

callerVars == <<pendingStops, pending, seen>>
advanceVars == <<phase, today, queue, justOpened, unchecked>>
vars == <<now, last, positions, trades, cash, callerVars, advanceVars>>

Bar == [open : Nat, high : Nat, low : Nat, close : Nat]

Position == [qty : Nat, entryPrice : Int, entryTime : Nat, stop : Nat,
             highWater : Nat, entryFee : Int]

OrderRec == [symbol : Symbols, side : {"buy", "sell"}, qty : Nat,
             type : {"market", "stop_market"},
             status : {"PENDING", "ACCEPTED", "FILLED", "CANCELED"},
             createdAt : Nat]

Trade == [symbol : Symbols, entryTime : Nat, exitTime : Nat, exitPrice : Int,
          pnl : Int, reason : {"signal", "stop"}]

ASSUME ConstantsAssumption ==
  /\ Symbols \subseteq Nat /\ IsFiniteSet(Symbols)
  /\ NoBar \notin Bar
  /\ DayBars \subseteq [Symbols -> Bar \union {NoBar}]
  /\ Qtys \subseteq Nat
  /\ StopPrices \subseteq Nat
  /\ InitialCash \in Nat \ {0}
  /\ Denom \in Nat \ {0}
  /\ SlippageBps \in Nat \ {0}
  /\ FeeBps \in Nat \ {0}
  /\ MaxDay \in Nat
  /\ NoPosition \notin Position
  /\ NoOrder \notin OrderRec

(***************************************************************************)
(* Reading the book                                                        *)
(***************************************************************************)
IsOpen(s) == positions[s] # NoPosition

\* candleAt: the cursor sits on a candle of exactly this day.
HasBarToday(s) == last[s].bar # NoBar /\ last[s].day = today

IsLive(id) == seen[id] # NoOrder /\ seen[id].status = "PENDING"

InQueue(q, s, side) ==
  \E i \in 1 .. Len(q) : seen[q[i]].symbol = s /\ seen[q[i]].side = side

BuyPrice(p) == p * (Denom + SlippageBps)

SellPrice(p) == p * (Denom - SlippageBps)

Fee(price, qty) == price * qty * FeeBps

Amount(price, qty) == price * qty * Denom

EntryCost(p) == Amount(p.entryPrice, p.qty) + p.entryFee

-----------------------------------------------------------------------------
Init ==
  /\ now = 0
  /\ last = [s \in Symbols |-> [day |-> 0, bar |-> NoBar]]
  /\ positions = [s \in Symbols |-> NoPosition]
  /\ pendingStops = [s \in Symbols |-> 0]
  /\ pending = <<>>
  /\ seen = [id \in OrderIds |-> NoOrder]
  /\ trades = <<>>
  /\ cash = InitialCash * Denom * Denom
  /\ phase = "idle"
  /\ today = 0
  /\ queue = <<>>
  /\ justOpened = {}
  /\ unchecked = {}

(***************************************************************************)
(* Submit, Cancel                                                          *)
(***************************************************************************)
\* Mutant: the order is stamped with the day before.
RecordYesterday(id, s, side, type, qty, status) ==
  seen' = [seen EXCEPT ![id] =
             [symbol |-> s, side |-> side, qty |-> qty, type |-> type,
              status |-> status, createdAt |-> now - 1]]

Record(id, s, side, type, qty, status) ==
  seen' = [seen EXCEPT ![id] =
             [symbol |-> s, side |-> side, qty |-> qty, type |-> type,
              status |-> status, createdAt |-> now]]

\* Mutant: the queue is not searched for an order of the same side.
SubmitMarketUnchecked(id, s, side, qty) ==
  /\ phase = "idle"
  /\ seen[id] = NoOrder
  /\ qty > 0
  /\ IF side = "buy" THEN ~IsOpen(s) ELSE IsOpen(s)
  /\ pending' = Append(pending, id)
  /\ Record(id, s, side, "market", qty, "PENDING")
  /\ UNCHANGED <<now, last, positions, pendingStops, trades, cash, advanceVars>>

SubmitMarket(id, s, side, qty) ==
  /\ phase = "idle"
  /\ seen[id] = NoOrder
  /\ qty > 0
  /\ IF side = "buy" THEN ~IsOpen(s) ELSE IsOpen(s)
  /\ ~InQueue(pending, s, side)
  /\ pending' = Append(pending, id)
  /\ Record(id, s, side, "market", qty, "PENDING")
  /\ UNCHANGED <<now, last, positions, pendingStops, trades, cash, advanceVars>>

\* A stop is attached to the open position, or reserved for the next entry.
SubmitStop(id, s, price) ==
  /\ phase = "idle"
  /\ seen[id] = NoOrder
  /\ price > 0
  /\ IF IsOpen(s)
     THEN /\ positions' = [positions EXCEPT ![s].stop = price]
          /\ UNCHANGED pendingStops
     ELSE /\ pendingStops' = [pendingStops EXCEPT ![s] = price]
          /\ UNCHANGED positions
  /\ Record(id, s, "sell", "stop_market", 0, "ACCEPTED")
  /\ UNCHANGED <<now, last, pending, trades, cash, advanceVars>>

Cancel(id) ==
  /\ phase = "idle"
  /\ \E i \in 1 .. Len(pending) :
       /\ pending[i] = id
       /\ pending' = SubSeq(pending, 1, i - 1) \o SubSeq(pending, i + 1, Len(pending))
  /\ seen' = [seen EXCEPT ![id].status = "CANCELED"]
  /\ UNCHANGED <<now, last, positions, pendingStops, trades, cash, advanceVars>>

(***************************************************************************)
(* Advance                                                                 *)
(***************************************************************************)
\* Mutant: the queue keeps the orders that are about to be filled.
BeginAdvanceKeepingQueue(bars) ==
  /\ phase = "idle"
  /\ now < MaxDay
  /\ phase' = "fill"
  /\ today' = now + 1
  /\ last' = [s \in Symbols |->
                IF bars[s] = NoBar THEN last[s] ELSE [day |-> now + 1, bar |-> bars[s]]]
  /\ queue' = pending
  /\ justOpened' = {}
  /\ UNCHANGED <<now, positions, pendingStops, pending, seen, trades, cash, unchecked>>

BeginAdvance(bars) ==
  /\ phase = "idle"
  /\ now < MaxDay
  /\ phase' = "fill"
  /\ today' = now + 1
  /\ last' = [s \in Symbols |->
                IF bars[s] = NoBar THEN last[s] ELSE [day |-> now + 1, bar |-> bars[s]]]
  /\ queue' = pending
  /\ pending' = <<>>
  /\ justOpened' = {}
  /\ UNCHANGED <<now, positions, pendingStops, seen, trades, cash, unchecked>>

\* Mutant: the recorded result forgets the fee of the exit.
SettleExitGross(s, price, reason) ==
  LET p == positions[s]
  IN  /\ cash' = cash + Amount(price, p.qty) - Fee(price, p.qty)
      /\ trades' = Append(trades,
                     [symbol |-> s, entryTime |-> p.entryTime, exitTime |-> today,
                      exitPrice |-> price, pnl |-> Amount(price, p.qty) - EntryCost(p),
                      reason |-> reason])
      /\ positions' = [positions EXCEPT ![s] = NoPosition]

\* settleExit: always the full position, its trade recorded with its net result.
SettleExit(s, price, reason) ==
  LET p == positions[s]
      net == Amount(price, p.qty) - Fee(price, p.qty)
  IN  /\ cash' = cash + net
      /\ trades' = Append(trades,
                     [symbol |-> s, entryTime |-> p.entryTime, exitTime |-> today,
                      exitPrice |-> price, pnl |-> net - EntryCost(p),
                      reason |-> reason])
      /\ positions' = [positions EXCEPT ![s] = NoPosition]

FillStep == phase = "fill" /\ queue # <<>> /\ queue' = Tail(queue)

\* No candle today: the order stays queued for the next call.
KeepPending ==
  /\ FillStep
  /\ ~HasBarToday(seen[Head(queue)].symbol)
  /\ pending' = Append(pending, Head(queue))
  /\ UNCHANGED <<now, last, positions, pendingStops, seen, trades, cash,
                 phase, today, justOpened, unchecked>>

FillEntry ==
  LET id == Head(queue)
      s == seen[id].symbol
      qty == seen[id].qty
      price == BuyPrice(last[s].bar.open)
  IN  /\ FillStep
      /\ HasBarToday(s)
      /\ seen[id].side = "buy"
      /\ cash' = cash - (Amount(price, qty) + Fee(price, qty))
      /\ positions' = [positions EXCEPT ![s] =
                         [qty |-> qty, entryPrice |-> price, entryTime |-> today,
                          stop |-> pendingStops[s], highWater |-> last[s].bar.high,
                          entryFee |-> Fee(price, qty)]]
      /\ pendingStops' = [pendingStops EXCEPT ![s] = 0]
      /\ justOpened' = justOpened \union {s}
      /\ seen' = [seen EXCEPT ![id].status = "FILLED"]
      /\ UNCHANGED <<now, last, pending, trades, phase, today, unchecked>>

FillExit ==
  LET id == Head(queue)
      s == seen[id].symbol
  IN  /\ FillStep
      /\ HasBarToday(s)
      /\ seen[id].side = "sell"
      /\ IF IsOpen(s)
         THEN /\ SettleExit(s, SellPrice(last[s].bar.open), "signal")
              /\ seen' = [seen EXCEPT ![id].status = "FILLED"]
         ELSE /\ seen' = [seen EXCEPT ![id].status = "CANCELED"]
              /\ UNCHANGED <<positions, trades, cash>>
      /\ UNCHANGED <<now, last, pendingStops, pending, phase, today, justOpened, unchecked>>

\* updateHighWater, then checkStops collects the open symbols.
RaiseHighWater ==
  /\ phase = "fill"
  /\ queue = <<>>
  /\ positions' = [s \in Symbols |->
                     IF IsOpen(s) /\ HasBarToday(s) /\ last[s].bar.high > positions[s].highWater
                     THEN [positions[s] EXCEPT !.highWater = last[s].bar.high]
                     ELSE positions[s]]
  /\ phase' = "stops"
  /\ unchecked' = {s \in Symbols : IsOpen(s)}
  /\ UNCHANGED <<now, last, trades, cash, callerVars, today, queue, justOpened>>

\* Mutants: a low that only touches the stop does not trigger it; a position
\* opened today is not skipped.
StopPassed(s) ==
  /\ s \notin justOpened
  /\ positions[s].stop > 0
  /\ HasBarToday(s)
  /\ last[s].bar.low < positions[s].stop

StopReachedSameDay(s) ==
  /\ positions[s].stop > 0
  /\ HasBarToday(s)
  /\ last[s].bar.low <= positions[s].stop

StopReached(s) ==
  /\ s \notin justOpened
  /\ positions[s].stop > 0
  /\ HasBarToday(s)
  /\ last[s].bar.low <= positions[s].stop

\* Mutant: no gap rule, a stop always sells at its level.
StopFillAtLevel(s) == SellPrice(positions[s].stop)

\* The gap rule: an open already through the stop fills at the open.
StopFill(s) ==
  LET open == last[s].bar.open
      stop == positions[s].stop
  IN  SellPrice(IF stop < open THEN stop ELSE open)

CheckStop(s) ==
  /\ phase = "stops"
  /\ s \in unchecked
  /\ \A r \in unchecked : s <= r
  /\ unchecked' = unchecked \ {s}
  /\ IF StopReached(s)
     THEN SettleExit(s, StopFill(s), "stop")
     ELSE UNCHANGED <<positions, trades, cash>>
  /\ UNCHANGED <<now, last, callerVars, phase, today, queue, justOpened>>

EndAdvance ==
  /\ phase = "stops"
  /\ unchecked = {}
  /\ now' = today
  /\ phase' = "idle"
  /\ justOpened' = {}
  /\ UNCHANGED <<last, positions, trades, cash, callerVars, today, queue, unchecked>>

-----------------------------------------------------------------------------
Caller ==
  \E id \in OrderIds :
    \/ \E s \in Symbols :
         \/ \E side \in {"buy", "sell"}, qty \in Qtys : SubmitMarket(id, s, side, qty)
         \/ \E price \in StopPrices : SubmitStop(id, s, price)
    \/ Cancel(id)

Advance ==
  \/ \E bars \in DayBars : BeginAdvance(bars)
  \/ KeepPending
  \/ FillEntry
  \/ FillExit
  \/ RaiseHighWater
  \/ \E s \in Symbols : CheckStop(s)
  \/ EndAdvance

Next == Caller \/ Advance

Spec == Init /\ [][Next]_vars

-----------------------------------------------------------------------------
(***************************************************************************)
(* Properties                                                              *)
(***************************************************************************)
TypeOK ==
  /\ now \in Nat
  /\ last \in [Symbols -> [day : Nat, bar : Bar \union {NoBar}]]
  /\ positions \in [Symbols -> Position \union {NoPosition}]
  /\ pendingStops \in [Symbols -> Nat]
  /\ pending \in Seq(OrderIds)
  /\ seen \in [OrderIds -> OrderRec \union {NoOrder}]
  /\ trades \in Seq(Trade)
  /\ cash \in Int
  /\ phase \in {"idle", "fill", "stops"}
  /\ today \in Nat
  /\ queue \in Seq(OrderIds)
  /\ justOpened \subseteq Symbols
  /\ unchecked \subseteq Symbols

\* A symbol never has two market orders in flight; one that waits to sell has a
\* position to sell, one that waits to buy has none.  Submit checks this when an
\* order arrives; fillPending and checkStops run days later and check neither,
\* and only the first half of it keeps fillPending's CANCELED branch dead.
LiveOrdersMatchPositions ==
  /\ \A i, j \in OrderIds :
       IsLive(i) /\ IsLive(j) /\ seen[i].symbol = seen[j].symbol => i = j
  /\ \A id \in OrderIds :
       IsLive(id) => (seen[id].side = "sell" <=> IsOpen(seen[id].symbol))

Filled(s, side) ==
  {id \in OrderIds : seen[id] # NoOrder /\ seen[id].symbol = s
                      /\ seen[id].side = side /\ seen[id].status = "FILLED"}

TradesOf(s, reasons) ==
  {i \in DOMAIN trades : trades[i].symbol = s /\ trades[i].reason \in reasons}

\* Every filled entry is an open position or exactly one trade, and every trade
\* with reason "signal" is exactly one filled exit: no order fills twice, no
\* position closes twice, none disappears without a trade.
OrdersAccountForTrades ==
  \A s \in Symbols :
    /\ Cardinality(Filled(s, "buy"))
         = Cardinality(TradesOf(s, {"signal", "stop"})) + (IF IsOpen(s) THEN 1 ELSE 0)
    /\ Cardinality(Filled(s, "sell")) = Cardinality(TradesOf(s, {"signal"}))

\* The cash moved by fills is what the trade log and the open entries say it is:
\* cash plus what the open positions cost equals the initial cash plus the
\* results of all trades, slippage and both fees included.
CashMatchesTrades ==
  cash + SumFunction([s \in Symbols |-> IF IsOpen(s) THEN EntryCost(positions[s]) ELSE 0])
    = InitialCash * Denom * Denom + SumFunction([i \in DOMAIN trades |-> trades[i].pnl])

\* When Advance returns, no position opened before today is still held although
\* today's low reached its resting stop.
StopsHonoured ==
  [][phase = "stops" /\ phase' = "idle" =>
       \A s \in Symbols :
         IsOpen(s) /\ HasBarToday(s) /\ positions[s].entryTime < today
                   /\ positions[s].stop > 0
           => last[s].bar.low > positions[s].stop]_vars

\* A position is never sold for more than the market offered that day: a stop
\* sells at the stop level or, after a gap, at the lower open, a signal exit at
\* the open, each reduced by slippage.
NoOptimisticExit ==
  [][Len(trades') > Len(trades) =>
       LET t == trades'[Len(trades')]
           bar == last[t.symbol].bar
       IN  /\ t.exitTime = last[t.symbol].day
           /\ t.exitPrice <= SellPrice(bar.open)
           /\ t.reason = "stop" => t.exitPrice <= SellPrice(positions[t.symbol].stop)]_vars

(***************************************************************************)
(* PaperBroker implements PositionBook                                     *)
(***************************************************************************)
OrderedDay(s) ==
  IF \E id \in OrderIds : IsLive(id) /\ seen[id].symbol = s
  THEN seen[CHOOSE id \in OrderIds : IsLive(id) /\ seen[id].symbol = s].createdAt
  ELSE -1

EnteredDay(s) == IF IsOpen(s) THEN positions[s].entryTime ELSE -1

Book == INSTANCE PositionBook WITH
  day <- IF phase = "idle" THEN now ELSE today,
  ordered <- [s \in Symbols |-> OrderedDay(s)],
  entered <- [s \in Symbols |-> EnteredDay(s)]

\* Each symbol follows the flat, entering, open, exiting cycle, and nothing
\* settles on the day it was ordered or opened (I2).
ImplementsPositionBook == Book!Spec

=============================================================================
