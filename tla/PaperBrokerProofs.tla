------------------------- MODULE PaperBrokerProofs --------------------------
(***************************************************************************)
(* Proofs about PaperBroker, for every choice of its constants.            *)
(***************************************************************************)
EXTENDS PaperBroker, LibraryProofs, SequenceTheorems

\* NewPaperBroker returns a well-typed broker.
LEMMA InitType == Init => TypeOK
  BY ConstantsAssumption DEF Init, TypeOK, Bar

\* Submit keeps the types when it queues a market order.
LEMMA SubmitMarketType ==
  ASSUME TypeOK, NEW id \in OrderIds, NEW s \in Symbols, NEW side \in {"buy", "sell"},
         NEW qty \in Qtys, SubmitMarket(id, s, side, qty)
  PROVE  TypeOK'
<1>1. now \in Nat /\ qty \in Nat
  BY ConstantsAssumption DEF TypeOK
<1>2. seen' \in [OrderIds -> OrderRec \union {NoOrder}]
  BY <1>1 DEF TypeOK, SubmitMarket, Record, OrderRec
<1>3. pending' \in Seq(OrderIds)
  BY AppendProperties DEF TypeOK, SubmitMarket
<1> QED
  BY <1>2, <1>3 DEF TypeOK, SubmitMarket, advanceVars

\* Submit keeps the types when it sets or reserves a stop.
LEMMA SubmitStopType ==
  ASSUME TypeOK, NEW id \in OrderIds, NEW s \in Symbols, NEW price \in StopPrices,
         SubmitStop(id, s, price)
  PROVE  TypeOK'
<1>1. now \in Nat /\ price \in Nat
  BY ConstantsAssumption DEF TypeOK
<1>2. seen' \in [OrderIds -> OrderRec \union {NoOrder}]
  BY <1>1 DEF TypeOK, SubmitStop, Record, OrderRec
<1>3. positions' \in [Symbols -> Position \union {NoPosition}]
  <2>1. CASE IsOpen(s)
    <3>1. positions[s] \in Position
      BY <2>1 DEF TypeOK, IsOpen
    <3>2. [positions[s] EXCEPT !.stop = price] \in Position
      BY <1>1, <3>1 DEF Position
    <3>3. positions' = [positions EXCEPT ![s] = [positions[s] EXCEPT !.stop = price]]
      BY <2>1 DEF SubmitStop
    <3> QED
      BY <3>2, <3>3 DEF TypeOK
  <2>2. CASE ~IsOpen(s)
    BY <2>2 DEF TypeOK, SubmitStop
  <2> QED
    BY <2>1, <2>2
<1>4. pendingStops' \in [Symbols -> Nat]
  BY <1>1 DEF TypeOK, SubmitStop
<1> QED
  BY <1>2, <1>3, <1>4 DEF TypeOK, SubmitStop, advanceVars

\* A change of status keeps an order record an order record.
LEMMA StatusType ==
  ASSUME seen \in [OrderIds -> OrderRec \union {NoOrder}], NEW id \in OrderIds,
         seen[id] # NoOrder,
         NEW status \in {"PENDING", "ACCEPTED", "FILLED", "CANCELED"}
  PROVE  [seen EXCEPT ![id].status = status] \in [OrderIds -> OrderRec \union {NoOrder}]
<1>1. [seen[id] EXCEPT !.status = status] \in OrderRec
  BY DEF OrderRec
<1> QED
  BY <1>1

\* Taking one element out of a sequence.
LEMMA RemoveIndex ==
  ASSUME NEW S, NEW q \in Seq(S), NEW i \in 1 .. Len(q)
  PROVE  LET r == SubSeq(q, 1, i - 1) \o SubSeq(q, i + 1, Len(q))
         IN  /\ r \in Seq(S)
             /\ Len(r) = Len(q) - 1
             /\ \A k \in 1 .. Len(r) : r[k] = IF k < i THEN q[k] ELSE q[k + 1]
<1> DEFINE a == SubSeq(q, 1, i - 1)
           b == SubSeq(q, i + 1, Len(q))
<1>0. Len(q) \in Nat /\ i \in Int /\ \A k \in 1 .. Len(q) : q[k] \in S
  BY ElementOfSeq, LenProperties
<1>1. /\ a \in Seq(S)
      /\ Len(a) = i - 1
      /\ \A k \in 1 .. i - 1 : a[k] = q[k]
  <2>1. \A k \in 1 .. i - 1 : q[k] \in S
    BY <1>0
  <2> QED
    BY <1>0, <2>1, SubSeqProperties
<1>2. /\ b \in Seq(S)
      /\ Len(b) = Len(q) - i
      /\ \A k \in 1 .. Len(q) - i : b[k] = q[k + i]
  <2>1. \A k \in i + 1 .. Len(q) : q[k] \in S
    BY <1>0
  <2>2. /\ SubSeq(q, i + 1, Len(q)) \in Seq(S)
        /\ Len(SubSeq(q, i + 1, Len(q)))
             = IF i + 1 <= Len(q) THEN Len(q) - (i + 1) + 1 ELSE 0
        /\ \A k \in 1 .. Len(q) - (i + 1) + 1 :
             SubSeq(q, i + 1, Len(q))[k] = q[i + 1 + k - 1]
    BY <1>0, <2>1, SubSeqProperties
  <2> QED
    BY <1>0, <2>2
<1>3. /\ a \o b \in Seq(S)
      /\ Len(a \o b) = Len(a) + Len(b)
      /\ \A k \in 1 .. Len(a) + Len(b) :
           (a \o b)[k] = IF k <= Len(a) THEN a[k] ELSE b[k - Len(a)]
  BY <1>1, <1>2, ConcatProperties
<1> HIDE DEF a, b
<1>4. Len(a \o b) = Len(q) - 1
  BY <1>0, <1>1, <1>2, <1>3
<1>5. ASSUME NEW k \in 1 .. Len(a \o b)
      PROVE  (a \o b)[k] = IF k < i THEN q[k] ELSE q[k + 1]
  <2>1. CASE k < i
    <3>1. k \in 1 .. i - 1 /\ k \in 1 .. Len(a) + Len(b) /\ k <= Len(a)
      BY <1>0, <1>1, <1>2, <1>3, <2>1
    <3> QED
      BY <1>1, <1>3, <2>1, <3>1
  <2>2. CASE ~(k < i)
    <3>1. k - Len(a) \in 1 .. Len(q) - i /\ k - Len(a) + i = k + 1
      BY <1>0, <1>1, <1>4, <2>2
    <3>2. k \in 1 .. Len(a) + Len(b) /\ ~(k <= Len(a))
      BY <1>0, <1>1, <1>2, <1>3, <2>2
    <3>3. (a \o b)[k] = b[k - Len(a)]
      BY <1>3, <3>2
    <3>4. b[k - Len(a)] = q[k + 1]
      BY <1>2, <3>1
    <3> QED
      BY <2>2, <3>3, <3>4
  <2> QED
    BY <2>1, <2>2
<1> QED
  BY <1>3, <1>4, <1>5 DEF a, b

\* What settleExit writes to cash, trades and positions is well typed.
LEMMA SettleExitType ==
  ASSUME TypeOK, NEW s \in Symbols, IsOpen(s), NEW price \in Int,
         NEW reason \in {"signal", "stop"}, SettleExit(s, price, reason)
  PROVE  /\ cash' \in Int
         /\ trades' \in Seq(Trade)
         /\ positions' \in [Symbols -> Position \union {NoPosition}]
<1> DEFINE p == positions[s]
           net == Amount(price, p.qty) - Fee(price, p.qty)
           t == [symbol |-> s, entryTime |-> p.entryTime, exitTime |-> today,
                 exitPrice |-> price, pnl |-> net - EntryCost(p), reason |-> reason]
<1>1. p \in Position
  BY DEF TypeOK, IsOpen
<1>2. net \in Int /\ EntryCost(p) \in Int
  BY <1>1, ConstantsAssumption DEF Amount, Fee, EntryCost, Position
<1>3. t \in Trade
  BY <1>1, <1>2 DEF Trade, Position, TypeOK
<1>4. trades' = Append(trades, t) /\ cash' = cash + net
  BY DEF SettleExit
<1>5. trades' \in Seq(Trade)
  BY <1>3, <1>4, AppendProperties DEF TypeOK
<1>6. positions' \in [Symbols -> Position \union {NoPosition}]
  BY DEF SettleExit, TypeOK
<1> QED
  BY <1>2, <1>4, <1>5, <1>6 DEF TypeOK

\* Cancel keeps the types.
LEMMA CancelType ==
  ASSUME TypeOK, NEW id \in OrderIds, seen[id] # NoOrder, Cancel(id)
  PROVE  TypeOK'
<1>1. seen' \in [OrderIds -> OrderRec \union {NoOrder}]
  BY StatusType DEF Cancel, TypeOK
<1>2. PICK i \in 1 .. Len(pending) :
        pending' = SubSeq(pending, 1, i - 1) \o SubSeq(pending, i + 1, Len(pending))
  BY DEF Cancel
<1>3. pending' \in Seq(OrderIds)
  <2>1. pending \in Seq(OrderIds)
    BY DEF TypeOK
  <2> QED
    BY <1>2, <2>1, RemoveIndex
<1> QED
  BY <1>1, <1>3 DEF Cancel, TypeOK, advanceVars

\* The start of Advance keeps the types.
LEMMA BeginAdvanceType ==
  ASSUME TypeOK, NEW bars \in DayBars, BeginAdvance(bars)
  PROVE  TypeOK'
<1>1. last' \in [Symbols -> [day : Nat, bar : Bar \union {NoBar}]]
  BY ConstantsAssumption DEF BeginAdvance, TypeOK
<1>2. pending' \in Seq(OrderIds)
  BY DEF BeginAdvance
<1> QED
  BY <1>1, <1>2 DEF BeginAdvance, TypeOK

\* What is known of the next order fillPending takes, and of the rest.
LEMMA QueueHead ==
  ASSUME TypeOK, queue # <<>>
  PROVE  /\ Head(queue) \in OrderIds
         /\ Head(queue) = queue[1]
         /\ 1 \in 1 .. Len(queue)
         /\ Tail(queue) \in Seq(OrderIds)
         /\ Len(Tail(queue)) = Len(queue) - 1
         /\ \A i \in 1 .. Len(Tail(queue)) : Tail(queue)[i] = queue[i + 1]
<1>1. queue \in Seq(OrderIds)
  BY DEF TypeOK
<1>2. Len(queue) \in Nat \ {0}
  BY <1>1, EmptySeq
<1>3. Head(queue) = queue[1]
  BY <1>1, <1>2
<1> QED
  BY <1>1, <1>2, <1>3, HeadTailProperties

\* fillPending keeps the types when it retries an order the next day.
LEMMA KeepPendingType ==
  ASSUME TypeOK, KeepPending
  PROVE  TypeOK'
<1>1. /\ Head(queue) \in OrderIds
      /\ queue' \in Seq(OrderIds)
  BY QueueHead DEF KeepPending, FillStep
<1>2. pending' \in Seq(OrderIds)
  BY <1>1, AppendProperties DEF KeepPending, TypeOK
<1> QED
  BY <1>1, <1>2 DEF KeepPending, TypeOK

\* The candle a settlement reads is a candle.
LEMMA BarType ==
  ASSUME TypeOK, NEW s \in Symbols, HasBarToday(s)
  PROVE  last[s].bar \in Bar
  BY DEF TypeOK, HasBarToday

\* fillPending keeps the types when it fills a live entry.
LEMMA FillEntryType ==
  ASSUME TypeOK, FillEntry, IsLive(Head(queue))
  PROVE  TypeOK'
<1> DEFINE id == Head(queue)
           s == seen[id].symbol
           qty == seen[id].qty
           price == BuyPrice(last[s].bar.open)
           p == [qty |-> qty, entryPrice |-> price, entryTime |-> today,
                 stop |-> pendingStops[s], highWater |-> last[s].bar.high,
                 entryFee |-> Fee(price, qty)]
<1>1. /\ id \in OrderIds
      /\ queue' \in Seq(OrderIds)
  BY QueueHead DEF FillEntry, FillStep
<1>2. seen[id] \in OrderRec /\ s \in Symbols /\ qty \in Nat
  BY <1>1 DEF TypeOK, IsLive, OrderRec
<1>3. last[s].bar \in Bar
  BY <1>2, BarType DEF FillEntry
<1>4. price \in Int /\ Amount(price, qty) \in Int /\ Fee(price, qty) \in Int
  BY <1>2, <1>3, ConstantsAssumption DEF BuyPrice, Amount, Fee, Bar
<1>5. p \in Position
  BY <1>2, <1>3, <1>4 DEF Position, TypeOK, Bar
<1>6. positions' \in [Symbols -> Position \union {NoPosition}]
  <2>1. positions' = [positions EXCEPT ![s] = p]
    BY DEF FillEntry
  <2> HIDE DEF p
  <2> QED
    BY <1>2, <1>5, <2>1 DEF TypeOK
<1>7. seen' \in [OrderIds -> OrderRec \union {NoOrder}]
  BY <1>1, StatusType DEF FillEntry, TypeOK, IsLive
<1>8. cash' \in Int
  <2>1. cash' = cash - (Amount(price, qty) + Fee(price, qty)) /\ cash \in Int
    BY DEF FillEntry, TypeOK
  <2> HIDE DEF price, qty
  <2> QED
    BY <1>4, <2>1
<1>9. pendingStops' \in [Symbols -> Nat] /\ justOpened' \subseteq Symbols
  BY <1>2 DEF FillEntry, TypeOK
<1> QED
  BY <1>1, <1>6, <1>7, <1>8, <1>9 DEF FillEntry, TypeOK

\* fillPending keeps the types when it fills a live exit.
LEMMA FillExitType ==
  ASSUME TypeOK, FillExit, IsLive(Head(queue))
  PROVE  TypeOK'
<1> DEFINE id == Head(queue)
           s == seen[id].symbol
           price == SellPrice(last[s].bar.open)
<1>1. /\ id \in OrderIds
      /\ queue' \in Seq(OrderIds)
  BY QueueHead DEF FillExit, FillStep
<1>2. s \in Symbols
  BY <1>1 DEF TypeOK, IsLive, OrderRec
<1>3. last[s].bar \in Bar
  BY <1>2, BarType DEF FillExit
<1>4. price \in Int
  BY <1>3, ConstantsAssumption DEF SellPrice, Bar
<1>5. seen' \in [OrderIds -> OrderRec \union {NoOrder}]
  <2>1. \/ seen' = [seen EXCEPT ![id].status = "FILLED"]
        \/ seen' = [seen EXCEPT ![id].status = "CANCELED"]
    BY DEF FillExit
  <2> QED
    BY <1>1, <2>1, StatusType DEF TypeOK, IsLive
<1>6. /\ cash' \in Int
      /\ trades' \in Seq(Trade)
      /\ positions' \in [Symbols -> Position \union {NoPosition}]
  <2>1. CASE IsOpen(s)
    <3>1. SettleExit(s, price, "signal")
      BY <2>1 DEF FillExit
    <3> HIDE DEF price, s
    <3> QED
      BY <1>2, <1>4, <2>1, <3>1, SettleExitType
  <2>2. CASE ~IsOpen(s)
    BY <2>2 DEF FillExit, TypeOK
  <2> QED
    BY <2>1, <2>2
<1> QED
  BY <1>1, <1>5, <1>6 DEF FillExit, TypeOK

\* updateHighWater keeps the types.
LEMMA RaiseHighWaterType ==
  ASSUME TypeOK, RaiseHighWater
  PROVE  TypeOK'
<1>1. ASSUME NEW s \in Symbols, IsOpen(s), HasBarToday(s)
      PROVE  [positions[s] EXCEPT !.highWater = last[s].bar.high] \in Position
  BY <1>1, BarType DEF TypeOK, IsOpen, Position, Bar
<1>2. positions' \in [Symbols -> Position \union {NoPosition}]
  BY <1>1 DEF RaiseHighWater, TypeOK
<1>3. unchecked' \subseteq Symbols
  BY DEF RaiseHighWater
<1> QED
  BY <1>2, <1>3 DEF RaiseHighWater, TypeOK, callerVars

\* One round of checkStops over an open symbol keeps the types.
LEMMA CheckStopType ==
  ASSUME TypeOK, NEW s \in Symbols, IsOpen(s), CheckStop(s)
  PROVE  TypeOK'
<1>1. /\ cash' \in Int
      /\ trades' \in Seq(Trade)
      /\ positions' \in [Symbols -> Position \union {NoPosition}]
  <2>1. CASE StopReached(s)
    <3>1. last[s].bar \in Bar /\ positions[s] \in Position
      BY <2>1, BarType DEF StopReached, IsOpen, TypeOK
    <3>2. StopFill(s) \in Int
      BY <3>1, ConstantsAssumption DEF StopFill, SellPrice, Bar, Position
    <3> QED
      BY <2>1, <3>2, SettleExitType DEF CheckStop
  <2>2. CASE ~StopReached(s)
    BY <2>2 DEF CheckStop, TypeOK
  <2> QED
    BY <2>1, <2>2
<1> QED
  BY <1>1 DEF CheckStop, TypeOK, callerVars

\* The return of Advance keeps the types.
LEMMA EndAdvanceType ==
  ASSUME TypeOK, EndAdvance
  PROVE  TypeOK'
  BY DEF EndAdvance, TypeOK, callerVars

-----------------------------------------------------------------------------
(***************************************************************************)
(* The inductive invariant.  LiveOrdersMatchPositions is not inductive by  *)
(* itself: fillPending needs to know that the order it takes from the      *)
(* queue is live and queued once, checkStops that an order kept for want   *)
(* of a candle is on a symbol no stop can close today.                     *)
(***************************************************************************)
Queued(id) ==
  \/ \E i \in 1 .. Len(queue) : queue[i] = id
  \/ \E i \in 1 .. Len(pending) : pending[i] = id

PhaseInv ==
  /\ today = IF phase = "idle" THEN now ELSE now + 1
  /\ phase # "fill" => queue = <<>>
  /\ phase # "stops" => unchecked = {}
  /\ \A s \in unchecked : IsOpen(s)

QueueInv ==
  /\ \A id \in OrderIds : Queued(id) <=> IsLive(id)
  /\ \A i, j \in 1 .. Len(queue) : queue[i] = queue[j] => i = j
  /\ \A i, j \in 1 .. Len(pending) : pending[i] = pending[j] => i = j
  /\ \A i \in 1 .. Len(queue), j \in 1 .. Len(pending) : queue[i] # pending[j]

KeptInv ==
  phase # "idle" =>
    \A i \in 1 .. Len(pending) : ~HasBarToday(seen[pending[i]].symbol)

TimeInv ==
  /\ \A id \in OrderIds : IsLive(id) => seen[id].createdAt <= now
  /\ \A s \in Symbols : IsOpen(s) => positions[s].entryTime <= today
  /\ \A s \in Symbols :
       IsOpen(s) /\ s \notin justOpened => positions[s].entryTime <= now

IInv ==
  /\ TypeOK
  /\ PhaseInv
  /\ QueueInv
  /\ KeptInv
  /\ LiveOrdersMatchPositions
  /\ TimeInv

\* Settling or cancelling a live order takes it, and only it, out of the live
\* orders.
LEMMA SettledOrder ==
  ASSUME TypeOK, NEW id \in OrderIds, IsLive(id),
         NEW status \in {"FILLED", "CANCELED"},
         seen' = [seen EXCEPT ![id].status = status]
  PROVE  \A j \in OrderIds : /\ IsLive(j)' <=> IsLive(j) /\ j # id
                             /\ j # id => seen'[j] = seen[j]
<1>1. ASSUME NEW j \in OrderIds, j # id
      PROVE  seen'[j] = seen[j]
  BY <1>1 DEF TypeOK
<1>2. seen'[id].status = status
  BY DEF TypeOK, IsLive, OrderRec
<1> QED
  BY <1>1, <1>2 DEF IsLive

\* In a state where the invariant holds, the order at the head of the queue is
\* live, and taking it off leaves exactly the other orders queued.
LEMMA HeadIsLive ==
  ASSUME IInv, FillStep
  PROVE  /\ Head(queue) \in OrderIds
         /\ IsLive(Head(queue))
<1>1. Head(queue) \in OrderIds /\ Queued(Head(queue))
  BY QueueHead DEF IInv, FillStep, Queued
<1> QED
  BY <1>1 DEF IInv, QueueInv

\* When fillPending closes the order it took, the other live orders are exactly
\* those still queued, and the queue invariant survives.
LEMMA HeadSettled ==
  ASSUME IInv, FillStep, pending' = pending,
         NEW status \in {"FILLED", "CANCELED"},
         seen' = [seen EXCEPT ![Head(queue)].status = status]
  PROVE  /\ QueueInv'
         /\ \A j \in OrderIds : Queued(j)' <=> Queued(j) /\ j # Head(queue)
<1> DEFINE id == Head(queue)
<1> USE DEF IInv
<1>1. /\ id \in OrderIds
      /\ id = queue[1]
      /\ 1 \in 1 .. Len(queue)
      /\ Len(queue') = Len(queue) - 1
      /\ \A i \in 1 .. Len(queue') : queue'[i] = queue[i + 1]
      /\ Len(queue) \in Nat
  BY QueueHead, LenProperties DEF FillStep, TypeOK
<1>2. \A i \in 1 .. Len(queue') : i + 1 \in 1 .. Len(queue) /\ queue'[i] # id
  BY <1>1 DEF QueueInv
<1>3. \A i \in 1 .. Len(queue) : i = 1 \/ (i - 1 \in 1 .. Len(queue') /\ queue'[i - 1] = queue[i])
  BY <1>1
<1>4. \A j \in OrderIds : Queued(j)' <=> Queued(j) /\ j # id
  <2> SUFFICES ASSUME NEW j \in OrderIds
               PROVE  Queued(j)' <=> Queued(j) /\ j # id
    OBVIOUS
  <2>1. ASSUME Queued(j)' PROVE Queued(j) /\ j # id
    BY <1>1, <1>2, <2>1 DEF Queued, QueueInv
  <2>2. ASSUME Queued(j), j # id PROVE Queued(j)'
    BY <1>1, <1>3, <2>2 DEF Queued
  <2> QED
    BY <2>1, <2>2
<1>5. \A j \in OrderIds : IsLive(j)' <=> IsLive(j) /\ j # id
  BY HeadIsLive, SettledOrder
<1>6. /\ \A i, j \in 1 .. Len(queue') : queue'[i] = queue'[j] => i = j
      /\ \A i, j \in 1 .. Len(pending') : pending'[i] = pending'[j] => i = j
      /\ \A i \in 1 .. Len(queue'), j \in 1 .. Len(pending') : queue'[i] # pending'[j]
  BY <1>1, <1>2 DEF QueueInv
<1>7. \A j \in OrderIds : Queued(j)' <=> IsLive(j)'
  BY <1>4, <1>5 DEF QueueInv
<1> QED
  BY <1>4, <1>6, <1>7 DEF QueueInv

\* The inductive invariant holds of a new broker.
LEMMA InitInv == Init => IInv
<1> SUFFICES ASSUME Init PROVE IInv
  OBVIOUS
<1>1. TypeOK
  BY InitType
<1>2. QueueInv
  BY DEF Init, QueueInv, Queued, IsLive
<1>3. PhaseInv /\ KeptInv /\ LiveOrdersMatchPositions /\ TimeInv
  BY DEF Init, PhaseInv, KeptInv, LiveOrdersMatchPositions, TimeInv, IsLive, IsOpen
<1> QED
  BY <1>1, <1>2, <1>3 DEF IInv

\* A symbol whose market order Submit accepts has no live order.
LEMMA SubmittedSymbolIsFree ==
  ASSUME IInv, NEW id \in OrderIds, NEW s \in Symbols, NEW side \in {"buy", "sell"},
         NEW qty \in Qtys, SubmitMarket(id, s, side, qty)
  PROVE  \A j \in OrderIds : IsLive(j) => seen[j].symbol # s
<1> SUFFICES ASSUME NEW j \in OrderIds, IsLive(j), seen[j].symbol = s
             PROVE  FALSE
  OBVIOUS
<1>1. Queued(j) /\ queue = <<>>
  BY DEF IInv, QueueInv, PhaseInv, SubmitMarket
<1>2. PICK i \in 1 .. Len(pending) : pending[i] = j
  BY <1>1 DEF Queued
<1>3. seen[j].side \in {"buy", "sell"}
  BY DEF IInv, TypeOK, IsLive, OrderRec
<1>4. seen[j].side = side
  BY <1>3 DEF IInv, LiveOrdersMatchPositions, SubmitMarket
<1> QED
  BY <1>2, <1>4 DEF InQueue, SubmitMarket

\* Submit of a market order keeps the inductive invariant: its guards leave the
\* symbol no other live order, and match its side with the position.
LEMMA SubmitMarketInv ==
  ASSUME IInv, NEW id \in OrderIds, NEW s \in Symbols, NEW side \in {"buy", "sell"},
         NEW qty \in Qtys, SubmitMarket(id, s, side, qty)
  PROVE  IInv'
<1> DEFINE o == [symbol |-> s, side |-> side, qty |-> qty, type |-> "market",
                 status |-> "PENDING", createdAt |-> now]
<1>1. TypeOK'
  BY SubmitMarketType DEF IInv
<1>2. /\ seen' = [seen EXCEPT ![id] = o]
      /\ o \in OrderRec
      /\ ~IsLive(id)
      /\ queue = <<>> /\ queue' = <<>>
      /\ Len(pending) \in Nat
      /\ Len(pending') = Len(pending) + 1
      /\ pending'[Len(pending) + 1] = id
      /\ \A i \in 1 .. Len(pending) : pending'[i] = pending[i]
  BY AppendProperties, LenProperties, ConstantsAssumption
     DEF SubmitMarket, Record, IInv, TypeOK, PhaseInv, OrderRec, IsLive, advanceVars
<1>3. /\ IsLive(id)'
      /\ seen'[id] = o
      /\ \A j \in OrderIds : j # id => seen'[j] = seen[j] /\ (IsLive(j)' <=> IsLive(j))
  BY <1>2, ConstantsAssumption DEF IsLive, IInv, TypeOK
<1>4. \A i \in 1 .. Len(pending) : pending[i] # id /\ pending[i] \in OrderIds
  <2>1. \A i \in 1 .. Len(pending) : pending[i] \in OrderIds
    BY <1>2, ElementOfSeq DEF IInv, TypeOK
  <2> QED
    BY <1>2, <2>1 DEF IInv, QueueInv, Queued
<1>5. \A j \in OrderIds : Queued(j)' <=> Queued(j) \/ j = id
  <2> SUFFICES ASSUME NEW j \in OrderIds
               PROVE  Queued(j)' <=> Queued(j) \/ j = id
    OBVIOUS
  <2>1. ASSUME Queued(j)' PROVE Queued(j) \/ j = id
    BY <1>2, <2>1 DEF Queued
  <2>2. ASSUME Queued(j) \/ j = id PROVE Queued(j)'
    BY <1>2, <2>2 DEF Queued
  <2> QED
    BY <2>1, <2>2
<1>6. QueueInv'
  <2>1. \A j \in OrderIds : Queued(j)' <=> IsLive(j)'
    BY <1>3, <1>5 DEF IInv, QueueInv
  <2>2. \A i, j \in 1 .. Len(pending') : pending'[i] = pending'[j] => i = j
    BY <1>2, <1>4 DEF IInv, QueueInv
  <2> QED
    BY <1>2, <2>1, <2>2 DEF QueueInv
<1>7. PhaseInv' /\ KeptInv'
  BY <1>2 DEF IInv, PhaseInv, KeptInv, SubmitMarket, advanceVars, IsOpen
<1>8. LiveOrdersMatchPositions'
  <2>1. ASSUME NEW j \in OrderIds, IsLive(j)', j # id
        PROVE  seen'[j] = seen[j] /\ IsLive(j) /\ seen[j].symbol # s
    BY <1>3, <2>1, SubmittedSymbolIsFree
  <2>2. \A r \in Symbols : IsOpen(r)' <=> IsOpen(r)
    BY DEF SubmitMarket, IsOpen
  <2>3. side = "sell" <=> IsOpen(s)
    BY DEF SubmitMarket
  <2>4. ASSUME NEW j \in OrderIds, IsLive(j)'
        PROVE  (seen[j].side = "sell" <=> IsOpen(seen[j].symbol))'
    <3>1. CASE j = id
      BY <1>3, <2>2, <2>3, <3>1
    <3>2. CASE j # id
      <4>1. IsLive(j) /\ seen'[j] = seen[j] /\ seen[j].symbol \in Symbols
        BY <2>1, <2>4, <3>2 DEF IInv, TypeOK, IsLive, OrderRec
      <4> QED
        BY <2>2, <4>1 DEF IInv, LiveOrdersMatchPositions
    <3> QED
      BY <3>1, <3>2
  <2>5. ASSUME NEW i \in OrderIds, NEW j \in OrderIds, IsLive(i)', IsLive(j)',
               seen'[i].symbol = seen'[j].symbol
        PROVE  i = j
    BY <1>3, <2>1, <2>5 DEF IInv, LiveOrdersMatchPositions
  <2> QED
    BY <2>4, <2>5 DEF LiveOrdersMatchPositions
<1>9. TimeInv'
  <2>1. \A j \in OrderIds : IsLive(j)' => seen'[j].createdAt <= now'
    <3> SUFFICES ASSUME NEW j \in OrderIds, IsLive(j)'
                 PROVE  seen'[j].createdAt <= now'
      OBVIOUS
    <3>1. now' = now /\ now \in Nat
      BY DEF SubmitMarket, IInv, TypeOK
    <3>2. CASE j = id
      BY <1>3, <3>1, <3>2
    <3>3. CASE j # id
      BY <1>3, <3>1, <3>3 DEF IInv, TimeInv
    <3> QED
      BY <3>2, <3>3
  <2> QED
    BY <2>1 DEF IInv, TimeInv, SubmitMarket, advanceVars, IsOpen
<1> QED
  BY <1>1, <1>6, <1>7, <1>8, <1>9 DEF IInv

\* A step that leaves the live orders and the open symbols as they are keeps
\* LiveOrdersMatchPositions.
LEMMA SameBook ==
  ASSUME IInv,
         \A j \in OrderIds : /\ IsLive(j)' <=> IsLive(j)
                             /\ IsLive(j) => seen'[j] = seen[j],
         \A s \in Symbols : IsOpen(s)' <=> IsOpen(s)
  PROVE  LiveOrdersMatchPositions'
<1>1. ASSUME NEW j \in OrderIds, IsLive(j)'
      PROVE  (seen[j].side = "sell" <=> IsOpen(seen[j].symbol))'
  <2>1. IsLive(j) /\ seen'[j] = seen[j] /\ seen[j].symbol \in Symbols
    BY <1>1 DEF IInv, TypeOK, IsLive, OrderRec
  <2> QED
    BY <2>1 DEF IInv, LiveOrdersMatchPositions
<1>2. ASSUME NEW i \in OrderIds, NEW j \in OrderIds, IsLive(i)', IsLive(j)',
             seen'[i].symbol = seen'[j].symbol
      PROVE  i = j
  BY <1>2 DEF IInv, LiveOrdersMatchPositions
<1> QED
  BY <1>1, <1>2 DEF LiveOrdersMatchPositions

\* Submit of a stop keeps the inductive invariant: a stop is never live.
LEMMA SubmitStopInv ==
  ASSUME IInv, NEW id \in OrderIds, NEW s \in Symbols, NEW price \in StopPrices,
         SubmitStop(id, s, price)
  PROVE  IInv'
<1>1. TypeOK'
  BY SubmitStopType DEF IInv
<1>2. \A j \in OrderIds : /\ IsLive(j)' <=> IsLive(j)
                          /\ IsLive(j) => seen'[j] = seen[j]
  BY DEF IsLive, IInv, TypeOK, SubmitStop, Record
<1>3. \A r \in Symbols :
        /\ IsOpen(r)' <=> IsOpen(r)
        /\ IsOpen(r) => positions'[r].entryTime = positions[r].entryTime
  <2> SUFFICES ASSUME NEW r \in Symbols
               PROVE  /\ IsOpen(r)' <=> IsOpen(r)
                      /\ IsOpen(r) => positions'[r].entryTime = positions[r].entryTime
    OBVIOUS
  <2>1. CASE IsOpen(s) /\ r = s
    <3>1. positions[s] \in Position
      BY <2>1 DEF IInv, TypeOK, IsOpen
    <3>2. /\ [positions[s] EXCEPT !.stop = price] \in Position
          /\ [positions[s] EXCEPT !.stop = price].entryTime = positions[s].entryTime
      BY <3>1, ConstantsAssumption DEF Position
    <3>3. positions'[s] = [positions[s] EXCEPT !.stop = price]
      BY <2>1 DEF SubmitStop, IInv, TypeOK
    <3> QED
      BY <2>1, <3>2, <3>3, ConstantsAssumption DEF IsOpen
  <2>2. CASE ~(IsOpen(s) /\ r = s)
    <3>1. positions'[r] = positions[r]
      BY <2>2 DEF SubmitStop, IInv, TypeOK
    <3> QED
      BY <3>1 DEF IsOpen
  <2> QED
    BY <2>1, <2>2
<1>4. LiveOrdersMatchPositions'
  BY <1>2, <1>3, SameBook
<1>5. UNCHANGED <<now, phase, today, queue, pending, justOpened, unchecked, last>>
  BY DEF SubmitStop, advanceVars
<1>6. PhaseInv' /\ KeptInv'
  BY <1>3, <1>5 DEF IInv, PhaseInv, KeptInv, SubmitStop, TypeOK
<1>7. QueueInv'
  BY <1>2, <1>5 DEF IInv, QueueInv, Queued
<1>8. TimeInv'
  BY <1>2, <1>3, <1>5 DEF IInv, TimeInv
<1> QED
  BY <1>1, <1>4, <1>6, <1>7, <1>8 DEF IInv

\* A step that takes the order id out of the live orders, and neither opens nor
\* closes a position, keeps LiveOrdersMatchPositions.
LEMMA FewerOrders ==
  ASSUME IInv, NEW id \in OrderIds,
         \A j \in OrderIds : /\ IsLive(j)' <=> IsLive(j) /\ j # id
                             /\ j # id => seen'[j] = seen[j],
         \A j \in OrderIds : IsLive(j)' =>
           (IsOpen(seen[j].symbol)' <=> IsOpen(seen[j].symbol))
  PROVE  LiveOrdersMatchPositions'
<1>1. ASSUME NEW j \in OrderIds, IsLive(j)'
      PROVE  (seen[j].side = "sell" <=> IsOpen(seen[j].symbol))'
  <2>1. IsLive(j) /\ seen'[j] = seen[j]
    BY <1>1
  <2>2. IsOpen(seen[j].symbol)' <=> positions'[seen[j].symbol] # NoPosition
    BY <2>1 DEF IsOpen
  <2>3. seen[j].side = "sell" <=> IsOpen(seen[j].symbol)
    BY <2>1 DEF IInv, LiveOrdersMatchPositions
  <2> QED
    BY <1>1, <2>1, <2>2, <2>3
<1>2. ASSUME NEW i \in OrderIds, NEW j \in OrderIds, IsLive(i)', IsLive(j)',
             seen'[i].symbol = seen'[j].symbol
      PROVE  i = j
  BY <1>2 DEF IInv, LiveOrdersMatchPositions
<1> QED
  BY <1>1, <1>2 DEF LiveOrdersMatchPositions

\* Cancel keeps the inductive invariant: what leaves the queue stops being live.
LEMMA CancelInv ==
  ASSUME IInv, NEW id \in OrderIds, Cancel(id)
  PROVE  IInv'
<1>1. PICK i \in 1 .. Len(pending) :
        /\ pending[i] = id
        /\ pending' = SubSeq(pending, 1, i - 1) \o SubSeq(pending, i + 1, Len(pending))
  BY DEF Cancel
<1>2. /\ Len(pending) \in Nat
      /\ Len(pending') = Len(pending) - 1
      /\ \A k \in 1 .. Len(pending') :
           pending'[k] = IF k < i THEN pending[k] ELSE pending[k + 1]
  <2>1. pending \in Seq(OrderIds)
    BY DEF IInv, TypeOK
  <2> QED
    BY <1>1, <2>1, RemoveIndex, LenProperties
<1>i. i \in 1 .. Len(pending) /\ pending[i] = id
  BY <1>1
<1>3. /\ IsLive(id)
      /\ UNCHANGED <<now, last, positions, phase, today, queue, justOpened, unchecked>>
      /\ queue = <<>> /\ phase = "idle"
  BY <1>1 DEF Cancel, IInv, QueueInv, Queued, PhaseInv, advanceVars
<1>4. TypeOK'
  BY <1>3, CancelType DEF IInv, IsLive
<1>5. \A j \in OrderIds : /\ IsLive(j)' <=> IsLive(j) /\ j # id
                          /\ j # id => seen'[j] = seen[j]
  BY <1>3, SettledOrder DEF Cancel, IInv
<1>6. \A k \in 1 .. Len(pending') : \E l \in 1 .. Len(pending) : l # i /\ pending'[k] = pending[l]
  <2> SUFFICES ASSUME NEW k \in 1 .. Len(pending')
               PROVE  \E l \in 1 .. Len(pending) : l # i /\ pending'[k] = pending[l]
    OBVIOUS
  <2>1. CASE k < i
    BY <1>i, <1>2, <2>1
  <2>2. CASE ~(k < i)
    <3>1. k + 1 \in 1 .. Len(pending) /\ k + 1 # i /\ pending'[k] = pending[k + 1]
      BY <1>i, <1>2, <2>2
    <3> QED
      BY <3>1
  <2> QED
    BY <2>1, <2>2
<1>7. ASSUME NEW l \in 1 .. Len(pending), l # i
      PROVE  \E k \in 1 .. Len(pending') : pending'[k] = pending[l]
  <2>1. CASE l < i
    BY <1>i, <1>2, <1>7, <2>1
  <2>2. CASE l > i
    <3>1. l - 1 \in 1 .. Len(pending') /\ pending'[l - 1] = pending[l]
      BY <1>i, <1>2, <1>7, <2>2
    <3> QED
      BY <3>1
  <2> QED
    BY <1>i, <1>7, <2>1, <2>2
<1>8. \A j \in OrderIds : Queued(j)' <=> Queued(j) /\ j # id
  <2> SUFFICES ASSUME NEW j \in OrderIds
               PROVE  Queued(j)' <=> Queued(j) /\ j # id
    OBVIOUS
  <2>1. \A l \in 1 .. Len(pending) : pending[l] = id <=> l = i
    BY <1>i DEF IInv, QueueInv
  <2>2. ASSUME Queued(j)' PROVE Queued(j) /\ j # id
    BY <1>3, <1>6, <2>1, <2>2 DEF Queued
  <2>3. ASSUME Queued(j), j # id PROVE Queued(j)'
    BY <1>3, <1>7, <2>1, <2>3 DEF Queued
  <2> QED
    BY <2>2, <2>3
<1>9. QueueInv'
  <2>1. \A k, l \in 1 .. Len(pending') : pending'[k] = pending'[l] => k = l
    BY <1>i, <1>2 DEF IInv, QueueInv
  <2> QED
    BY <1>3, <1>5, <1>8, <2>1 DEF IInv, QueueInv
<1>10. LiveOrdersMatchPositions'
  <2>1. \A j \in OrderIds : IsLive(j)' =>
          (IsOpen(seen[j].symbol)' <=> IsOpen(seen[j].symbol))
    BY <1>3, <1>5 DEF IsOpen
  <2> QED
    BY <1>5, <2>1, FewerOrders
<1>11. PhaseInv' /\ KeptInv'
  BY <1>3 DEF IInv, PhaseInv, KeptInv, IsOpen
<1>12. TimeInv'
  BY <1>3, <1>5 DEF IInv, TimeInv, IsOpen
<1> QED
  BY <1>4, <1>9, <1>10, <1>11, <1>12 DEF IInv

\* The start of Advance keeps the inductive invariant.
LEMMA BeginAdvanceInv ==
  ASSUME IInv, NEW bars \in DayBars, BeginAdvance(bars)
  PROVE  IInv'
<1>1. TypeOK'
  BY BeginAdvanceType DEF IInv
<1>2. /\ queue = <<>> /\ queue' = pending /\ pending' = <<>>
      /\ UNCHANGED <<now, positions, seen, unchecked>>
      /\ phase = "idle" /\ phase' = "fill" /\ today' = now + 1 /\ justOpened' = {}
  BY DEF BeginAdvance, IInv, PhaseInv
<1>3. \A j \in OrderIds : (IsLive(j)' <=> IsLive(j)) /\ (Queued(j)' <=> Queued(j))
  BY <1>2 DEF IsLive, Queued
<1>4. QueueInv'
  BY <1>2, <1>3 DEF IInv, QueueInv
<1>5. PhaseInv'
  BY <1>2 DEF IInv, PhaseInv
<1>6. KeptInv'
  BY <1>2 DEF KeptInv
<1>7. LiveOrdersMatchPositions'
  BY <1>2, <1>3, SameBook DEF IsOpen
<1>8. TimeInv'
  BY <1>2, <1>3 DEF IInv, TimeInv, PhaseInv, IsOpen, TypeOK, Position
<1> QED
  BY <1>1, <1>4, <1>5, <1>6, <1>7, <1>8 DEF IInv

\* A retried order keeps the inductive invariant: it moves from one queue to the
\* other, and had no candle, so checkStops cannot close its position either.
LEMMA KeepPendingInv ==
  ASSUME IInv, KeepPending
  PROVE  IInv'
<1> DEFINE id == Head(queue)
<1>1. TypeOK'
  BY KeepPendingType DEF IInv
<1>2. /\ id \in OrderIds
      /\ id = queue[1]
      /\ 1 \in 1 .. Len(queue)
      /\ Len(queue) \in Nat
      /\ Len(queue') = Len(queue) - 1
      /\ \A i \in 1 .. Len(queue') : queue'[i] = queue[i + 1]
  BY QueueHead, LenProperties DEF KeepPending, FillStep, IInv, TypeOK
<1>3. /\ Len(pending) \in Nat
      /\ Len(pending') = Len(pending) + 1
      /\ pending'[Len(pending) + 1] = id
      /\ \A i \in 1 .. Len(pending) : pending'[i] = pending[i]
  BY <1>2, AppendProperties, LenProperties DEF KeepPending, IInv, TypeOK
<1>4. /\ UNCHANGED <<now, last, positions, seen, phase, today, justOpened, unchecked>>
      /\ phase = "fill"
      /\ ~HasBarToday(seen[id].symbol)
  BY DEF KeepPending, FillStep
<1>5. \A i \in 1 .. Len(queue) : i = 1 \/ (i - 1 \in 1 .. Len(queue') /\ queue'[i - 1] = queue[i])
  BY <1>2
<1>6. \A j \in OrderIds : Queued(j)' <=> Queued(j)
  <2> SUFFICES ASSUME NEW j \in OrderIds
               PROVE  Queued(j)' <=> Queued(j)
    OBVIOUS
  <2>1. ASSUME Queued(j)' PROVE Queued(j)
    <3>1. CASE \E i \in 1 .. Len(queue') : queue'[i] = j
      BY <1>2, <3>1 DEF Queued
    <3>2. CASE \E i \in 1 .. Len(pending') : pending'[i] = j
      BY <1>2, <1>3, <3>2 DEF Queued
    <3> QED
      BY <2>1, <3>1, <3>2 DEF Queued
  <2>2. ASSUME Queued(j) PROVE Queued(j)'
    <3>1. CASE \E i \in 1 .. Len(queue) : queue[i] = j
      BY <1>2, <1>3, <1>5, <3>1 DEF Queued
    <3>2. CASE \E i \in 1 .. Len(pending) : pending[i] = j
      BY <1>3, <3>2 DEF Queued
    <3> QED
      BY <2>2, <3>1, <3>2 DEF Queued
  <2> QED
    BY <2>1, <2>2
<1>7. \A j \in OrderIds : IsLive(j)' <=> IsLive(j)
  BY <1>4 DEF IsLive
<1>8. QueueInv'
  <2>1. \A i, j \in 1 .. Len(queue') : queue'[i] = queue'[j] => i = j
    BY <1>2 DEF IInv, QueueInv
  <2>2. \A i, j \in 1 .. Len(pending') : pending'[i] = pending'[j] => i = j
    <3>1. \A i \in 1 .. Len(pending) : pending[i] # id
      BY <1>2 DEF IInv, QueueInv
    <3> QED
      BY <1>3, <3>1 DEF IInv, QueueInv
  <2>3. \A i \in 1 .. Len(queue'), j \in 1 .. Len(pending') : queue'[i] # pending'[j]
    <3>1. \A i \in 1 .. Len(queue') : i + 1 \in 1 .. Len(queue) /\ queue'[i] # id
      BY <1>2 DEF IInv, QueueInv
    <3> QED
      BY <1>2, <1>3, <3>1 DEF IInv, QueueInv
  <2> QED
    BY <1>6, <1>7, <2>1, <2>2, <2>3 DEF IInv, QueueInv
<1>9. KeptInv'
  BY <1>3, <1>4 DEF IInv, KeptInv, HasBarToday
<1>10. LiveOrdersMatchPositions'
  BY <1>4, <1>7, SameBook DEF IsOpen
<1>11. PhaseInv' /\ TimeInv'
  BY <1>4, <1>7 DEF IInv, PhaseInv, TimeInv, IsOpen
<1> QED
  BY <1>1, <1>8, <1>9, <1>10, <1>11 DEF IInv

\* An entry fill keeps the inductive invariant.
LEMMA FillEntryInv ==
  ASSUME IInv, FillEntry
  PROVE  IInv'
<1> DEFINE id == Head(queue)
           s == seen[id].symbol
<1>1. FillStep /\ id \in OrderIds /\ IsLive(id)
  BY HeadIsLive DEF FillEntry
<1>2. TypeOK'
  BY <1>1, FillEntryType DEF IInv
<1>3. s \in Symbols
  BY <1>1 DEF IInv, TypeOK, IsLive, OrderRec
<1>4. QueueInv' /\ \A j \in OrderIds : Queued(j)' <=> Queued(j) /\ j # id
  BY <1>1, HeadSettled DEF FillEntry
<1>5. \A j \in OrderIds : /\ IsLive(j)' <=> IsLive(j) /\ j # id
                          /\ j # id => seen'[j] = seen[j]
  BY <1>1, SettledOrder DEF FillEntry, IInv
<1>6. /\ UNCHANGED <<now, last, pending, phase, today, unchecked>>
      /\ phase = "fill"
      /\ justOpened' = justOpened \union {s}
  BY DEF FillEntry, FillStep
<1>7. /\ positions'[s] # NoPosition
      /\ positions'[s].entryTime = today
      /\ \A r \in Symbols : r # s => positions'[r] = positions[r]
  <2>1. \E p : p.entryTime = today /\ positions' = [positions EXCEPT ![s] = p]
    BY DEF FillEntry
  <2>2. PICK p : p.entryTime = today /\ positions' = [positions EXCEPT ![s] = p]
    BY <2>1
  <2>3. positions'[s] = p
    BY <1>3, <2>2 DEF IInv, TypeOK
  <2>4. \A r \in Symbols : r # s => positions'[r] = positions[r]
    BY <2>2 DEF IInv, TypeOK
  <2>5. positions'[s] # NoPosition
    <3> DEFINE price == BuyPrice(last[s].bar.open)
               q == [qty |-> seen[id].qty, entryPrice |-> price, entryTime |-> today,
                     stop |-> pendingStops[s], highWater |-> last[s].bar.high,
                     entryFee |-> Fee(price, seen[id].qty)]
    <3>1. last[s].bar \in Bar /\ seen[id].qty \in Nat
      BY <1>1, <1>3, BarType DEF FillEntry, IInv, TypeOK, IsLive, OrderRec
    <3>2. price \in Int /\ Fee(price, seen[id].qty) \in Int
      BY <3>1, ConstantsAssumption DEF BuyPrice, Fee, Bar
    <3>3. q \in Position
      BY <1>3, <3>1, <3>2 DEF Position, IInv, TypeOK, Bar
    <3>4. positions'[s] = q
      BY <1>3 DEF FillEntry, IInv, TypeOK
    <3> QED
      BY <3>3, <3>4, ConstantsAssumption
  <2> QED
    BY <2>2, <2>3, <2>4, <2>5
<1>8. PhaseInv'
  BY <1>6 DEF IInv, PhaseInv
<1>9. KeptInv'
  <2>1. \A i \in 1 .. Len(pending) : pending[i] \in OrderIds /\ pending[i] # id
    <3>1. id = queue[1] /\ 1 \in 1 .. Len(queue)
      BY <1>1, QueueHead DEF FillStep, IInv
    <3> QED
      BY <3>1, ElementOfSeq DEF IInv, QueueInv, TypeOK
  <2> QED
    BY <1>5, <1>6, <2>1 DEF IInv, KeptInv, HasBarToday
<1>10. LiveOrdersMatchPositions'
  <2>1. ASSUME NEW j \in OrderIds, IsLive(j)'
        PROVE  IsOpen(seen[j].symbol)' <=> IsOpen(seen[j].symbol)
    <3>1. IsLive(j) /\ j # id /\ seen'[j] = seen[j]
      BY <1>5, <2>1
    <3>2. seen[j].symbol \in Symbols /\ seen[j].symbol # s
      BY <1>1, <3>1 DEF IInv, LiveOrdersMatchPositions, TypeOK, IsLive, OrderRec
    <3> HIDE DEF s, id
    <3> QED
      BY <1>7, <3>1, <3>2 DEF IsOpen
  <2> QED
    BY <1>1, <1>5, <2>1, FewerOrders
<1>11. TimeInv'
  <2>1. \A j \in OrderIds : IsLive(j)' => seen'[j].createdAt <= now'
    BY <1>5, <1>6 DEF IInv, TimeInv
  <2>2. ASSUME NEW r \in Symbols, IsOpen(r)'
        PROVE  /\ positions'[r].entryTime <= today'
               /\ r \notin justOpened' => positions'[r].entryTime <= now'
    <3>1. CASE r = s
      BY <1>6, <1>7, <3>1 DEF IInv, TypeOK
    <3>2. CASE r # s
      BY <1>6, <1>7, <2>2, <3>2 DEF IInv, TimeInv, IsOpen
    <3> QED
      BY <3>1, <3>2
  <2> QED
    BY <2>1, <2>2 DEF TimeInv
<1> QED
  BY <1>2, <1>4, <1>8, <1>9, <1>10, <1>11 DEF IInv

\* A sale in the queue always finds the position it sells.
LEMMA FillExitFindsPosition ==
  ASSUME IInv, FillExit
  PROVE  IsOpen(seen[Head(queue)].symbol)
<1>1. IsLive(Head(queue)) /\ Head(queue) \in OrderIds
  BY HeadIsLive DEF FillExit
<1> QED
  BY <1>1 DEF FillExit, IInv, LiveOrdersMatchPositions

\* An exit fill keeps the inductive invariant.
LEMMA FillExitInv ==
  ASSUME IInv, FillExit
  PROVE  IInv'
<1> DEFINE id == Head(queue)
           s == seen[id].symbol
<1>1. FillStep /\ id \in OrderIds /\ IsLive(id) /\ IsOpen(s)
  BY HeadIsLive, FillExitFindsPosition DEF FillExit
<1>2. TypeOK'
  BY <1>1, FillExitType DEF IInv
<1>3. s \in Symbols
  BY <1>1 DEF IInv, TypeOK, IsLive, OrderRec
<1>4. seen' = [seen EXCEPT ![id].status = "FILLED"]
  BY <1>1 DEF FillExit
<1>5. QueueInv' /\ \A j \in OrderIds : Queued(j)' <=> Queued(j) /\ j # id
  BY <1>1, <1>4, HeadSettled DEF FillExit
<1>6. \A j \in OrderIds : /\ IsLive(j)' <=> IsLive(j) /\ j # id
                          /\ j # id => seen'[j] = seen[j]
  BY <1>1, <1>4, SettledOrder DEF IInv
<1>7. /\ UNCHANGED <<now, last, pending, phase, today, unchecked, justOpened>>
      /\ phase = "fill"
  BY DEF FillExit, FillStep
<1>8. /\ positions'[s] = NoPosition
      /\ \A r \in Symbols : r # s => positions'[r] = positions[r]
  <2>1. positions' = [positions EXCEPT ![s] = NoPosition]
    BY <1>1 DEF FillExit, SettleExit
  <2> QED
    BY <1>3, <2>1 DEF IInv, TypeOK
<1>9. PhaseInv'
  BY <1>7 DEF IInv, PhaseInv
<1>10. KeptInv'
  <2>1. \A i \in 1 .. Len(pending) : pending[i] \in OrderIds /\ pending[i] # id
    <3>1. id = queue[1] /\ 1 \in 1 .. Len(queue)
      BY <1>1, QueueHead DEF FillStep, IInv
    <3> QED
      BY <3>1, ElementOfSeq DEF IInv, QueueInv, TypeOK
  <2> QED
    BY <1>6, <1>7, <2>1 DEF IInv, KeptInv, HasBarToday
<1>11. LiveOrdersMatchPositions'
  <2>1. ASSUME NEW j \in OrderIds, IsLive(j)'
        PROVE  IsOpen(seen[j].symbol)' <=> IsOpen(seen[j].symbol)
    <3>1. IsLive(j) /\ j # id /\ seen'[j] = seen[j]
      BY <1>6, <2>1
    <3>2. seen[j].symbol \in Symbols /\ seen[j].symbol # s
      BY <1>1, <3>1 DEF IInv, LiveOrdersMatchPositions, TypeOK, IsLive, OrderRec
    <3> HIDE DEF s, id
    <3> QED
      BY <1>8, <3>1, <3>2 DEF IsOpen
  <2> QED
    BY <1>1, <1>6, <2>1, FewerOrders
<1>12. TimeInv'
  <2>1. \A j \in OrderIds : IsLive(j)' => seen'[j].createdAt <= now'
    BY <1>6, <1>7 DEF IInv, TimeInv
  <2>2. \A r \in Symbols : IsOpen(r)' => IsOpen(r) /\ positions'[r] = positions[r]
    BY <1>8 DEF IsOpen
  <2> QED
    BY <1>7, <2>1, <2>2 DEF IInv, TimeInv
<1> QED
  BY <1>2, <1>5, <1>9, <1>10, <1>11, <1>12 DEF IInv

\* updateHighWater keeps the inductive invariant.
LEMMA RaiseHighWaterInv ==
  ASSUME IInv, RaiseHighWater
  PROVE  IInv'
<1>1. TypeOK'
  BY RaiseHighWaterType DEF IInv
<1>2. /\ UNCHANGED <<now, last, seen, pending, queue, today, justOpened>>
      /\ phase = "fill" /\ phase' = "stops" /\ queue = <<>>
      /\ unchecked' = {s \in Symbols : IsOpen(s)}
  BY DEF RaiseHighWater, callerVars
<1>3. ASSUME NEW s \in Symbols
      PROVE  /\ IsOpen(s)' <=> IsOpen(s)
             /\ IsOpen(s) => positions'[s].entryTime = positions[s].entryTime
  <2>1. positions'[s] = IF IsOpen(s) /\ HasBarToday(s)
                             /\ last[s].bar.high > positions[s].highWater
                        THEN [positions[s] EXCEPT !.highWater = last[s].bar.high]
                        ELSE positions[s]
    BY DEF RaiseHighWater
  <2>2. ASSUME IsOpen(s), HasBarToday(s)
        PROVE  /\ [positions[s] EXCEPT !.highWater = last[s].bar.high] \in Position
               /\ [positions[s] EXCEPT !.highWater = last[s].bar.high].entryTime
                    = positions[s].entryTime
    BY <2>2, BarType DEF IInv, TypeOK, IsOpen, Position, Bar
  <2> QED
    BY <2>1, <2>2, ConstantsAssumption DEF IsOpen
<1>4. \A j \in OrderIds : IsLive(j)' <=> IsLive(j)
  BY <1>2 DEF IsLive
<1>5. PhaseInv'
  BY <1>2, <1>3 DEF IInv, PhaseInv
<1>6. QueueInv'
  BY <1>2, <1>4 DEF IInv, QueueInv, Queued
<1>7. KeptInv'
  BY <1>2 DEF IInv, KeptInv, HasBarToday
<1>8. LiveOrdersMatchPositions'
  BY <1>2, <1>3, <1>4, SameBook
<1>9. TimeInv'
  BY <1>2, <1>3, <1>4 DEF IInv, TimeInv
<1> QED
  BY <1>1, <1>5, <1>6, <1>7, <1>8, <1>9 DEF IInv

\* A stop never closes a position whose exit is ordered: the order was kept
\* because there is no candle today, and without a candle no stop is checked.
LEMMA StoppedSymbolIsFree ==
  ASSUME IInv, NEW s \in Symbols, CheckStop(s), StopReached(s)
  PROVE  \A j \in OrderIds : IsLive(j) => seen[j].symbol # s
<1> SUFFICES ASSUME NEW j \in OrderIds, IsLive(j), seen[j].symbol = s
             PROVE  FALSE
  OBVIOUS
<1>1. Queued(j) /\ queue = <<>> /\ phase = "stops"
  BY DEF IInv, QueueInv, PhaseInv, CheckStop
<1>2. PICK i \in 1 .. Len(pending) : pending[i] = j
  BY <1>1 DEF Queued
<1> QED
  BY <1>1, <1>2 DEF IInv, KeptInv, StopReached

\* One round of checkStops keeps the inductive invariant.
LEMMA CheckStopInv ==
  ASSUME IInv, NEW s \in Symbols, CheckStop(s)
  PROVE  IInv'
<1>1. IsOpen(s)
  BY DEF IInv, PhaseInv, CheckStop
<1>2. TypeOK'
  BY <1>1, CheckStopType DEF IInv
<1>3. /\ UNCHANGED <<now, last, seen, pending, queue, today, phase, justOpened>>
      /\ phase = "stops"
      /\ unchecked' = unchecked \ {s}
  BY DEF CheckStop, callerVars
<1>4. /\ StopReached(s) => positions'[s] = NoPosition
      /\ ~StopReached(s) => positions'[s] = positions[s]
      /\ \A r \in Symbols : r # s => positions'[r] = positions[r]
  BY DEF CheckStop, SettleExit, IInv, TypeOK
<1>5. \A j \in OrderIds : IsLive(j)' <=> IsLive(j)
  BY <1>3 DEF IsLive
<1>6. PhaseInv'
  BY <1>3, <1>4 DEF IInv, PhaseInv, IsOpen, TypeOK
<1>7. QueueInv'
  BY <1>3, <1>5 DEF IInv, QueueInv, Queued
<1>8. KeptInv'
  BY <1>3 DEF IInv, KeptInv, HasBarToday
<1>9. LiveOrdersMatchPositions'
  <2>1. ASSUME NEW j \in OrderIds, IsLive(j)
        PROVE  IsOpen(seen[j].symbol)' <=> IsOpen(seen[j].symbol)
    <3>1. seen[j].symbol \in Symbols /\ (StopReached(s) => seen[j].symbol # s)
      BY <2>1, StoppedSymbolIsFree DEF IInv, TypeOK, IsLive, OrderRec
    <3> QED
      BY <1>3, <1>4, <3>1 DEF IsOpen
  <2>2. ASSUME NEW j \in OrderIds, IsLive(j)'
        PROVE  (seen[j].side = "sell" <=> IsOpen(seen[j].symbol))'
    BY <1>3, <1>5, <2>1, <2>2 DEF IInv, LiveOrdersMatchPositions
  <2>3. ASSUME NEW i \in OrderIds, NEW j \in OrderIds, IsLive(i)', IsLive(j)',
               seen'[i].symbol = seen'[j].symbol
        PROVE  i = j
    BY <1>3, <1>5, <2>3 DEF IInv, LiveOrdersMatchPositions
  <2> QED
    BY <2>2, <2>3 DEF LiveOrdersMatchPositions
<1>10. TimeInv'
  <2>1. \A r \in Symbols : IsOpen(r)' => IsOpen(r) /\ positions'[r] = positions[r]
    BY <1>1, <1>4 DEF IsOpen
  <2> QED
    BY <1>3, <1>5, <2>1 DEF IInv, TimeInv
<1> QED
  BY <1>2, <1>6, <1>7, <1>8, <1>9, <1>10 DEF IInv

\* The return of Advance keeps the inductive invariant.
LEMMA EndAdvanceInv ==
  ASSUME IInv, EndAdvance
  PROVE  IInv'
<1>1. TypeOK'
  BY EndAdvanceType DEF IInv
<1>2. /\ UNCHANGED <<last, positions, seen, pending, queue, today, unchecked>>
      /\ phase = "stops" /\ phase' = "idle" /\ now' = today /\ today = now + 1
      /\ now \in Nat /\ unchecked = {} /\ queue = <<>>
  BY DEF EndAdvance, callerVars, IInv, PhaseInv, TypeOK
<1>3. \A j \in OrderIds : IsLive(j)' <=> IsLive(j)
  BY <1>2 DEF IsLive
<1>4. PhaseInv' /\ KeptInv'
  BY <1>2 DEF PhaseInv, KeptInv
<1>5. QueueInv'
  BY <1>2, <1>3 DEF IInv, QueueInv, Queued
<1>6. LiveOrdersMatchPositions'
  BY <1>2, <1>3, SameBook DEF IsOpen
<1>7. TimeInv'
  <2>1. ASSUME NEW j \in OrderIds, IsLive(j)'
        PROVE  seen'[j].createdAt <= now'
    <3>1. seen[j].createdAt <= now /\ seen[j].createdAt \in Nat
      BY <1>3, <2>1 DEF IInv, TimeInv, TypeOK, IsLive, OrderRec
    <3> QED
      BY <1>2, <3>1
  <2> QED
    BY <1>2, <2>1 DEF IInv, TimeInv, IsOpen
<1> QED
  BY <1>1, <1>4, <1>5, <1>6, <1>7 DEF IInv

\* Every step of the broker keeps the inductive invariant.
THEOREM Inductive == IInv /\ [Next]_vars => IInv'
<1> SUFFICES ASSUME IInv, [Next]_vars PROVE IInv'
  OBVIOUS
<1>1. ASSUME NEW id \in OrderIds, NEW s \in Symbols, NEW side \in {"buy", "sell"},
             NEW qty \in Qtys, SubmitMarket(id, s, side, qty)
      PROVE  IInv'
  BY <1>1, SubmitMarketInv
<1>2. ASSUME NEW id \in OrderIds, NEW s \in Symbols, NEW price \in StopPrices,
             SubmitStop(id, s, price)
      PROVE  IInv'
  BY <1>2, SubmitStopInv
<1>3. ASSUME NEW id \in OrderIds, Cancel(id) PROVE IInv'
  BY <1>3, CancelInv
<1>4. ASSUME NEW bars \in DayBars, BeginAdvance(bars) PROVE IInv'
  BY <1>4, BeginAdvanceInv
<1>5. CASE KeepPending
  BY <1>5, KeepPendingInv
<1>6. CASE FillEntry
  BY <1>6, FillEntryInv
<1>7. CASE FillExit
  BY <1>7, FillExitInv
<1>8. CASE RaiseHighWater
  BY <1>8, RaiseHighWaterInv
<1>9. ASSUME NEW s \in Symbols, CheckStop(s) PROVE IInv'
  BY <1>9, CheckStopInv
<1>10. CASE EndAdvance
  BY <1>10, EndAdvanceInv
<1>11. CASE UNCHANGED vars
  BY <1>11 DEF vars, callerVars, advanceVars, IInv, TypeOK, PhaseInv, QueueInv, Queued,
     KeptInv, LiveOrdersMatchPositions, TimeInv, IsLive, IsOpen, HasBarToday
<1> QED
  BY <1>1, <1>2, <1>3, <1>4, <1>5, <1>6, <1>7, <1>8, <1>9, <1>10, <1>11
     DEF Next, Caller, Advance

\* The state always has its type.
THEOREM TypeCorrect == Spec => []TypeOK
<1>1. IInv => TypeOK
  BY DEF IInv
<1> QED
  BY InitInv, Inductive, <1>1, PTL DEF Spec

\* A symbol has at most one live market order, a purchase exactly when it has no
\* position and a sale exactly when it has one.
THEOREM LiveOrdersCorrect == Spec => []LiveOrdersMatchPositions
<1>1. IInv => LiveOrdersMatchPositions
  BY DEF IInv
<1> QED
  BY InitInv, Inductive, <1>1, PTL DEF Spec

-----------------------------------------------------------------------------
(***************************************************************************)
(* PaperBroker implements PositionBook.  The day of a symbol's live order  *)
(* is well defined because the invariant leaves at most one; each step is  *)
(* then either invisible or one step of the abstract book.                 *)
(***************************************************************************)
LEMMA OrderedDayLive ==
  ASSUME LiveOrdersMatchPositions, NEW id \in OrderIds, IsLive(id)
  PROVE  OrderedDay(seen[id].symbol) = seen[id].createdAt
<1> DEFINE s == seen[id].symbol
           c == CHOOSE j \in OrderIds : IsLive(j) /\ seen[j].symbol = s
<1>1. \E j \in OrderIds : IsLive(j) /\ seen[j].symbol = s
  OBVIOUS
<1>2. c \in OrderIds /\ IsLive(c) /\ seen[c].symbol = s
  BY <1>1
<1>3. c = id
  BY <1>2 DEF LiveOrdersMatchPositions
<1> QED
  BY <1>1, <1>3 DEF OrderedDay

\* A symbol without a live order has no order day.
LEMMA OrderedDayFree ==
  ASSUME NEW s \in Symbols, \A j \in OrderIds : IsLive(j) => seen[j].symbol # s
  PROVE  OrderedDay(s) = -1
  BY DEF OrderedDay

\* The two facts above, after a step.
LEMMA OrderedDayLiveNext ==
  ASSUME LiveOrdersMatchPositions', NEW id \in OrderIds, IsLive(id)',
         NEW s \in Symbols, seen'[id].symbol = s
  PROVE  OrderedDay(s)' = seen'[id].createdAt
<1> DEFINE Mine(j) == (seen'[j] # NoOrder /\ seen'[j].status = "PENDING")
                        /\ seen'[j].symbol = s
           c == CHOOSE j \in OrderIds : Mine(j)
<1>1. Mine(id)
  BY DEF IsLive
<1>2. c \in OrderIds /\ Mine(c)
  BY <1>1
<1>3. c = id
  BY <1>1, <1>2 DEF LiveOrdersMatchPositions, IsLive
<1>4. OrderedDay(s)' = IF \E j \in OrderIds : Mine(j) THEN seen'[c].createdAt ELSE -1
  BY DEF OrderedDay, IsLive
<1> QED
  BY <1>1, <1>3, <1>4

\* The same after a step.
LEMMA OrderedDayFreeNext ==
  ASSUME NEW s \in Symbols, \A j \in OrderIds : IsLive(j)' => seen'[j].symbol # s
  PROVE  OrderedDay(s)' = -1
  BY DEF OrderedDay

\* The day of symbol s's order is the same when its live orders are.
LEMMA OrderedDaySame ==
  ASSUME LiveOrdersMatchPositions, LiveOrdersMatchPositions', NEW s \in Symbols,
         \A j \in OrderIds :
           /\ (IsLive(j) /\ seen[j].symbol = s) <=> (IsLive(j)' /\ seen'[j].symbol = s)
           /\ IsLive(j)' /\ seen'[j].symbol = s => seen'[j].createdAt = seen[j].createdAt
  PROVE  OrderedDay(s)' = OrderedDay(s)
<1>1. CASE \E j \in OrderIds : IsLive(j) /\ seen[j].symbol = s
  <2>1. PICK j \in OrderIds : IsLive(j) /\ seen[j].symbol = s
    BY <1>1
  <2>2. OrderedDay(s) = seen[j].createdAt
    BY <2>1, OrderedDayLive
  <2>3. OrderedDay(s)' = seen'[j].createdAt
    BY <2>1, OrderedDayLiveNext
  <2> QED
    BY <2>1, <2>2, <2>3
<1>2. CASE ~\E j \in OrderIds : IsLive(j) /\ seen[j].symbol = s
  BY <1>2, OrderedDayFree, OrderedDayFreeNext
<1> QED
  BY <1>1, <1>2

\* Taking the live order of a symbol out frees that symbol and no other.
LEMMA OrderTaken ==
  ASSUME IInv, IInv', NEW id \in OrderIds, IsLive(id),
         \A j \in OrderIds : /\ IsLive(j)' <=> IsLive(j) /\ j # id
                             /\ j # id => seen'[j] = seen[j]
  PROVE  /\ seen[id].symbol \in Symbols
         /\ OrderedDay(seen[id].symbol) = seen[id].createdAt
         /\ seen[id].createdAt \in Nat /\ seen[id].createdAt <= now
         /\ \A r \in Symbols :
              OrderedDay(r)' = IF r = seen[id].symbol THEN -1 ELSE OrderedDay(r)
<1> DEFINE s == seen[id].symbol
<1>1. s \in Symbols /\ seen[id].createdAt \in Nat
  BY DEF IInv, TypeOK, IsLive, OrderRec
<1>2. OrderedDay(s) = seen[id].createdAt
  BY OrderedDayLive DEF IInv
<1>3. seen[id].createdAt <= now
  BY DEF IInv, TimeInv
<1>4. ASSUME NEW r \in Symbols
      PROVE  OrderedDay(r)' = IF r = s THEN -1 ELSE OrderedDay(r)
  <2>1. CASE r = s
    <3>1. \A j \in OrderIds : IsLive(j)' => seen'[j].symbol # r
      BY <2>1 DEF IInv, LiveOrdersMatchPositions
    <3> QED
      BY <2>1, <3>1, OrderedDayFreeNext
  <2>2. CASE r # s
    BY <2>2, OrderedDaySame DEF IInv
  <2> QED
    BY <2>1, <2>2
<1> QED
  BY <1>1, <1>2, <1>3, <1>4

BookDay == IF phase = "idle" THEN now ELSE today

OrderedMap == [s \in Symbols |-> OrderedDay(s)]

EnteredMap == [s \in Symbols |-> EnteredDay(s)]

\* A new broker is an empty position book.
LEMMA InitBook == Init => Book!Init
<1> SUFFICES ASSUME Init PROVE Book!Init
  OBVIOUS
<1>1. \A s \in Symbols : OrderedDay(s) = -1
  BY DEF Init, OrderedDay, IsLive
<1>2. \A s \in Symbols : EnteredDay(s) = -1
  BY DEF Init, EnteredDay, IsOpen
<1>3. (IF phase = "idle" THEN now ELSE today) = 0
  BY DEF Init
<1> QED
  BY <1>1, <1>2, <1>3 DEF Book!Init, Book!None

\* A step that changes neither the book day, nor an order day, nor an entry day
\* is invisible.
LEMMA BookStutter ==
  ASSUME BookDay' = BookDay,
         \A r \in Symbols : OrderedDay(r)' = OrderedDay(r) /\ EnteredDay(r)' = EnteredDay(r)
  PROVE  UNCHANGED Book!vars
<1>1. OrderedMap' = OrderedMap /\ EnteredMap' = EnteredMap
  BY DEF OrderedMap, EnteredMap
<1> QED
  BY <1>1 DEF Book!vars, OrderedMap, EnteredMap, BookDay

\* Submit of a market order is the book's Order.
LEMMA SubmitMarketBook ==
  ASSUME IInv, IInv', NEW id \in OrderIds, NEW s \in Symbols,
         NEW side \in {"buy", "sell"}, NEW qty \in Qtys, SubmitMarket(id, s, side, qty)
  PROVE  Book!Order(s)
<1>1. /\ seen' = [seen EXCEPT ![id] =
                     [symbol |-> s, side |-> side, qty |-> qty, type |-> "market",
                      status |-> "PENDING", createdAt |-> now]]
      /\ ~IsLive(id)
      /\ phase = "idle" /\ phase' = "idle"
      /\ UNCHANGED <<now, positions>>
  BY DEF SubmitMarket, Record, advanceVars, IsLive
<1>2. /\ IsLive(id)' /\ seen'[id].symbol = s /\ seen'[id].createdAt = now
      /\ \A j \in OrderIds : j # id => seen'[j] = seen[j] /\ (IsLive(j)' <=> IsLive(j))
  <2>1. seen'[id] = [symbol |-> s, side |-> side, qty |-> qty, type |-> "market",
                     status |-> "PENDING", createdAt |-> now]
    BY <1>1 DEF IInv, TypeOK
  <2>2. seen'[id] \in OrderRec
    BY <2>1, ConstantsAssumption DEF OrderRec, IInv, TypeOK
  <2>3. \A j \in OrderIds : j # id => seen'[j] = seen[j]
    BY <1>1 DEF IInv, TypeOK
  <2> QED
    BY <2>1, <2>2, <2>3, ConstantsAssumption DEF IsLive
<1>3. OrderedDay(s) = -1
  BY SubmittedSymbolIsFree, OrderedDayFree
<1>4. OrderedDay(s)' = now
  BY <1>2, OrderedDayLiveNext DEF IInv
<1>5. ASSUME NEW r \in Symbols, r # s
      PROVE  OrderedDay(r)' = OrderedDay(r)
  BY <1>1, <1>2, <1>5, OrderedDaySame DEF IInv
<1>6. OrderedMap' = [OrderedMap EXCEPT ![s] = BookDay]
  BY <1>1, <1>4, <1>5 DEF OrderedMap, BookDay
<1>7. EnteredMap' = EnteredMap /\ BookDay' = BookDay
  BY <1>1 DEF EnteredMap, EnteredDay, IsOpen, BookDay
<1> QED
  BY <1>3, <1>6, <1>7 DEF Book!Order, Book!None, OrderedMap, EnteredMap, BookDay

\* Submit of a stop does not show in the book.
LEMMA SubmitStopBook ==
  ASSUME IInv, IInv', NEW id \in OrderIds, NEW s \in Symbols, NEW price \in StopPrices,
         SubmitStop(id, s, price)
  PROVE  UNCHANGED Book!vars
<1>1. \A j \in OrderIds : /\ IsLive(j)' <=> IsLive(j)
                          /\ IsLive(j) => seen'[j] = seen[j]
  BY DEF IsLive, IInv, TypeOK, SubmitStop, Record
<1>2. ASSUME NEW r \in Symbols
      PROVE  OrderedDay(r)' = OrderedDay(r)
  BY <1>1, OrderedDaySame DEF IInv
<1>3. ASSUME NEW r \in Symbols
      PROVE  EnteredDay(r)' = EnteredDay(r)
  <2>1. CASE IsOpen(s) /\ r = s
    <3>1. positions'[s] = [positions[s] EXCEPT !.stop = price] /\ positions[s] \in Position
      BY <2>1 DEF SubmitStop, IInv, TypeOK, IsOpen
    <3>2. positions'[s] \in Position /\ positions'[s].entryTime = positions[s].entryTime
      BY <3>1, ConstantsAssumption DEF Position
    <3> QED
      BY <2>1, <3>2, ConstantsAssumption DEF EnteredDay, IsOpen
  <2>2. CASE ~(IsOpen(s) /\ r = s)
    <3>1. positions'[r] = positions[r]
      BY <2>2 DEF SubmitStop, IInv, TypeOK
    <3> QED
      BY <3>1 DEF EnteredDay, IsOpen
  <2> QED
    BY <2>1, <2>2
<1>4. BookDay' = BookDay
  BY DEF SubmitStop, advanceVars, BookDay
<1> QED
  BY <1>2, <1>3, <1>4, BookStutter

\* Cancel is the book's Withdraw.
LEMMA CancelBook ==
  ASSUME IInv, IInv', NEW id \in OrderIds, Cancel(id)
  PROVE  \E s \in Symbols : Book!Withdraw(s)
<1> DEFINE s == seen[id].symbol
<1>1. IsLive(id)
  BY DEF Cancel, IInv, QueueInv, Queued
<1>2. \A j \in OrderIds : /\ IsLive(j)' <=> IsLive(j) /\ j # id
                          /\ j # id => seen'[j] = seen[j]
  BY <1>1, SettledOrder DEF Cancel, IInv
<1>3. /\ s \in Symbols /\ OrderedDay(s) \in Nat
      /\ \A r \in Symbols : OrderedDay(r)' = IF r = s THEN -1 ELSE OrderedDay(r)
  BY <1>1, <1>2, OrderTaken
<1> HIDE DEF s
<1>4. OrderedMap' = [OrderedMap EXCEPT ![s] = -1]
  BY <1>3 DEF OrderedMap
<1>5. EnteredMap' = EnteredMap /\ BookDay' = BookDay
  BY DEF Cancel, advanceVars, EnteredMap, EnteredDay, IsOpen, BookDay
<1>6. Book!Withdraw(s)
  BY <1>3, <1>4, <1>5 DEF Book!Withdraw, Book!None, OrderedMap, EnteredMap, BookDay
<1> QED
  BY <1>3, <1>6

\* The start of Advance is the book's NewDay.
LEMMA BeginAdvanceBook ==
  ASSUME IInv, IInv', NEW bars \in DayBars, BeginAdvance(bars)
  PROVE  Book!NewDay
<1>1. BookDay' = BookDay + 1
  BY DEF BeginAdvance, BookDay
<1>2. UNCHANGED <<seen, positions>>
  BY DEF BeginAdvance
<1>3. OrderedMap' = OrderedMap /\ EnteredMap' = EnteredMap
  BY <1>2 DEF OrderedMap, EnteredMap, OrderedDay, EnteredDay, IsLive, IsOpen
<1> QED
  BY <1>1, <1>3 DEF Book!NewDay, OrderedMap, EnteredMap, BookDay

\* A retried order does not show in the book.
LEMMA KeepPendingBook ==
  ASSUME KeepPending
  PROVE  UNCHANGED Book!vars
<1>1. UNCHANGED <<seen, positions, phase, now, today>>
  BY DEF KeepPending
<1>2. /\ BookDay' = BookDay
      /\ \A r \in Symbols : OrderedDay(r)' = OrderedDay(r) /\ EnteredDay(r)' = EnteredDay(r)
  BY <1>1 DEF BookDay, OrderedDay, EnteredDay, IsLive, IsOpen
<1> QED
  BY <1>2, BookStutter

\* An entry fill is the book's SettleEntry, on a day after the order's.
LEMMA FillEntryBook ==
  ASSUME IInv, IInv', FillEntry
  PROVE  \E s \in Symbols : Book!SettleEntry(s)
<1> DEFINE id == Head(queue)
           s == seen[id].symbol
<1>1. id \in OrderIds /\ IsLive(id) /\ seen[id].side = "buy"
  BY HeadIsLive DEF FillEntry
<1>2. \A j \in OrderIds : /\ IsLive(j)' <=> IsLive(j) /\ j # id
                          /\ j # id => seen'[j] = seen[j]
  BY <1>1, SettledOrder DEF FillEntry, IInv
<1>3. /\ s \in Symbols /\ OrderedDay(s) \in Nat /\ OrderedDay(s) <= now
      /\ \A r \in Symbols : OrderedDay(r)' = IF r = s THEN -1 ELSE OrderedDay(r)
  BY <1>1, <1>2, OrderTaken
<1>4. EnteredDay(s) = -1
  BY <1>1 DEF IInv, LiveOrdersMatchPositions, EnteredDay
<1>5. phase = "fill" /\ phase' = "fill" /\ today' = today /\ today = now + 1 /\ now \in Nat
  BY DEF FillEntry, FillStep, IInv, PhaseInv, TypeOK
<1>6. /\ positions'[s].entryTime = today /\ positions'[s] \in Position \union {NoPosition}
      /\ \A r \in Symbols : r # s => positions'[r] = positions[r]
  <2>1. PICK p : p.entryTime = today /\ positions' = [positions EXCEPT ![s] = p]
    BY DEF FillEntry
  <2>2. positions'[s] = p
    BY <1>3, <2>1 DEF IInv, TypeOK
  <2> QED
    BY <1>3, <2>1, <2>2 DEF IInv, TypeOK
<1>7. positions'[s] # NoPosition
  <2>1. last[s].bar \in Bar /\ seen[id].qty \in Nat
    BY <1>1, <1>3, BarType DEF FillEntry, IInv, TypeOK, IsLive, OrderRec
  <2> DEFINE price == BuyPrice(last[s].bar.open)
             q == [qty |-> seen[id].qty, entryPrice |-> price, entryTime |-> today,
                   stop |-> pendingStops[s], highWater |-> last[s].bar.high,
                   entryFee |-> Fee(price, seen[id].qty)]
  <2>2. price \in Int /\ Fee(price, seen[id].qty) \in Int
    BY <2>1, ConstantsAssumption DEF BuyPrice, Fee, Bar
  <2>3. q \in Position
    BY <1>3, <2>1, <2>2 DEF Position, IInv, TypeOK, Bar
  <2>4. positions'[s] = q
    BY <1>3 DEF FillEntry, IInv, TypeOK
  <2> QED
    BY <2>3, <2>4, ConstantsAssumption
<1> HIDE DEF s, id
<1>8. ASSUME NEW r \in Symbols
      PROVE  EnteredDay(r)' = IF r = s THEN today ELSE EnteredDay(r)
  BY <1>6, <1>7 DEF EnteredDay, IsOpen
<1>9. /\ OrderedMap' = [OrderedMap EXCEPT ![s] = -1]
      /\ EnteredMap' = [EnteredMap EXCEPT ![s] = BookDay]
      /\ BookDay' = BookDay /\ BookDay = today
  BY <1>3, <1>5, <1>8 DEF OrderedMap, EnteredMap, BookDay
<1>10. OrderedDay(s) < BookDay
  BY <1>3, <1>5, <1>9
<1>11. Book!SettleEntry(s)
  BY <1>3, <1>4, <1>9, <1>10
     DEF Book!SettleEntry, Book!None, OrderedMap, EnteredMap, BookDay
<1> QED
  BY <1>3, <1>11

\* An exit fill is the book's SettleExit, on a day after the order's.
LEMMA FillExitBook ==
  ASSUME IInv, IInv', FillExit
  PROVE  \E s \in Symbols : Book!SettleExit(s)
<1> DEFINE id == Head(queue)
           s == seen[id].symbol
<1>1. id \in OrderIds /\ IsLive(id) /\ IsOpen(s)
  BY HeadIsLive, FillExitFindsPosition DEF FillExit
<1>2. \A j \in OrderIds : /\ IsLive(j)' <=> IsLive(j) /\ j # id
                          /\ j # id => seen'[j] = seen[j]
  BY <1>1, SettledOrder DEF FillExit, IInv
<1>3. /\ s \in Symbols /\ OrderedDay(s) \in Nat /\ OrderedDay(s) <= now
      /\ \A r \in Symbols : OrderedDay(r)' = IF r = s THEN -1 ELSE OrderedDay(r)
  BY <1>1, <1>2, OrderTaken
<1>4. EnteredDay(s) \in Nat
  BY <1>1, <1>3 DEF EnteredDay, IInv, TypeOK, IsOpen, Position
<1>5. phase = "fill" /\ phase' = "fill" /\ today' = today /\ today = now + 1 /\ now \in Nat
  BY DEF FillExit, FillStep, IInv, PhaseInv, TypeOK
<1>6. positions' = [positions EXCEPT ![s] = NoPosition]
  BY <1>1 DEF FillExit, SettleExit
<1> HIDE DEF s, id
<1>7. ASSUME NEW r \in Symbols
      PROVE  EnteredDay(r)' = IF r = s THEN -1 ELSE EnteredDay(r)
  BY <1>3, <1>6 DEF EnteredDay, IsOpen, IInv, TypeOK
<1>8. /\ OrderedMap' = [OrderedMap EXCEPT ![s] = -1]
      /\ EnteredMap' = [EnteredMap EXCEPT ![s] = -1]
      /\ BookDay' = BookDay /\ BookDay = today
  BY <1>3, <1>5, <1>7 DEF OrderedMap, EnteredMap, BookDay
<1>9. OrderedDay(s) < BookDay
  BY <1>3, <1>5, <1>8
<1>10. Book!SettleExit(s)
  BY <1>3, <1>4, <1>8, <1>9
     DEF Book!SettleExit, Book!None, OrderedMap, EnteredMap, BookDay
<1> QED
  BY <1>3, <1>10

\* updateHighWater does not show in the book.
LEMMA RaiseHighWaterBook ==
  ASSUME IInv, RaiseHighWater
  PROVE  UNCHANGED Book!vars
<1>1. ASSUME NEW s \in Symbols
      PROVE  EnteredDay(s)' = EnteredDay(s)
  <2>1. positions'[s] = IF IsOpen(s) /\ HasBarToday(s)
                             /\ last[s].bar.high > positions[s].highWater
                        THEN [positions[s] EXCEPT !.highWater = last[s].bar.high]
                        ELSE positions[s]
    BY DEF RaiseHighWater
  <2>2. ASSUME IsOpen(s), HasBarToday(s)
        PROVE  /\ [positions[s] EXCEPT !.highWater = last[s].bar.high] \in Position
               /\ [positions[s] EXCEPT !.highWater = last[s].bar.high].entryTime
                    = positions[s].entryTime
    BY <2>2, BarType DEF IInv, TypeOK, IsOpen, Position, Bar
  <2> QED
    BY <2>1, <2>2, ConstantsAssumption DEF EnteredDay, IsOpen
<1>2. \A r \in Symbols : OrderedDay(r)' = OrderedDay(r)
  BY DEF RaiseHighWater, callerVars, OrderedDay, IsLive
<1>3. BookDay' = BookDay
  BY DEF RaiseHighWater, BookDay
<1> QED
  BY <1>1, <1>2, <1>3, BookStutter

\* A round of checkStops is the book's StopOut, or does not show.
LEMMA CheckStopBook ==
  ASSUME IInv, IInv', NEW s \in Symbols, CheckStop(s)
  PROVE  Book!StopOut(s) \/ UNCHANGED Book!vars
<1>1. /\ UNCHANGED <<now, seen, today, phase>>
      /\ phase = "stops" /\ today = now + 1 /\ now \in Nat
  BY DEF CheckStop, callerVars, IInv, PhaseInv, TypeOK
<1>2. \A r \in Symbols : OrderedDay(r)' = OrderedDay(r)
  BY <1>1 DEF OrderedDay, IsLive
<1>3. OrderedMap' = OrderedMap /\ BookDay' = BookDay /\ BookDay = today
  BY <1>1, <1>2 DEF OrderedMap, BookDay
<1>4. CASE StopReached(s)
  <2>1. IsOpen(s)
    BY DEF IInv, PhaseInv, CheckStop
  <2>2. OrderedDay(s) = -1
    BY <1>4, StoppedSymbolIsFree, OrderedDayFree
  <2>3. EnteredDay(s) \in Nat /\ EnteredDay(s) <= now
    BY <1>4, <2>1 DEF EnteredDay, IInv, TimeInv, StopReached, TypeOK, IsOpen, Position
  <2>4. positions' = [positions EXCEPT ![s] = NoPosition]
    BY <1>4 DEF CheckStop, SettleExit
  <2>5. ASSUME NEW r \in Symbols
        PROVE  EnteredDay(r)' = IF r = s THEN -1 ELSE EnteredDay(r)
    BY <2>4 DEF EnteredDay, IsOpen, IInv, TypeOK
  <2>6. EnteredMap' = [EnteredMap EXCEPT ![s] = -1]
    BY <2>5 DEF EnteredMap
  <2>7. EnteredDay(s) < BookDay
    BY <1>1, <1>3, <2>3
  <2> QED
    BY <1>3, <2>2, <2>3, <2>6, <2>7
       DEF Book!StopOut, Book!None, OrderedMap, EnteredMap, BookDay
<1>5. CASE ~StopReached(s)
  <2>1. \A r \in Symbols : EnteredDay(r)' = EnteredDay(r)
    BY <1>5 DEF CheckStop, EnteredDay, IsOpen
  <2> QED
    BY <1>2, <1>3, <2>1, BookStutter
<1> QED
  BY <1>4, <1>5

\* The return of Advance does not show in the book.
LEMMA EndAdvanceBook ==
  ASSUME EndAdvance
  PROVE  UNCHANGED Book!vars
<1>1. BookDay' = BookDay
  BY DEF EndAdvance, BookDay
<1>2. \A r \in Symbols : OrderedDay(r)' = OrderedDay(r) /\ EnteredDay(r)' = EnteredDay(r)
  BY DEF EndAdvance, callerVars, OrderedDay, EnteredDay, IsLive, IsOpen
<1> QED
  BY <1>1, <1>2, BookStutter

\* Every step of the broker is a step of the book or a stutter.
LEMMA NextBook == IInv /\ IInv' /\ [Next]_vars => [Book!Next]_(Book!vars)
<1> SUFFICES ASSUME IInv, IInv', [Next]_vars
             PROVE  Book!Next \/ UNCHANGED Book!vars
  OBVIOUS
<1>1. ASSUME NEW id \in OrderIds, NEW s \in Symbols, NEW side \in {"buy", "sell"},
             NEW qty \in Qtys, SubmitMarket(id, s, side, qty)
      PROVE  Book!Next
  BY <1>1, SubmitMarketBook DEF Book!Next
<1>2. ASSUME NEW id \in OrderIds, NEW s \in Symbols, NEW price \in StopPrices,
             SubmitStop(id, s, price)
      PROVE  UNCHANGED Book!vars
  BY <1>2, SubmitStopBook
<1>3. ASSUME NEW id \in OrderIds, Cancel(id) PROVE Book!Next
  BY <1>3, CancelBook DEF Book!Next
<1>4. ASSUME NEW bars \in DayBars, BeginAdvance(bars) PROVE Book!Next
  BY <1>4, BeginAdvanceBook DEF Book!Next
<1>5. CASE KeepPending
  BY <1>5, KeepPendingBook
<1>6. CASE FillEntry
  BY <1>6, FillEntryBook DEF Book!Next
<1>7. CASE FillExit
  BY <1>7, FillExitBook DEF Book!Next
<1>8. CASE RaiseHighWater
  BY <1>8, RaiseHighWaterBook
<1>9. ASSUME NEW s \in Symbols, CheckStop(s)
      PROVE  Book!Next \/ UNCHANGED Book!vars
  BY <1>9, CheckStopBook DEF Book!Next
<1>10. CASE EndAdvance
  BY <1>10, EndAdvanceBook
<1>11. CASE UNCHANGED vars
  <2>1. /\ BookDay' = BookDay
        /\ \A r \in Symbols : OrderedDay(r)' = OrderedDay(r) /\ EnteredDay(r)' = EnteredDay(r)
    BY <1>11 DEF vars, callerVars, advanceVars, BookDay, OrderedDay, EnteredDay, IsLive, IsOpen
  <2> QED
    BY <2>1, BookStutter
<1> QED
  BY <1>1, <1>2, <1>3, <1>4, <1>5, <1>6, <1>7, <1>8, <1>9, <1>10, <1>11
     DEF Next, Caller, Advance

\* PaperBroker implements PositionBook.
THEOREM PaperBrokerImplementsPositionBook == Spec => ImplementsPositionBook
<1>1. Spec => []IInv
  BY InitInv, Inductive, PTL DEF Spec
<1>2. Spec => Book!Spec
  BY <1>1, InitBook, NextBook, PTL DEF Spec, Book!Spec
<1> QED
  BY <1>2 DEF ImplementsPositionBook

-----------------------------------------------------------------------------
(***************************************************************************)
(* Stops.  checkStops leaves behind it no position whose stop today's low  *)
(* has reached; what it skips, because it was opened today, carries        *)
(* today's date.                                                           *)
(***************************************************************************)
StopInv ==
  /\ phase # "idle" =>
       \A s \in Symbols : IsOpen(s) /\ s \in justOpened => positions[s].entryTime = today
  /\ phase = "stops" =>
       \A s \in Symbols : IsOpen(s) /\ s \notin unchecked => ~StopReached(s)

\* Every step keeps StopInv, the part of StopsHonoured already established for
\* the symbols checkStops has visited.
LEMMA StopInductive == IInv /\ StopInv /\ [Next]_vars => StopInv'
<1> SUFFICES ASSUME IInv, StopInv, [Next]_vars PROVE StopInv'
  OBVIOUS
<1>1. CASE Caller
  <2>1. phase = "idle" /\ phase' = "idle"
    BY <1>1 DEF Caller, SubmitMarket, SubmitStop, Cancel, advanceVars
  <2> QED
    BY <2>1 DEF StopInv
<1>2. ASSUME NEW bars \in DayBars, BeginAdvance(bars) PROVE StopInv'
  BY <1>2 DEF BeginAdvance, StopInv
<1>3. CASE KeepPending
  BY <1>3 DEF KeepPending, FillStep, StopInv, IsOpen
<1>4. CASE FillEntry
  <2> DEFINE s == seen[Head(queue)].symbol
  <2>1. s \in Symbols /\ phase = "fill"
    BY <1>4, HeadIsLive DEF FillEntry, FillStep, IInv, TypeOK, IsLive, OrderRec
  <2>2. PICK p : p.entryTime = today /\ positions' = [positions EXCEPT ![s] = p]
    BY <1>4 DEF FillEntry
  <2>3. positions'[s].entryTime = today
    BY <2>1, <2>2 DEF IInv, TypeOK
  <2>4. \A r \in Symbols : r # s => positions'[r] = positions[r]
    BY <2>1, <2>2 DEF IInv, TypeOK
  <2>5. phase' = "fill" /\ today' = today /\ justOpened' = justOpened \union {s}
    BY <1>4, <2>1 DEF FillEntry
  <2> HIDE DEF s
  <2> QED
    BY <2>1, <2>3, <2>4, <2>5 DEF StopInv, IsOpen
<1>5. CASE FillExit
  <2> DEFINE s == seen[Head(queue)].symbol
  <2>1. s \in Symbols /\ phase = "fill"
    BY <1>5, HeadIsLive DEF FillExit, FillStep, IInv, TypeOK, IsLive, OrderRec
  <2>2. positions' = [positions EXCEPT ![s] = NoPosition]
    BY <1>5, FillExitFindsPosition DEF FillExit, SettleExit
  <2>3. \A r \in Symbols : IsOpen(r)' => IsOpen(r) /\ positions'[r] = positions[r]
    BY <2>1, <2>2 DEF IInv, TypeOK, IsOpen
  <2>4. phase' = "fill" /\ today' = today /\ justOpened' = justOpened
    BY <1>5, <2>1 DEF FillExit
  <2> QED
    BY <2>1, <2>3, <2>4 DEF StopInv
<1>6. CASE RaiseHighWater
  <2>1. /\ phase = "fill" /\ phase' = "stops"
        /\ UNCHANGED <<today, justOpened>>
        /\ unchecked' = {s \in Symbols : IsOpen(s)}
    BY <1>6 DEF RaiseHighWater
  <2>2. ASSUME NEW s \in Symbols, IsOpen(s)'
        PROVE  IsOpen(s) /\ positions'[s].entryTime = positions[s].entryTime
    <3>1. positions'[s] = IF IsOpen(s) /\ HasBarToday(s)
                               /\ last[s].bar.high > positions[s].highWater
                          THEN [positions[s] EXCEPT !.highWater = last[s].bar.high]
                          ELSE positions[s]
      BY <1>6 DEF RaiseHighWater
    <3>2. IsOpen(s)
      BY <2>2, <3>1 DEF IsOpen
    <3>3. positions[s] \in Position
      BY <3>2 DEF IInv, TypeOK, IsOpen
    <3> QED
      BY <3>1, <3>2, <3>3 DEF Position
  <2> QED
    BY <2>1, <2>2 DEF StopInv
<1>7. ASSUME NEW s \in Symbols, CheckStop(s) PROVE StopInv'
  <2>1. /\ UNCHANGED <<last, today, phase, justOpened>>
        /\ unchecked' = unchecked \ {s}
        /\ phase = "stops"
    BY <1>7 DEF CheckStop
  <2>2. \A r \in Symbols : IsOpen(r)' => IsOpen(r) /\ positions'[r] = positions[r]
    BY <1>7 DEF CheckStop, SettleExit, IsOpen, IInv, TypeOK
  <2>3. IsOpen(s)' => ~StopReached(s)
    BY <1>7 DEF CheckStop, SettleExit, IsOpen, IInv, TypeOK
  <2>4. \A r \in Symbols : IsOpen(r)' => (StopReached(r)' <=> StopReached(r))
    BY <2>1, <2>2 DEF StopReached, HasBarToday
  <2> QED
    BY <2>1, <2>2, <2>3, <2>4 DEF StopInv
<1>8. CASE EndAdvance
  BY <1>8 DEF EndAdvance, StopInv
<1>9. CASE UNCHANGED vars
  BY <1>9 DEF vars, callerVars, advanceVars, StopInv, IsOpen, StopReached, HasBarToday
<1> QED
  BY <1>1, <1>2, <1>3, <1>4, <1>5, <1>6, <1>7, <1>8, <1>9 DEF Next, Advance

\* Advance never returns with a position still held whose stop today's low has
\* reached, unless the position was opened today.
THEOREM StopsAreHonoured == Spec => StopsHonoured
<1>1. Init => StopInv
  BY DEF Init, StopInv
<1>2. IInv /\ StopInv /\ [Next]_vars =>
        [phase = "stops" /\ phase' = "idle" =>
           \A s \in Symbols :
             IsOpen(s) /\ HasBarToday(s) /\ positions[s].entryTime < today
                       /\ positions[s].stop > 0
               => last[s].bar.low > positions[s].stop]_vars
  <2> SUFFICES ASSUME IInv, StopInv, [Next]_vars, phase = "stops", phase' = "idle",
                      NEW s \in Symbols, IsOpen(s), HasBarToday(s),
                      positions[s].entryTime < today, positions[s].stop > 0
               PROVE  last[s].bar.low > positions[s].stop
    OBVIOUS
  <2>1. EndAdvance
    BY DEF Next, Caller, Advance, SubmitMarket, SubmitStop, Cancel, BeginAdvance, KeepPending,
       FillStep, FillEntry, FillExit, RaiseHighWater, CheckStop, vars, advanceVars
  <2>2. s \notin justOpened
    BY DEF StopInv, IInv, TypeOK, IsOpen, Position
  <2>3. ~StopReached(s)
    BY <2>1 DEF EndAdvance, StopInv
  <2>4. last[s].bar.low \in Nat /\ positions[s].stop \in Nat
    BY BarType DEF IInv, TypeOK, IsOpen, Position, Bar
  <2> QED
    BY <2>2, <2>3, <2>4 DEF StopReached
<1> QED
  BY InitInv, Inductive, StopInductive, <1>1, <1>2, PTL DEF Spec, StopsHonoured

-----------------------------------------------------------------------------
(***************************************************************************)
(* The ledger.  What a fill books to cash it books to a position's cost or *)
(* to a trade's result as well: the three sums move together.              *)
(***************************************************************************)
Cost(s) == IF IsOpen(s) THEN EntryCost(positions[s]) ELSE 0

Costs == [s \in Symbols |-> Cost(s)]

Results == [i \in DOMAIN trades |-> trades[i].pnl]

Costed == \A s \in Symbols : Costs[s] \in Int

LEMMA LedgerTypes ==
  ASSUME TypeOK
  PROVE  /\ Costed
         /\ Len(trades) \in Nat /\ DOMAIN trades = 1 .. Len(trades)
         /\ \A i \in 1 .. Len(trades) : Results[i] \in Int
<1>1. ASSUME NEW s \in Symbols PROVE Costs[s] \in Int
  <2>1. CASE IsOpen(s)
    <3>1. positions[s] \in Position
      BY <2>1 DEF TypeOK, IsOpen
    <3>2. EntryCost(positions[s]) \in Int
      BY <3>1, ConstantsAssumption DEF EntryCost, Amount, Position
    <3> QED
      BY <2>1, <3>2 DEF Costs, Cost
  <2>2. CASE ~IsOpen(s)
    BY <2>2 DEF Costs, Cost
  <2> QED
    BY <2>1, <2>2
<1>2. Len(trades) \in Nat /\ DOMAIN trades = 1 .. Len(trades)
  BY DEF TypeOK
<1>3. \A i \in 1 .. Len(trades) : trades[i] \in Trade
  BY ElementOfSeq DEF TypeOK
<1> QED
  BY <1>1, <1>2, <1>3 DEF Costed, Results, Trade

\* CashMatchesTrades, with its sums taken over fixed sets.
Ledger ==
  cash + SumFunctionOnSet(Costs, Symbols)
    = InitialCash * Denom * Denom + SumFunctionOnSet(Results, 1 .. Len(trades))

LEMMA LedgerIsCashMatch == TypeOK => (Ledger <=> CashMatchesTrades)
<1> SUFFICES ASSUME TypeOK PROVE Ledger <=> CashMatchesTrades
  OBVIOUS
<1>1. DOMAIN Costs = Symbols /\ DOMAIN Results = 1 .. Len(trades)
  BY LedgerTypes DEF Costs, Results
<1>2. /\ Costs = [s \in Symbols |-> IF IsOpen(s) THEN EntryCost(positions[s]) ELSE 0]
      /\ Results = [i \in DOMAIN trades |-> trades[i].pnl]
  BY DEF Costs, Cost, Results
<1>3. /\ SumFunctionOnSet(Costs, Symbols) = SumFunction(Costs)
      /\ SumFunctionOnSet(Results, 1 .. Len(trades)) = SumFunction(Results)
  BY <1>1 DEF SumFunction
<1> HIDE DEF Costs, Results
<1> QED
  BY <1>2, <1>3 DEF Ledger, CashMatchesTrades

\* A step that books nothing leaves the ledger as it is.
LEMMA NothingBooked ==
  ASSUME Ledger, UNCHANGED <<cash, trades>>,
         \A s \in Symbols : Cost(s)' = Cost(s)
  PROVE  Ledger'
<1>1. Costs' = Costs /\ Results' = Results
  BY DEF Costs, Results
<1> QED
  BY <1>1 DEF Ledger

\* The costs of all positions change by what one position's cost changes by.
LEMMA CostsChange ==
  ASSUME TypeOK, TypeOK', NEW s \in Symbols,
         \A r \in Symbols \ {s} : positions'[r] = positions[r]
  PROVE  /\ SumFunctionOnSet(Costs, Symbols) \in Int
         /\ SumFunctionOnSet(Costs', Symbols)
              = SumFunctionOnSet(Costs, Symbols) - Cost(s) + Cost(s)'
         /\ Cost(s) \in Int /\ Cost(s)' \in Int
<1>1. PICK f, g : f = Costs /\ g = Costs'
  OBVIOUS
<1>2. \A r \in Symbols : f[r] \in Int /\ f[r] = Cost(r)
  BY <1>1, LedgerTypes DEF Costed, Costs
<1>3. \A r \in Symbols : g[r] \in Int /\ g[r] = Cost(r)'
  <2>1. Costed'
    BY LedgerTypes, PTL
  <2> QED
    BY <1>1, <2>1 DEF Costed, Costs
<1>4. \A r \in Symbols : r # s => g[r] = f[r]
  BY <1>2, <1>3 DEF Cost, IsOpen
<1>5. IsFiniteSet(Symbols) /\ (\A r \in Symbols : f[r] \in Int) /\ \A r \in Symbols : g[r] \in Int
  BY <1>2, <1>3, ConstantsAssumption
<1>6. /\ SumFunctionOnSet(f, Symbols) \in Int
      /\ SumFunctionOnSet(g, Symbols) = SumFunctionOnSet(f, Symbols) - f[s] + g[s]
  BY <1>4, <1>5, SumChange
<1> QED
  BY <1>1, <1>2, <1>3, <1>6

\* settleExit books the proceeds to cash, and against the cost of the position to
\* the trade.
LEMMA ExitBooked ==
  ASSUME TypeOK, TypeOK', Ledger, NEW s \in Symbols, IsOpen(s), NEW price \in Int,
         NEW reason, SettleExit(s, price, reason)
  PROVE  Ledger'
<1>1. PICK p \in Position : p = positions[s]
  BY DEF TypeOK, IsOpen
<1>2. PICK net \in Int, cost \in Int :
        net = Amount(price, p.qty) - Fee(price, p.qty) /\ cost = EntryCost(p)
  BY ConstantsAssumption DEF Amount, Fee, EntryCost, Position
<1>3. PICK t : /\ t = [symbol |-> s, entryTime |-> p.entryTime, exitTime |-> today,
                       exitPrice |-> price, pnl |-> net - cost, reason |-> reason]
  OBVIOUS
<1>4. cash' = cash + net /\ trades' = Append(trades, t)
  BY <1>1, <1>2, <1>3 DEF SettleExit
<1>5. positions' = [positions EXCEPT ![s] = NoPosition]
  BY DEF SettleExit
<1>6. positions'[s] = NoPosition /\ \A r \in Symbols \ {s} : positions'[r] = positions[r]
  BY <1>5 DEF TypeOK
<1>7. Cost(s) = cost /\ Cost(s)' = 0
  BY <1>1, <1>2, <1>6 DEF Cost, IsOpen
<1>8. PICK costs \in Int : /\ SumFunctionOnSet(Costs, Symbols) = costs
                           /\ SumFunctionOnSet(Costs', Symbols) = costs - cost + 0
  BY <1>6, <1>7, CostsChange
<1>9. PICK n \in Nat : n = Len(trades)
  BY LedgerTypes
<1>10. PICK f, g : f = Results /\ g = Results'
  OBVIOUS
<1>11. Len(trades') = n + 1 /\ trades'[n + 1] = t /\ \A i \in 1 .. n : trades'[i] = trades[i]
  BY <1>4, <1>9, LedgerTypes, AppendProperties DEF TypeOK
<1>12. /\ \A i \in 1 .. n : f[i] \in Int /\ g[i] = f[i]
       /\ g[n + 1] = net - cost
  <2>1. DOMAIN trades' = 1 .. n + 1 /\ DOMAIN trades = 1 .. n
    <3>1. (DOMAIN trades = 1 .. Len(trades))'
      BY LedgerTypes, PTL
    <3> QED
      BY <1>9, <1>11, <3>1, LedgerTypes
  <2>2. \A i \in 1 .. n : f[i] = trades[i].pnl /\ f[i] \in Int
    BY <1>9, <1>10, <2>1, LedgerTypes DEF Results
  <2>3. \A i \in 1 .. n + 1 : g[i] = trades'[i].pnl
    BY <1>9, <1>10, <2>1 DEF Results
  <2>4. t.pnl = net - cost
    BY <1>3
  <2> QED
    BY <1>11, <2>2, <2>3, <2>4
<1>13. /\ SumFunctionOnSet(f, 1 .. n) \in Int
       /\ SumFunctionOnSet(g, 1 .. n + 1) = SumFunctionOnSet(f, 1 .. n) + (net - cost)
  BY <1>12, SumAppend
<1>14. PICK start \in Int : start = InitialCash * Denom * Denom
  BY ConstantsAssumption
<1>15. PICK c, sum \in Int : c = cash /\ sum = SumFunctionOnSet(f, 1 .. n)
  BY <1>13 DEF TypeOK
<1>16. c + costs = start + sum
  BY <1>8, <1>9, <1>10, <1>14, <1>15 DEF Ledger
<1>17. (c + net) + (costs - cost + 0) = start + (sum + (net - cost))
  BY <1>16
<1>18. Ledger' <=> (c + net) + (costs - cost + 0) = start + (sum + (net - cost))
  BY <1>4, <1>8, <1>9, <1>10, <1>11, <1>13, <1>14, <1>15 DEF Ledger
<1> QED
  BY <1>17, <1>18

LEMMA FillEntryBooked ==
  ASSUME IInv, IInv', Ledger, FillEntry
  PROVE  Ledger'
<1>1. PICK id, s, qty, price : /\ id = Head(queue) /\ s = seen[id].symbol /\ qty = seen[id].qty
                               /\ price = BuyPrice(last[s].bar.open)
  OBVIOUS
<1>2. FillStep /\ id \in OrderIds /\ IsLive(id)
  BY <1>1, HeadIsLive DEF FillEntry
<1>3. s \in Symbols /\ qty \in Nat
  BY <1>1, <1>2 DEF IInv, TypeOK, IsLive, OrderRec
<1>4. last[s].bar \in Bar
  BY <1>1, <1>3, BarType DEF FillEntry, IInv
<1>5. PICK amount \in Int, fee \in Int : amount = Amount(price, qty) /\ fee = Fee(price, qty)
  BY <1>1, <1>3, <1>4, ConstantsAssumption DEF BuyPrice, Amount, Fee, Bar
<1>6. PICK p : /\ p = [qty |-> qty, entryPrice |-> price, entryTime |-> today,
                       stop |-> pendingStops[s], highWater |-> last[s].bar.high,
                       entryFee |-> fee]
  OBVIOUS
<1>7. /\ cash' = cash - (amount + fee) /\ trades' = trades
      /\ positions' = [positions EXCEPT ![s] = p]
  BY <1>1, <1>5, <1>6 DEF FillEntry
<1>8. positions'[s] = p /\ \A r \in Symbols \ {s} : positions'[r] = positions[r]
  BY <1>3, <1>7 DEF IInv, TypeOK
<1>9. ~IsOpen(s)
  BY <1>1, <1>2 DEF FillEntry, IInv, LiveOrdersMatchPositions
<1>10. IsOpen(s)'
  <2>1. p \in Position
    <3>1. price \in Int
      BY <1>1, <1>4, ConstantsAssumption DEF BuyPrice, Bar
    <3> QED
      BY <1>3, <1>4, <1>5, <1>6, <3>1 DEF Position, IInv, TypeOK, Bar
  <2> QED
    BY <1>8, <2>1, ConstantsAssumption DEF IsOpen
<1>11. EntryCost(p) = amount + fee
  BY <1>5, <1>6 DEF EntryCost
<1>12. Cost(s) = 0 /\ Cost(s)' = amount + fee
  BY <1>8, <1>9, <1>10, <1>11 DEF Cost
<1>13. PICK costs, costs2 : /\ costs = SumFunctionOnSet(Costs, Symbols) /\ costs \in Int
                            /\ costs2 = SumFunctionOnSet(Costs', Symbols)
                            /\ costs2 = costs - 0 + (amount + fee)
  BY <1>3, <1>8, <1>12, CostsChange DEF IInv
<1>14. Results' = Results
  BY <1>7 DEF Results
<1>15. cash \in Int
  BY DEF IInv, TypeOK
<1>16. cash' + costs2 = cash + costs
  BY <1>7, <1>13, <1>15
<1> QED
  BY <1>7, <1>13, <1>14, <1>16 DEF Ledger

LEMMA FillExitBooked ==
  ASSUME IInv, IInv', Ledger, FillExit
  PROVE  Ledger'
<1>1. PICK s : s = seen[Head(queue)].symbol
  OBVIOUS
<1>2. s \in Symbols /\ IsOpen(s) /\ HasBarToday(s)
  BY <1>1, HeadIsLive, FillExitFindsPosition DEF FillExit, IInv, TypeOK, IsLive, OrderRec
<1>3. PICK price \in Int : price = SellPrice(last[s].bar.open)
  BY <1>2, BarType, ConstantsAssumption DEF IInv, SellPrice, Bar
<1>4. SettleExit(s, price, "signal")
  BY <1>1, <1>2, <1>3 DEF FillExit
<1> QED
  BY <1>2, <1>4, ExitBooked DEF IInv

LEMMA CheckStopBooked ==
  ASSUME IInv, IInv', Ledger, NEW s \in Symbols, CheckStop(s)
  PROVE  Ledger'
<1>1. IsOpen(s)
  BY DEF IInv, PhaseInv, CheckStop
<1>2. CASE StopReached(s)
  <2>1. last[s].bar \in Bar /\ positions[s] \in Position
    BY <1>1, <1>2, BarType DEF StopReached, IsOpen, IInv, TypeOK
  <2>2. StopFill(s) \in Int
    BY <2>1, ConstantsAssumption DEF StopFill, SellPrice, Bar, Position
  <2>3. SettleExit(s, StopFill(s), "stop")
    BY <1>2 DEF CheckStop
  <2> QED
    BY <1>1, <2>2, <2>3, ExitBooked DEF IInv
<1>3. CASE ~StopReached(s)
  BY <1>3, NothingBooked DEF CheckStop, Cost, IsOpen
<1> QED
  BY <1>2, <1>3

\* The ledger's equation is kept by every step.
LEMMA LedgerInductive == IInv /\ IInv' /\ Ledger /\ [Next]_vars => Ledger'
<1> SUFFICES ASSUME IInv, IInv', Ledger, [Next]_vars PROVE Ledger'
  OBVIOUS
<1>1. CASE UNCHANGED <<positions, cash, trades>>
  BY <1>1, NothingBooked DEF Cost, IsOpen
<1>2. ASSUME NEW id \in OrderIds, NEW s \in Symbols, NEW price \in StopPrices,
             SubmitStop(id, s, price)
      PROVE  Ledger'
  <2>1. ASSUME NEW r \in Symbols PROVE Cost(r)' = Cost(r)
    <3>1. CASE IsOpen(s) /\ r = s
      <4>1. PICK p \in Position : p = positions[s]
        BY <3>1 DEF IInv, TypeOK, IsOpen
      <4>2. PICK q : q = [p EXCEPT !.stop = price]
        OBVIOUS
      <4>3. positions' = [positions EXCEPT ![s] = q]
        BY <1>2, <3>1, <4>1, <4>2 DEF SubmitStop
      <4>4. price \in Nat
        BY ConstantsAssumption
      <4>5. q \in Position /\ EntryCost(q) = EntryCost(p)
        BY <4>2, <4>4 DEF Position, EntryCost
      <4>6. positions'[s] = q
        BY <4>3 DEF IInv, TypeOK
      <4>7. positions'[s] # NoPosition
        BY <4>5, <4>6, ConstantsAssumption
      <4> QED
        BY <3>1, <4>1, <4>5, <4>6, <4>7 DEF Cost, IsOpen
    <3>2. CASE ~(IsOpen(s) /\ r = s)
      <4>1. positions'[r] = positions[r]
        BY <1>2, <3>2 DEF SubmitStop, IInv, TypeOK
      <4> QED
        BY <4>1 DEF Cost, IsOpen
    <3> QED
      BY <3>1, <3>2
  <2> QED
    BY <1>2, <2>1, NothingBooked DEF SubmitStop
<1>3. CASE RaiseHighWater
  <2>1. ASSUME NEW s \in Symbols PROVE Cost(s)' = Cost(s)
    <3>1. CASE IsOpen(s) /\ HasBarToday(s) /\ last[s].bar.high > positions[s].highWater
      <4>1. PICK p \in Position : p = positions[s]
        BY <3>1 DEF IInv, TypeOK, IsOpen
      <4>2. PICK q : q = [p EXCEPT !.highWater = last[s].bar.high]
        OBVIOUS
      <4>3. last[s].bar \in Bar
        BY <3>1, BarType DEF IInv
      <4>4. q \in Position /\ EntryCost(q) = EntryCost(p)
        BY <4>2, <4>3 DEF Position, EntryCost, Bar
      <4>5. positions'[s] = q
        BY <1>3, <3>1, <4>1, <4>2 DEF RaiseHighWater
      <4> QED
        BY <3>1, <4>1, <4>4, <4>5, ConstantsAssumption DEF Cost, IsOpen
    <3>2. CASE ~(IsOpen(s) /\ HasBarToday(s) /\ last[s].bar.high > positions[s].highWater)
      <4>1. positions'[s] = positions[s]
        BY <1>3, <3>2 DEF RaiseHighWater
      <4> QED
        BY <4>1 DEF Cost, IsOpen
    <3> QED
      BY <3>1, <3>2
  <2> QED
    BY <1>3, <2>1, NothingBooked DEF RaiseHighWater
<1>4. CASE FillEntry
  BY <1>4, FillEntryBooked
<1>5. CASE FillExit
  BY <1>5, FillExitBooked
<1>6. ASSUME NEW s \in Symbols, CheckStop(s) PROVE Ledger'
  BY <1>6, CheckStopBooked
<1> QED
  BY <1>1, <1>2, <1>3, <1>4, <1>5, <1>6
     DEF Next, Caller, Advance, SubmitMarket, Cancel, BeginAdvance, KeepPending, EndAdvance, vars

\* The cash account, the open positions and the trade log always tell the same
\* story (paper.go's fillPending and settleExit), slippage and fees included.
THEOREM CashIsAccountedFor == Spec => []CashMatchesTrades
<1>1. Init => Ledger
  <2> SUFFICES ASSUME Init PROVE Ledger
    OBVIOUS
  <2>1. IsFiniteSet(Symbols) /\ InitialCash * Denom * Denom \in Int
    BY ConstantsAssumption
  <2>2. \A s \in Symbols : Costs[s] = 0
    BY DEF Init, Costs, Cost, IsOpen
  <2>3. SumFunctionOnSet(Costs, Symbols) = 0
    BY <2>1, <2>2, SumZero
  <2>4. 1 .. Len(trades) = {}
    BY DEF Init
  <2>5. SumFunctionOnSet(Results, 1 .. Len(trades)) = 0
    BY <2>4, SumEmpty
  <2> QED
    BY <2>1, <2>3, <2>5 DEF Ledger, Init
<1>2. IInv /\ Ledger => CashMatchesTrades
  BY LedgerIsCashMatch DEF IInv
<1> QED
  BY InitInv, Inductive, LedgerInductive, <1>1, <1>2, PTL DEF Spec

-----------------------------------------------------------------------------
(***************************************************************************)
(* Orders and trades.  Each fill adds one order to the filled ones, and    *)
(* each settlement one trade to the log.                                   *)
(***************************************************************************)
IsFilled(id) == seen[id] # NoOrder /\ seen[id].status = "FILLED"

Sides == {"buy", "sell"}

\* The caller may use any number of IDs; the orders filled so far are finitely many.
FilledFinite == \A s \in Symbols, side \in Sides : IsFiniteSet(Filled(s, side))

Accounts == FilledFinite /\ OrdersAccountForTrades

\* What a filled entry makes of the positions.
LEMMA FillEntryOpens ==
  ASSUME IInv, FillEntry
  PROVE  LET s == seen[Head(queue)].symbol
         IN  /\ positions'[s] # NoPosition
             /\ \A r \in Symbols : r # s => positions'[r] = positions[r]
<1>1. PICK id, s, qty, price : /\ id = Head(queue) /\ s = seen[id].symbol /\ qty = seen[id].qty
                               /\ price = BuyPrice(last[s].bar.open)
  OBVIOUS
<1>2. FillStep /\ id \in OrderIds /\ IsLive(id)
  BY <1>1, HeadIsLive DEF FillEntry
<1>3. s \in Symbols /\ qty \in Nat
  BY <1>1, <1>2 DEF IInv, TypeOK, IsLive, OrderRec
<1>4. last[s].bar \in Bar
  BY <1>1, <1>3, BarType DEF FillEntry, IInv
<1>5. price \in Int
  BY <1>1, <1>4, ConstantsAssumption DEF BuyPrice, Bar
<1>6. PICK fee \in Int : fee = Fee(price, qty)
  BY <1>3, <1>5, ConstantsAssumption DEF Fee
<1>7. PICK p : /\ p = [qty |-> qty, entryPrice |-> price, entryTime |-> today,
                       stop |-> pendingStops[s], highWater |-> last[s].bar.high,
                       entryFee |-> fee]
  OBVIOUS
<1>8. positions' = [positions EXCEPT ![s] = p]
  BY <1>1, <1>6, <1>7 DEF FillEntry
<1>9. p \in Position
  BY <1>3, <1>4, <1>5, <1>6, <1>7 DEF Position, IInv, TypeOK, Bar
<1> QED
  BY <1>1, <1>3, <1>8, <1>9, ConstantsAssumption DEF IInv, TypeOK

\* updateHighWater opens and closes nothing.
LEMMA RaiseKeepsOpen ==
  ASSUME TypeOK, RaiseHighWater, NEW s \in Symbols
  PROVE  IsOpen(s)' <=> IsOpen(s)
<1>1. CASE IsOpen(s) /\ HasBarToday(s) /\ last[s].bar.high > positions[s].highWater
  <2>1. positions'[s] = [positions[s] EXCEPT !.highWater = last[s].bar.high]
    BY <1>1 DEF RaiseHighWater
  <2>2. [positions[s] EXCEPT !.highWater = last[s].bar.high] \in Position
    BY <1>1, BarType DEF TypeOK, IsOpen, Position, Bar
  <2> QED
    BY <1>1, <2>1, <2>2, ConstantsAssumption DEF IsOpen
<1>2. CASE ~(IsOpen(s) /\ HasBarToday(s) /\ last[s].bar.high > positions[s].highWater)
  BY <1>2 DEF RaiseHighWater, IsOpen
<1> QED
  BY <1>1, <1>2

\* A step that fills nothing and closes nothing.
LEMMA NothingFilled ==
  ASSUME Accounts, trades' = trades,
         \A id \in OrderIds : /\ IsFilled(id)' <=> IsFilled(id)
                              /\ IsFilled(id) => seen'[id] = seen[id],
         \A s \in Symbols : IsOpen(s)' <=> IsOpen(s)
  PROVE  Accounts'
<1>1. \A s, side : Filled(s, side)' = Filled(s, side)
  BY DEF Filled, IsFilled
<1>2. \A s, reasons : TradesOf(s, reasons)' = TradesOf(s, reasons)
  BY DEF TradesOf
<1>3. FilledFinite'
  BY <1>1 DEF Accounts, FilledFinite
<1>4. OrdersAccountForTrades'
  <2> SUFFICES ASSUME NEW s \in Symbols
               PROVE  /\ Cardinality(Filled(s, "buy"))'
                           = Cardinality(TradesOf(s, {"signal", "stop"}))'
                               + (IF IsOpen(s)' THEN 1 ELSE 0)
                      /\ Cardinality(Filled(s, "sell"))' = Cardinality(TradesOf(s, {"signal"}))'
    BY DEF OrdersAccountForTrades
  <2>1. /\ Cardinality(Filled(s, "buy"))
             = Cardinality(TradesOf(s, {"signal", "stop"})) + (IF IsOpen(s) THEN 1 ELSE 0)
        /\ Cardinality(Filled(s, "sell")) = Cardinality(TradesOf(s, {"signal"}))
    BY DEF Accounts, OrdersAccountForTrades
  <2> QED
    BY <1>1, <1>2, <2>1
<1> QED
  BY <1>3, <1>4 DEF Accounts

\* The fill of a live order adds it to the filled ones of its symbol and side.
LEMMA OneMoreFilled ==
  ASSUME TypeOK, NEW id \in OrderIds, IsLive(id),
         seen' = [seen EXCEPT ![id].status = "FILLED"],
         NEW s, NEW side
  PROVE  /\ id \notin Filled(s, side)
         /\ Filled(s, side)' = IF seen[id].symbol = s /\ seen[id].side = side
                               THEN Filled(s, side) \union {id} ELSE Filled(s, side)
<1>1. PICK order \in OrderRec : order = seen[id] /\ order.status = "PENDING"
  BY DEF TypeOK, IsLive
<1>2. seen'[id] = [order EXCEPT !.status = "FILLED"]
  BY <1>1 DEF TypeOK
<1>3. /\ seen'[id].status = "FILLED" /\ seen'[id].symbol = order.symbol
      /\ seen'[id].side = order.side /\ seen'[id] \in OrderRec
  BY <1>1, <1>2 DEF OrderRec
<1>4. seen'[id] # NoOrder
  BY <1>3, ConstantsAssumption
<1>5. \A j \in OrderIds : j # id => seen'[j] = seen[j]
  BY DEF TypeOK
<1>6. id \notin Filled(s, side)
  BY <1>1 DEF Filled
<1>7. \A j \in OrderIds :
        j \in Filled(s, side)' <=>
          j \in Filled(s, side) \/ (j = id /\ order.symbol = s /\ order.side = side)
  <2> SUFFICES ASSUME NEW j \in OrderIds
               PROVE  j \in Filled(s, side)' <=>
                        j \in Filled(s, side) \/ (j = id /\ order.symbol = s /\ order.side = side)
    OBVIOUS
  <2>1. CASE j = id
    BY <1>3, <1>4, <1>6, <2>1 DEF Filled
  <2>2. CASE j # id
    BY <1>5, <2>2 DEF Filled
  <2> QED
    BY <2>1, <2>2
<1>8. Filled(s, side) \subseteq OrderIds /\ Filled(s, side)' \subseteq OrderIds
  BY DEF Filled
<1> QED
  BY <1>1, <1>6, <1>7, <1>8

LEMMA TradesFinite ==
  ASSUME TypeOK, NEW s, NEW reasons
  PROVE  /\ IsFiniteSet(TradesOf(s, reasons))
         /\ Cardinality(TradesOf(s, reasons)) \in Nat
<1>1. PICK n \in Nat : n = Len(trades) /\ DOMAIN trades = 1 .. n
  BY LedgerTypes
<1>2. TradesOf(s, reasons) \subseteq 1 .. n
  BY <1>1 DEF TradesOf
<1>3. IsFiniteSet(1 .. n)
  BY FS_Interval
<1> QED
  BY <1>2, <1>3, FS_Subset, FS_CardinalityType

\* A recorded trade adds its place in the log to the trades of its symbol.
LEMMA OneMoreTrade ==
  ASSUME TypeOK, NEW t, trades' = Append(trades, t), NEW s, NEW reasons
  PROVE  /\ IsFiniteSet(TradesOf(s, reasons)) /\ Len(trades) + 1 \notin TradesOf(s, reasons)
         /\ TradesOf(s, reasons)' = IF t.symbol = s /\ t.reason \in reasons
                                    THEN TradesOf(s, reasons) \union {Len(trades) + 1}
                                    ELSE TradesOf(s, reasons)
<1>1. PICK n \in Nat : n = Len(trades) /\ DOMAIN trades = 1 .. n
  BY LedgerTypes
<1>2. /\ DOMAIN trades' = 1 .. n + 1 /\ trades'[n + 1] = t
      /\ \A i \in 1 .. n : trades'[i] = trades[i]
  BY <1>1, AppendProperties DEF TypeOK
<1>3. TradesOf(s, reasons) \subseteq 1 .. n
  BY <1>1 DEF TradesOf
<1>4. IsFiniteSet(TradesOf(s, reasons))
  BY TradesFinite
<1>5. \A i : i \in TradesOf(s, reasons)' <=>
               \/ i \in TradesOf(s, reasons)
               \/ i = n + 1 /\ t.symbol = s /\ t.reason \in reasons
  <2>1. \A i : i \in 1 .. n + 1 <=> i \in 1 .. n \/ i = n + 1
    OBVIOUS
  <2> QED
    BY <1>1, <1>2, <2>1 DEF TradesOf
<1>6. PICK A, B : A = TradesOf(s, reasons) /\ B = TradesOf(s, reasons)'
  OBVIOUS
<1>7. B = IF t.symbol = s /\ t.reason \in reasons THEN A \union {n + 1} ELSE A
  BY <1>5, <1>6
<1>8. n + 1 \notin A
  BY <1>3, <1>6
<1> QED
  BY <1>1, <1>4, <1>6, <1>7, <1>8

\* Adding one element.
LEMMA OneMore ==
  ASSUME NEW S, IsFiniteSet(S), NEW x, x \notin S
  PROVE  /\ IsFiniteSet(S \union {x}) /\ Cardinality(S) \in Nat
         /\ Cardinality(S \union {x}) = Cardinality(S) + 1
  BY FS_AddElement, FS_CardinalityType

\* An entry fill is one order and one position more.
LEMMA FillEntryAccounts ==
  ASSUME IInv, IInv', Accounts, FillEntry
  PROVE  Accounts'
<1>1. PICK id, s : id = Head(queue) /\ s = seen[id].symbol
  OBVIOUS
<1>2. FillStep /\ id \in OrderIds /\ IsLive(id)
  BY <1>1, HeadIsLive DEF FillEntry
<1>3. s \in Symbols /\ seen[id].side = "buy" /\ trades' = trades
  BY <1>1, <1>2 DEF FillEntry, IInv, TypeOK, IsLive, OrderRec
<1>4. seen' = [seen EXCEPT ![id].status = "FILLED"]
  BY <1>1 DEF FillEntry
<1>5. \A r, side : /\ id \notin Filled(r, side)
                   /\ Filled(r, side)' = IF s = r /\ side = "buy"
                                         THEN Filled(r, side) \union {id} ELSE Filled(r, side)
  <2> TAKE r, side
  <2>1. /\ id \notin Filled(r, side)
        /\ Filled(r, side)' = IF seen[id].symbol = r /\ seen[id].side = side
                              THEN Filled(r, side) \union {id} ELSE Filled(r, side)
    BY <1>2, <1>4, OneMoreFilled DEF IInv
  <2> QED
    BY <1>1, <1>3, <2>1
<1>6. \A r, reasons : TradesOf(r, reasons)' = TradesOf(r, reasons)
  BY <1>3 DEF TradesOf
<1>7. ~IsOpen(s)
  BY <1>1, <1>2, <1>3 DEF IInv, LiveOrdersMatchPositions
<1>8. IsOpen(s)' /\ \A r \in Symbols : r # s => (IsOpen(r)' <=> IsOpen(r))
  BY <1>1, <1>3, FillEntryOpens DEF IsOpen
<1>9. FilledFinite'
  BY <1>5, OneMore DEF Accounts, FilledFinite
<1>10. ASSUME NEW r \in Symbols
       PROVE  /\ Cardinality(Filled(r, "buy"))'
                   = Cardinality(TradesOf(r, {"signal", "stop"}))'
                       + (IF IsOpen(r)' THEN 1 ELSE 0)
              /\ Cardinality(Filled(r, "sell"))' = Cardinality(TradesOf(r, {"signal"}))'
  <2>1. /\ Cardinality(Filled(r, "buy"))
             = Cardinality(TradesOf(r, {"signal", "stop"})) + (IF IsOpen(r) THEN 1 ELSE 0)
        /\ Cardinality(Filled(r, "sell")) = Cardinality(TradesOf(r, {"signal"}))
    BY DEF Accounts, OrdersAccountForTrades
  <2>2. Filled(r, "sell")' = Filled(r, "sell")
    BY <1>5
  <2>3. CASE r = s
    <3>1. IsFiniteSet(Filled(r, "buy"))
      BY DEF Accounts, FilledFinite, Sides
    <3>2. Cardinality(Filled(r, "buy"))' = Cardinality(Filled(r, "buy")) + 1
      BY <1>5, <2>3, <3>1, OneMore
    <3>3. Cardinality(Filled(r, "buy")) = Cardinality(TradesOf(r, {"signal", "stop"})) + 0
      BY <1>7, <2>1, <2>3
    <3>4. Cardinality(TradesOf(r, {"signal", "stop"})) \in Nat
      BY <1>6, TradesFinite DEF IInv
    <3>5. IsOpen(r)'
      BY <1>8, <2>3
    <3> QED
      BY <1>6, <2>1, <2>2, <3>2, <3>3, <3>4, <3>5
  <2>4. CASE r # s
    BY <1>5, <1>6, <1>8, <2>1, <2>2, <2>4
  <2> QED
    BY <2>3, <2>4
<1> QED
  BY <1>9, <1>10 DEF Accounts, OrdersAccountForTrades

\* A settled exit is one trade more and one position less.
LEMMA ExitAccounts ==
  ASSUME TypeOK, NEW s \in Symbols, IsOpen(s), NEW price, NEW reason \in {"signal", "stop"},
         SettleExit(s, price, reason), Accounts,
         NEW r \in Symbols
  PROVE  /\ Cardinality(Filled(r, "buy"))
              = Cardinality(TradesOf(r, {"signal", "stop"}))' + (IF IsOpen(r)' THEN 1 ELSE 0)
         /\ Cardinality(TradesOf(r, {"signal"}))'
              = Cardinality(Filled(r, "sell")) + (IF r = s /\ reason = "signal" THEN 1 ELSE 0)
<1>1. PICK t : trades' = Append(trades, t) /\ t.symbol = s /\ t.reason = reason
  BY DEF SettleExit
<1>2. positions' = [positions EXCEPT ![s] = NoPosition]
  BY DEF SettleExit
<1>3. ~IsOpen(s)' /\ (r # s => (IsOpen(r)' <=> IsOpen(r)))
  BY <1>2 DEF TypeOK, IsOpen
<1>4. PICK n : n = Len(trades) + 1
  OBVIOUS
<1>5. PICK A, B : A = TradesOf(r, {"signal", "stop"}) /\ B = TradesOf(r, {"signal"})
  OBVIOUS
<1>6. IsFiniteSet(A) /\ IsFiniteSet(B) /\ n \notin A /\ n \notin B
  BY <1>1, <1>4, <1>5, OneMoreTrade
<1>7. TradesOf(r, {"signal", "stop"})' = IF r = s THEN A \union {n} ELSE A
  BY <1>1, <1>4, <1>5, OneMoreTrade
<1>8. TradesOf(r, {"signal"})' = IF r = s /\ reason = "signal" THEN B \union {n} ELSE B
  BY <1>1, <1>4, <1>5, OneMoreTrade
<1>9. /\ Cardinality(A) \in Nat /\ Cardinality(A \union {n}) = Cardinality(A) + 1
      /\ Cardinality(B) \in Nat /\ Cardinality(B \union {n}) = Cardinality(B) + 1
  BY <1>6, OneMore
<1>10. /\ Cardinality(Filled(r, "buy")) = Cardinality(A) + (IF IsOpen(r) THEN 1 ELSE 0)
       /\ Cardinality(Filled(r, "sell")) = Cardinality(B)
  BY <1>5 DEF Accounts, OrdersAccountForTrades
<1> QED
  BY <1>3, <1>7, <1>8, <1>9, <1>10

LEMMA FillExitAccounts ==
  ASSUME IInv, IInv', Accounts, FillExit
  PROVE  Accounts'
<1>1. PICK id, s : id = Head(queue) /\ s = seen[id].symbol
  OBVIOUS
<1>2. FillStep /\ id \in OrderIds /\ IsLive(id)
  BY <1>1, HeadIsLive DEF FillExit
<1>3. s \in Symbols /\ seen[id].side = "sell" /\ IsOpen(s)
  BY <1>1, <1>2, FillExitFindsPosition DEF FillExit, IInv, TypeOK, IsLive, OrderRec
<1>4. seen' = [seen EXCEPT ![id].status = "FILLED"]
  BY <1>1, <1>3 DEF FillExit
<1>5. \A r, side : /\ id \notin Filled(r, side)
                   /\ Filled(r, side)' = IF s = r /\ side = "sell"
                                         THEN Filled(r, side) \union {id} ELSE Filled(r, side)
  <2> TAKE r, side
  <2>1. /\ id \notin Filled(r, side)
        /\ Filled(r, side)' = IF seen[id].symbol = r /\ seen[id].side = side
                              THEN Filled(r, side) \union {id} ELSE Filled(r, side)
    BY <1>2, <1>4, OneMoreFilled DEF IInv
  <2> QED
    BY <1>1, <1>3, <2>1
<1>6. PICK price : SettleExit(s, price, "signal")
  BY <1>1, <1>3 DEF FillExit
<1>7. FilledFinite'
  BY <1>5, OneMore DEF Accounts, FilledFinite
<1>8. ASSUME NEW r \in Symbols
      PROVE  /\ Cardinality(Filled(r, "buy"))'
                  = Cardinality(TradesOf(r, {"signal", "stop"}))' + (IF IsOpen(r)' THEN 1 ELSE 0)
             /\ Cardinality(Filled(r, "sell"))' = Cardinality(TradesOf(r, {"signal"}))'
  <2>1. /\ Cardinality(Filled(r, "buy"))
             = Cardinality(TradesOf(r, {"signal", "stop"}))' + (IF IsOpen(r)' THEN 1 ELSE 0)
        /\ Cardinality(TradesOf(r, {"signal"}))'
             = Cardinality(Filled(r, "sell")) + (IF r = s THEN 1 ELSE 0)
    BY <1>3, <1>6, ExitAccounts DEF IInv
  <2>2. Filled(r, "buy")' = Filled(r, "buy")
    BY <1>5
  <2>3. IsFiniteSet(Filled(r, "sell")) /\ id \notin Filled(r, "sell")
    BY <1>5 DEF Accounts, FilledFinite, Sides
  <2>4. Cardinality(Filled(r, "sell"))' = Cardinality(Filled(r, "sell")) + (IF r = s THEN 1 ELSE 0)
    <3>1. Cardinality(Filled(r, "sell")) \in Nat
      BY <2>3, OneMore
    <3>2. CASE r = s
      BY <1>5, <2>3, <3>2, OneMore
    <3>3. CASE r # s
      BY <1>5, <3>1, <3>3
    <3> QED
      BY <3>2, <3>3
  <2> QED
    BY <2>1, <2>2, <2>4
<1> QED
  BY <1>7, <1>8 DEF Accounts, OrdersAccountForTrades

LEMMA CheckStopAccounts ==
  ASSUME IInv, IInv', Accounts, NEW s \in Symbols, CheckStop(s)
  PROVE  Accounts'
<1>1. IsOpen(s) /\ seen' = seen
  BY DEF IInv, PhaseInv, CheckStop, callerVars
<1>2. CASE StopReached(s)
  <2>1. PICK price : SettleExit(s, price, "stop")
    BY <1>2 DEF CheckStop
  <2>2. \A r, side : Filled(r, side)' = Filled(r, side)
    BY <1>1 DEF Filled
  <2>3. \A r \in Symbols :
          /\ Cardinality(Filled(r, "buy"))
               = Cardinality(TradesOf(r, {"signal", "stop"}))' + (IF IsOpen(r)' THEN 1 ELSE 0)
          /\ Cardinality(TradesOf(r, {"signal"}))' = Cardinality(Filled(r, "sell")) + 0
    BY <1>1, <2>1, ExitAccounts DEF IInv
  <2>4. ASSUME NEW r \in Symbols PROVE Cardinality(Filled(r, "sell")) \in Nat
    BY FS_CardinalityType DEF Accounts, FilledFinite, Sides
  <2>5. FilledFinite'
    BY <2>2 DEF Accounts, FilledFinite
  <2>6. ASSUME NEW r \in Symbols
        PROVE  /\ Cardinality(Filled(r, "buy"))'
                    = Cardinality(TradesOf(r, {"signal", "stop"}))' + (IF IsOpen(r)' THEN 1 ELSE 0)
               /\ Cardinality(Filled(r, "sell"))' = Cardinality(TradesOf(r, {"signal"}))'
    BY <2>2, <2>3, <2>4
  <2> QED
    BY <2>5, <2>6 DEF Accounts, OrdersAccountForTrades
<1>3. CASE ~StopReached(s)
  BY <1>1, <1>3, NothingFilled DEF CheckStop, IsOpen, IsFilled
<1> QED
  BY <1>2, <1>3

\* A new order and a cancelled one are not filled.
LEMMA CallerAccounts ==
  ASSUME IInv, Accounts, Caller
  PROVE  Accounts'
<1>1. trades' = trades
  BY DEF Caller, SubmitMarket, SubmitStop, Cancel
<1>2. PICK id \in OrderIds : \/ \E s \in Symbols, side \in Sides, qty \in Qtys :
                                  SubmitMarket(id, s, side, qty)
                             \/ \E s \in Symbols, price \in StopPrices : SubmitStop(id, s, price)
                             \/ Cancel(id)
  BY DEF Caller, Sides
<1>3. /\ ~IsFilled(id) /\ ~IsFilled(id)'
      /\ \A j \in OrderIds : j # id => seen'[j] = seen[j]
  <2>1. CASE \E s \in Symbols, side \in Sides, qty \in Qtys : SubmitMarket(id, s, side, qty)
    BY <2>1 DEF SubmitMarket, Record, IsFilled, IInv, TypeOK
  <2>2. CASE \E s \in Symbols, price \in StopPrices : SubmitStop(id, s, price)
    BY <2>2 DEF SubmitStop, Record, IsFilled, IInv, TypeOK
  <2>3. CASE Cancel(id)
    <3>1. Queued(id)
      BY <2>3 DEF Cancel, Queued
    <3>2. IsLive(id)
      BY <3>1 DEF IInv, QueueInv
    <3>3. seen' = [seen EXCEPT ![id].status = "CANCELED"]
      BY <2>3 DEF Cancel
    <3>4. seen'[id].status = "CANCELED"
      BY <3>2, <3>3 DEF IInv, TypeOK, IsLive, OrderRec
    <3> QED
      BY <3>2, <3>3, <3>4 DEF IsFilled, IsLive, IInv, TypeOK
  <2> QED
    BY <1>2, <2>1, <2>2, <2>3
<1>4. ASSUME NEW s \in Symbols PROVE IsOpen(s)' <=> IsOpen(s)
  <2>1. CASE \E r \in Symbols, price \in StopPrices : SubmitStop(id, r, price)
    <3>1. PICK r \in Symbols, price \in StopPrices : SubmitStop(id, r, price)
      BY <2>1
    <3>2. CASE IsOpen(r) /\ s = r
      <4>1. PICK p \in Position : p = positions[r]
        BY <3>2 DEF IInv, TypeOK, IsOpen
      <4>2. PICK q : q = [p EXCEPT !.stop = price]
        OBVIOUS
      <4>3. positions'[r] = q
        BY <3>1, <3>2, <4>1, <4>2 DEF SubmitStop, IInv, TypeOK
      <4>4. price \in Nat
        BY ConstantsAssumption
      <4>5. q \in Position
        BY <4>2, <4>4 DEF Position
      <4> QED
        BY <3>2, <4>3, <4>5, ConstantsAssumption DEF IsOpen
    <3>3. CASE ~(IsOpen(r) /\ s = r)
      BY <3>1, <3>3 DEF SubmitStop, IsOpen, IInv, TypeOK
    <3> QED
      BY <3>2, <3>3
  <2>2. CASE positions' = positions
    BY <2>2 DEF IsOpen
  <2> QED
    BY <1>2, <2>1, <2>2 DEF SubmitMarket, Cancel
<1>5. \A j \in OrderIds : /\ IsFilled(j)' <=> IsFilled(j)
                          /\ IsFilled(j) => seen'[j] = seen[j]
  BY <1>3 DEF IsFilled
<1> QED
  BY <1>1, <1>4, <1>5, NothingFilled

\* The accounts are kept by every step.
LEMMA AccountsInductive == IInv /\ IInv' /\ Accounts /\ [Next]_vars => Accounts'
<1> SUFFICES ASSUME IInv, IInv', Accounts, [Next]_vars PROVE Accounts'
  OBVIOUS
<1>1. CASE Caller
  BY <1>1, CallerAccounts
<1>2. CASE UNCHANGED <<positions, trades, seen>>
  BY <1>2, NothingFilled DEF IsFilled, IsOpen
<1>3. CASE RaiseHighWater
  <2>1. trades' = trades /\ seen' = seen
    BY <1>3 DEF RaiseHighWater, callerVars
  <2>2. ASSUME NEW s \in Symbols PROVE IsOpen(s)' <=> IsOpen(s)
    BY <1>3, RaiseKeepsOpen DEF IInv
  <2> QED
    BY <2>1, <2>2, NothingFilled DEF IsFilled
<1>4. CASE FillEntry
  BY <1>4, FillEntryAccounts
<1>5. CASE FillExit
  BY <1>5, FillExitAccounts
<1>6. ASSUME NEW s \in Symbols, CheckStop(s) PROVE Accounts'
  BY <1>6, CheckStopAccounts
<1> QED
  BY <1>1, <1>2, <1>3, <1>4, <1>5, <1>6
     DEF Next, Advance, BeginAdvance, KeepPending, EndAdvance, vars, callerVars

\* No order fills twice, no position closes twice and none disappears without a
\* trade (paper.go's fillPending, checkStops and settleExit).
THEOREM OrdersAreAccountedFor == Spec => []OrdersAccountForTrades
<1>1. Init => Accounts
  <2> SUFFICES ASSUME Init PROVE Accounts
    OBVIOUS
  <2>1. \A s, side : Filled(s, side) = {}
    BY DEF Init, Filled
  <2>2. \A s, reasons : TradesOf(s, reasons) = {}
    BY DEF Init, TradesOf
  <2>3. \A s \in Symbols : ~IsOpen(s)
    BY DEF Init, IsOpen
  <2>4. IsFiniteSet({}) /\ Cardinality({}) = 0
    BY FS_EmptySet
  <2> QED
    BY <2>1, <2>2, <2>3, <2>4 DEF Accounts, FilledFinite, OrdersAccountForTrades
<1>2. Accounts => OrdersAccountForTrades
  BY DEF Accounts
<1> QED
  BY InitInv, Inductive, AccountsInductive, <1>1, <1>2, PTL DEF Spec

-----------------------------------------------------------------------------
(***************************************************************************)
(* Exit prices.  A step that records a trade is a settlement of the day's  *)
(* bar; slippage only lowers its price as long as it is not above 100 %,   *)
(* a bound neither NewPaperBroker nor the configuration's check states.    *)
(***************************************************************************)
ExitIsNotOptimistic ==
  Len(trades') > Len(trades) =>
    LET t == trades'[Len(trades')]
        bar == last[t.symbol].bar
    IN  /\ t.exitTime = last[t.symbol].day
        /\ t.exitPrice <= SellPrice(bar.open)
        /\ t.reason = "stop" => t.exitPrice <= SellPrice(positions[t.symbol].stop)

\* With a slippage of at most 100 %, a lower price before it is one after it.
LEMMA SellPriceMonotone ==
  ASSUME SlippageBps <= Denom
  PROVE  \A a, b \in Nat : a <= b => SellPrice(a) <= SellPrice(b)
<1>1. PICK k \in Nat : k = Denom - SlippageBps
  BY ConstantsAssumption
<1>2. \A a, b \in Nat : a <= b => a * k <= b * k
  BY <1>1
<1> QED
  BY <1>1, <1>2 DEF SellPrice

\* No exit is better than the market of its day (paper.go's gap rule).
THEOREM NoExitIsOptimistic ==
  ASSUME SlippageBps <= Denom
  PROVE  Spec => NoOptimisticExit
<1>1. IInv /\ [Next]_vars => [ExitIsNotOptimistic]_vars
  <2> SUFFICES ASSUME IInv, Next, Len(trades') > Len(trades)
               PROVE  ExitIsNotOptimistic
    BY DEF ExitIsNotOptimistic
  <2>0. Len(trades) \in Nat
    BY LedgerTypes DEF IInv
  <2>1. ASSUME NEW s \in Symbols, HasBarToday(s), NEW price, NEW reason,
               SettleExit(s, price, reason),
               price <= SellPrice(last[s].bar.open),
               reason = "stop" => price <= SellPrice(positions[s].stop)
        PROVE  ExitIsNotOptimistic
    <3>1. PICK t : /\ trades' = Append(trades, t) /\ t.symbol = s /\ t.exitTime = today
                   /\ t.exitPrice = price /\ t.reason = reason
      BY <2>1 DEF SettleExit
    <3>2. trades'[Len(trades')] = t
      BY <2>0, <3>1, AppendProperties DEF IInv, TypeOK
    <3>3. last[s].day = today
      BY <2>1 DEF HasBarToday
    <3> QED
      BY <2>1, <3>1, <3>2, <3>3 DEF ExitIsNotOptimistic
  <2>2. CASE FillExit
    <3>1. PICK s : s = seen[Head(queue)].symbol
      OBVIOUS
    <3>2. s \in Symbols /\ IsOpen(s) /\ HasBarToday(s)
      BY <2>2, <3>1, HeadIsLive, FillExitFindsPosition
         DEF FillExit, IInv, TypeOK, IsLive, OrderRec
    <3>3. PICK price \in Int : price = SellPrice(last[s].bar.open)
      BY <3>2, BarType, ConstantsAssumption DEF IInv, SellPrice, Bar
    <3>4. SettleExit(s, price, "signal")
      BY <2>2, <3>1, <3>2, <3>3 DEF FillExit
    <3>5. price <= SellPrice(last[s].bar.open)
      BY <3>3
    <3> QED
      BY <2>1, <3>2, <3>4, <3>5
  <2>3. ASSUME NEW s \in Symbols, CheckStop(s) PROVE ExitIsNotOptimistic
    <3>1. StopReached(s) /\ SettleExit(s, StopFill(s), "stop")
      BY <2>0, <2>3 DEF CheckStop
    <3>2. HasBarToday(s) /\ IsOpen(s)
      BY <2>3, <3>1 DEF StopReached, IInv, PhaseInv, CheckStop
    <3>3. last[s].bar \in Bar /\ positions[s] \in Position
      BY <3>2, BarType DEF IsOpen, IInv, TypeOK
    <3>4. PICK open \in Nat, stop \in Nat : open = last[s].bar.open /\ stop = positions[s].stop
      BY <3>3 DEF Bar, Position
    <3>5. PICK p \in Nat : p = (IF stop < open THEN stop ELSE open) /\ p <= open /\ p <= stop
      BY <3>4
    <3>6. StopFill(s) = SellPrice(p)
      BY <3>4, <3>5 DEF StopFill
    <3>7. SellPrice(p) <= SellPrice(open) /\ SellPrice(p) <= SellPrice(stop)
      BY <3>5, SellPriceMonotone
    <3> QED
      BY <2>1, <3>1, <3>2, <3>4, <3>6, <3>7
  <2>4. CASE trades' = trades
    BY <2>0, <2>4
  <2> QED
    BY <2>2, <2>3, <2>4
       DEF Next, Caller, Advance, SubmitMarket, SubmitStop, Cancel, BeginAdvance, KeepPending,
           FillEntry, RaiseHighWater, EndAdvance
<1> QED
  BY InitInv, Inductive, <1>1, PTL DEF Spec, NoOptimisticExit, ExitIsNotOptimistic

=============================================================================
