------------------------- MODULE DailyBreakerProofs --------------------------
(***************************************************************************)
(* What the breaker of the daily engine promises, proved for every history *)
(* of days, every limit, any number of order errors and resets, with and   *)
(* without faults: the replay finds the first trip, nothing that counts is *)
(* pruned, a trip is announced once, and only a reset closes the status.   *)
(***************************************************************************)
EXTENDS DailyBreaker, LibraryProofs, SequenceTheorems

-----------------------------------------------------------------------------
(***************************************************************************)
(* Days and ticks                                                          *)
(***************************************************************************)
LEMMA MultiplesGrow ==
  ASSUME NEW a \in Nat, NEW b \in Nat, a < b
  PROVE  (a + 1) * Day <= b * Day
  BY BreakerAssumption

LEMMA DayOfMultiple ==
  ASSUME NEW d \in Nat
  PROVE  (d * Day) \div Day = d /\ (d * Day) % Day = 0 /\ d * Day \in Nat
  BY BreakerAssumption

LEMMA MultipleOfDay ==
  ASSUME NEW c \in Nat, c % Day = 0
  PROVE  c = (c \div Day) * Day /\ c \div Day \in Nat
  BY BreakerAssumption

-----------------------------------------------------------------------------
(***************************************************************************)
(* The day's profit does not change with the days before                   *)
(***************************************************************************)
Shifted(f, g, m, n) == \A i \in 1 .. n : g[i] \in Int /\ f[m + i] = g[i]

\* A sum may start at any index.
LEMMA SumShift ==
  \A m, n \in Nat : \A f, g :
    Shifted(f, g, m, n) => SumFunctionOnSet(f, m + 1 .. m + n) = SumFunctionOnSet(g, 1 .. n)
<1> SUFFICES ASSUME NEW m \in Nat, NEW n \in Nat, NEW f, NEW g, Shifted(f, g, m, n)
             PROVE  SumFunctionOnSet(f, m + 1 .. m + n) = SumFunctionOnSet(g, 1 .. n)
  OBVIOUS
<1> USE DEF Shifted
<1> DEFINE Q == {k \in Nat : k <= n =>
                   SumFunctionOnSet(f, m + 1 .. m + k) = SumFunctionOnSet(g, 1 .. k)}
<1>1. 0 \in Q
  <2>1. m + 1 .. m + 0 = {} /\ 1 .. 0 = {}
    OBVIOUS
  <2> QED
    BY <2>1, SumEmpty
<1>2. ASSUME NEW k \in Nat, k \in Q
      PROVE  k + 1 \in Q
  <2> SUFFICES ASSUME k + 1 <= n
               PROVE  SumFunctionOnSet(f, m + 1 .. m + (k + 1)) = SumFunctionOnSet(g, 1 .. k + 1)
    OBVIOUS
  <2>1. PICK A, B : A = m + 1 .. m + (k + 1) /\ B = 1 .. k + 1
    OBVIOUS
  <2>2. IsFiniteSet(A) /\ IsFiniteSet(B)
    BY <2>1, FS_Interval
  <2>3. (\A i \in A : f[i] \in Int) /\ (\A i \in B : g[i] \in Int)
    <3>1. \A i \in A : i - m \in 1 .. n /\ m + (i - m) = i
      BY <2>1
    <3>2. \A i \in A : f[m + (i - m)] = g[i - m]
      BY <3>1
    <3> QED
      BY <2>1, <3>1, <3>2
  <2>4. /\ m + (k + 1) \in A /\ A \ {m + (k + 1)} = m + 1 .. m + k
        /\ k + 1 \in B /\ B \ {k + 1} = 1 .. k
    BY <2>1
  <2>5. /\ SumFunctionOnSet(f, A) = f[m + (k + 1)] + SumFunctionOnSet(f, m + 1 .. m + k)
        /\ SumFunctionOnSet(g, B) = g[k + 1] + SumFunctionOnSet(g, 1 .. k)
    <3>1. SumFunctionOnSet(f, A)
            = f[m + (k + 1)] + SumFunctionOnSet(f, A \ {m + (k + 1)})
      BY <2>2, <2>3, <2>4, SumRemove
    <3>2. SumFunctionOnSet(g, B) = g[k + 1] + SumFunctionOnSet(g, B \ {k + 1})
      BY <2>2, <2>3, <2>4, SumRemove
    <3> QED
      BY <2>4, <3>1, <3>2
  <2>6. f[m + (k + 1)] = g[k + 1]
    OBVIOUS
  <2>7. SumFunctionOnSet(f, m + 1 .. m + k) = SumFunctionOnSet(g, 1 .. k)
    BY <1>2
  <2> QED
    BY <2>1, <2>5, <2>6, <2>7
<1> HIDE DEF Q
<1>3. Nat \subseteq Q
  BY <1>1, <1>2, SetInduction
<1> QED
  BY <1>3 DEF Q

\* Trades that closed on other days count nothing.
LEMMA DailyPnLOfDay ==
  ASSUME NEW trades \in Seq(TradeResult), NEW closed \in Seq(TradeResult), NEW now \in Nat,
         \A i \in 1 .. Len(trades) : trades[i].closedAt \div Day # now \div Day,
         \A i \in 1 .. Len(closed) : closed[i].closedAt = now
  PROVE  DailyPnL(trades \o closed, now) = DailyPnL(closed, now)
<1>1. PICK m \in Nat, n \in Nat, all \in Seq(TradeResult) :
        m = Len(trades) /\ n = Len(closed) /\ all = trades \o closed
  BY LenProperties, ConcatProperties
<1>2. /\ DOMAIN all = 1 .. m + n /\ DOMAIN closed = 1 .. n
      /\ \A i \in 1 .. m + n : all[i] = IF i <= m THEN trades[i] ELSE closed[i - m]
  <2>1. Len(all) = m + n
    BY <1>1, ConcatProperties
  <2> QED
    BY <1>1, <2>1, ConcatProperties, LenProperties
<1>3. PICK f, g : f = [i \in DOMAIN all |-> all[i].pnl] /\ g = [i \in DOMAIN closed |-> closed[i].pnl]
  OBVIOUS
<1>4. {i \in DOMAIN all : all[i].closedAt \div Day = now \div Day} = m + 1 .. m + n
  <2>1. ASSUME NEW i \in 1 .. m + n
        PROVE  all[i].closedAt \div Day = now \div Day <=> i \in m + 1 .. m + n
    <3>1. CASE i <= m
      BY <1>1, <1>2, <3>1
    <3>2. CASE ~(i <= m)
      <4>1. i - m \in 1 .. n
        BY <3>2
      <4>2. closed[i - m].closedAt = now
        BY <1>1, <4>1
      <4> QED
        BY <1>2, <3>2, <4>2
    <3> QED
      BY <3>1, <3>2
  <2>2. m + 1 .. m + n \subseteq 1 .. m + n
    OBVIOUS
  <2> QED
    BY <1>2, <2>1, <2>2
<1>5. {i \in DOMAIN closed : closed[i].closedAt \div Day = now \div Day} = 1 .. n
  BY <1>1, <1>2
<1>6. \A i \in 1 .. n : g[i] = closed[i].pnl /\ g[i] \in Int
  <2>1. \A i \in 1 .. n : closed[i] \in TradeResult
    BY <1>1, ElementOfSeq
  <2> QED
    BY <1>2, <1>3, <2>1 DEF TradeResult
<1>7. \A i \in 1 .. n : f[m + i] = g[i]
  <2> TAKE i \in 1 .. n
  <2>1. m + i \in 1 .. m + n /\ ~(m + i <= m) /\ m + i - m = i
    OBVIOUS
  <2> QED
    BY <1>2, <1>3, <1>6, <2>1
<1>8. SumFunctionOnSet(f, m + 1 .. m + n) = SumFunctionOnSet(g, 1 .. n)
  <2>1. Shifted(f, g, m, n)
    BY <1>6, <1>7 DEF Shifted
  <2> QED
    BY <2>1, SumShift
<1> QED
  BY <1>1, <1>3, <1>4, <1>5, <1>8 DEF DailyPnL

-----------------------------------------------------------------------------
(***************************************************************************)
(* Check                                                                   *)
(***************************************************************************)
Greater(a, b) == IF a >= b THEN a ELSE b

\* The rule that Check finds to hold, in its order of precedence.
Verdict(peak, trades, errors, equity, now) ==
  IF DrawdownTrips(peak, equity) THEN "max_drawdown"
  ELSE IF StreakTrips(trades) THEN "max_consecutive_losses"
  ELSE IF DailyLossTrips(trades, equity, now) THEN "max_daily_loss"
  ELSE IF ErrorsTrip(errors, now) THEN "max_order_errors_24h"
  ELSE ""

Opened(reason, now) == [open |-> TRUE, reason |-> reason, at |-> now]

LEMMA CheckEffect ==
  ASSUME NEW b \in BreakerType, NEW equity \in Nat, NEW now \in Nat
  PROVE  LET c == Check(b, equity, now)
             reason == Verdict(Greater(b.peak, equity), b.trades, Last24h(b.errors, now), equity, now)
         IN  /\ c \in BreakerType
             /\ c.trades = b.trades
             /\ c.errors = Last24h(b.errors, now)
             /\ c.peak = Greater(b.peak, equity)
             /\ c.state = IF b.state.open \/ reason = "" THEN b.state ELSE Opened(reason, now)
<1>1. PICK peak \in Nat : peak = Max({b.peak, equity}) /\ peak = Greater(b.peak, equity)
  BY MaxOfTwo DEF Greater, BreakerType
<1>2. PICK errors \in SUBSET OrderError : errors = Last24h(b.errors, now)
  BY DEF Last24h, BreakerType
<1>3. PICK reason \in Reasons \union {""} :
        reason = Verdict(peak, b.trades, errors, equity, now)
  BY DEF Verdict, Reasons
<1>4. Check(b, equity, now)
        = IF b.state.open \/ reason = ""
          THEN [b EXCEPT !.peak = peak, !.errors = errors]
          ELSE [b EXCEPT !.peak = peak, !.errors = errors, !.state = Opened(reason, now)]
  BY <1>1, <1>2, <1>3, Zenon DEF Check, Verdict, Opened
<1>5. reason # "" => Opened(reason, now) \in State
  BY <1>3 DEF Opened, State
<1> QED
  BY <1>1, <1>2, <1>3, <1>4, <1>5 DEF BreakerType

-----------------------------------------------------------------------------
(***************************************************************************)
(* The inductive invariant                                                 *)
(***************************************************************************)
\* What a breaker has been told of and has seen when the first n days are replayed.
ReplayTrades(n) == FlattenSeq([d \in 1 .. n |-> ClosedOn(d)])

\* Every trade closed on one of the first n days.
Dated(trades, n) == \A i \in 1 .. Len(trades) : \E d \in 1 .. n : trades[i].closedAt = d * Day

PeakIs(peak, n) ==
  /\ n = 0 => peak = 0
  /\ n # 0 => \E d \in 1 .. n : peak = history[d].equity
  /\ \A d \in 1 .. n : peak >= history[d].equity

\* Day d of the history is over at tick (d + 1) * Day, and a run starts later in the day.
TimeInv ==
  /\ (Len(history) + 1) * Day <= clock /\ clock < (Len(history) + 2) * Day
  /\ pc # "idle" => 0 < asOf /\ (asOf + 1) * Day < runNow /\ runNow <= clock
  /\ pc \notin {"idle", "replay"} => replayed = asOf

Recent(errors, since) == {e \in errors : e.at >= since}

\* The errors that a crash does not take away.
Saved == {e \in AllErrors : e.nr <= Len(failures) - unsaved}

\* Whatever has been pruned, the store and the run know the errors that still count.
ErrorsInv ==
  /\ Recent(Saved, clock - Day) \subseteq orderErrors
  /\ orderErrors \subseteq Saved
  /\ pc = "idle" => unsaved = 0
  /\ pc # "idle" =>
       /\ Recent(AllErrors, clock - Day) \subseteq errs
       /\ errs \subseteq AllErrors
       /\ Recent(AllErrors, runNow - Day) \subseteq brk.errors
       /\ brk.errors \subseteq AllErrors
  /\ pc = "replay" => \A e \in brk.errors : e.at >= runNow - Day

\* The breaker in memory after each replayed day, up to the second Check.
ReplayInv ==
  /\ pc \in {"replay", "write", "notify", "exits"} => brk.state = FirstTrip(replayed)
  /\ pc = "replay" =>
       /\ brk.trades = ReplayTrades(replayed)
       /\ Dated(brk.trades, replayed)
       /\ PeakIs(brk.peak, replayed)

\* The last day that the status in the store stands for.
StatusDay == IF pc = "idle" THEN Len(history) ELSE asOf

\* An open status is backed by the history that every later replay reads.
PersistInv == persisted.open => FirstTrip(StatusDay).open

\* What has been announced is open in the store, and the run that has read it knows.
AlertInv ==
  /\ announced => persisted.open
  /\ pc = "write" /\ announced => wasOpen

IInv ==
  /\ TypeOK
  /\ TimeInv
  /\ ErrorsInv
  /\ ReplayInv
  /\ PersistInv
  /\ AlertInv
  /\ GateMissesNothing

-----------------------------------------------------------------------------
(***************************************************************************)
(* The history                                                             *)
(***************************************************************************)
LEMMA DayFacts ==
  ASSUME TypeOK, NEW d \in 1 .. Len(history)
  PROVE  /\ history[d].equity \in Nat
         /\ ClosedOn(d) \in Seq(TradeResult)
         /\ \A i \in 1 .. Len(ClosedOn(d)) : ClosedOn(d)[i].closedAt = d * Day
<1>1. history[d] \in Outcomes
  BY ElementOfSeq DEF TypeOK
<1>2. history[d].equity \in Nat /\ history[d].closed \in Seq(Int)
  BY <1>1, DailyBreakerAssumption
<1>3. PICK h \in Seq(Int) : h = history[d].closed
  BY <1>2
<1>4. DOMAIN h = 1 .. Len(h) /\ Len(h) \in Nat
  BY LenProperties
<1>5. ClosedOn(d) = [i \in 1 .. Len(h) |-> [closedAt |-> d * Day, pnl |-> h[i]]]
  BY <1>3, <1>4 DEF ClosedOn
<1>6. \A i \in 1 .. Len(h) : h[i] \in Int
  BY ElementOfSeq
<1>7. d * Day \in Nat
  BY BreakerAssumption, LenProperties DEF TypeOK
<1>8. \A i \in 1 .. Len(h) : [closedAt |-> d * Day, pnl |-> h[i]] \in TradeResult
  BY <1>6, <1>7 DEF TradeResult
<1>9. ClosedOn(d) \in [1 .. Len(h) -> TradeResult]
  BY <1>5, <1>8
<1>10. ClosedOn(d) \in Seq(TradeResult) /\ Len(ClosedOn(d)) = Len(h)
  BY <1>4, <1>5, <1>9
<1> QED
  BY <1>2, <1>5, <1>10

LEMMA TradesGrow ==
  ASSUME TypeOK, NEW n \in Nat, n + 1 <= Len(history)
  PROVE  /\ ReplayTrades(n) \in Seq(TradeResult)
         /\ ReplayTrades(n + 1) = ReplayTrades(n) \o ClosedOn(n + 1)
<1>1. PICK t, u : t = [d \in 1 .. n + 1 |-> ClosedOn(d)] /\ u = [d \in 1 .. n |-> ClosedOn(d)]
  OBVIOUS
<1>2. \A d \in 1 .. n + 1 : ClosedOn(d) \in Seq(TradeResult)
  BY DayFacts, LenProperties DEF TypeOK
<1>3. t \in Seq(Seq(TradeResult)) /\ Len(t) = n + 1
  BY <1>1, <1>2
<1>4. u \in Seq(Seq(TradeResult)) /\ Len(u) = n
  BY <1>1, <1>2
<1>5. Alike(t, u, n) /\ t[n + 1] = ClosedOn(n + 1)
  BY <1>1 DEF Alike
<1>6. FlattenSeq(u) \in Seq(TradeResult) /\ FlattenSeq(t) = FlattenSeq(u) \o t[n + 1]
  BY <1>3, <1>4, <1>5, FlattenGrows
<1> QED
  BY <1>1, <1>5, <1>6 DEF ReplayTrades

LEMMA PeakGrows ==
  ASSUME TypeOK, NEW n \in Nat, n + 1 <= Len(history), NEW peak \in Nat, PeakIs(peak, n)
  PROVE  PeakIs(Greater(peak, history[n + 1].equity), n + 1)
<1>1. PICK e \in Nat : e = history[n + 1].equity
  <2>1. n + 1 \in 1 .. Len(history)
    BY LenProperties DEF TypeOK
  <2> QED
    BY <2>1, DayFacts
<1>2. PICK g \in Nat : g = Greater(peak, e) /\ g >= peak /\ g >= e /\ (g = peak \/ g = e)
  BY DEF Greater
<1>3. \A d \in 1 .. n : history[d].equity \in Nat
  BY DayFacts, LenProperties DEF TypeOK
<1>4. \A d \in 1 .. n + 1 : g >= history[d].equity
  <2> TAKE d \in 1 .. n + 1
  <2>1. CASE d = n + 1
    BY <1>1, <1>2, <2>1
  <2>2. CASE d \in 1 .. n
    BY <1>2, <1>3, <2>2 DEF PeakIs
  <2> QED
    BY <2>1, <2>2
<1>5. \E d \in 1 .. n + 1 : g = history[d].equity
  <2>1. CASE g = e
    BY <1>1, <2>1
  <2>2. CASE g = peak /\ g # e
    <3>1. n # 0
      BY <1>2, <2>2 DEF PeakIs
    <3> QED
      BY <2>2, <3>1 DEF PeakIs
  <2> QED
    BY <1>2, <2>1, <2>2
<1> QED
  BY <1>1, <1>2, <1>4, <1>5 DEF PeakIs

LEMMA PeakIsMax ==
  ASSUME TypeOK, NEW n \in Nat, n # 0, n <= Len(history), NEW peak \in Nat, PeakIs(peak, n)
  PROVE  Max({history[d].equity : d \in 1 .. n}) = peak
<1>1. \A d \in 1 .. n : history[d].equity \in Nat
  BY DayFacts, LenProperties DEF TypeOK
<1>2. PICK T : T = {history[d].equity : d \in 1 .. n}
  OBVIOUS
<1>3. T \in SUBSET Int
  BY <1>1, <1>2
<1>4. peak \in T /\ \A y \in T : peak >= y
  BY <1>2 DEF PeakIs
<1> QED
  BY <1>2, <1>3, <1>4, MaxIs

\* Errors that lie ahead do not count.
LEMMA NoErrorYet ==
  ASSUME NEW errors \in SUBSET OrderError, NEW now \in Nat, \A e \in errors : e.at > now
  PROVE  ~ErrorsTrip(errors, now)
<1>1. {e \in errors : now - Day <= e.at /\ e.at <= now} = {}
  BY DEF OrderError
<1> QED
  BY <1>1, FS_EmptySet, BreakerAssumption DEF ErrorsTrip

\* The days of the history that trip a rule.
TripDays(n) == {d \in 1 .. n : DayReason(d) # ""}

LEMMA FirstTripOpen ==
  ASSUME NEW n \in Nat
  PROVE  /\ FirstTrip(n).open \in BOOLEAN
         /\ FirstTrip(n).open <=> TripDays(n) # {}
         /\ ~FirstTrip(n).open => FirstTrip(n) = Closed
  BY DEF FirstTrip, TripDays, Closed

\* A day that is over comes after those before it.
LEMMA FirstTripNext ==
  ASSUME NEW n \in Nat
  PROVE  FirstTrip(n + 1) = IF FirstTrip(n).open THEN FirstTrip(n)
                            ELSE IF DayReason(n + 1) = "" THEN Closed
                            ELSE Opened(DayReason(n + 1), (n + 1) * Day)
<1>1. PICK T, U : T = TripDays(n) /\ U = TripDays(n + 1)
  OBVIOUS
<1>2. U = IF DayReason(n + 1) = "" THEN T ELSE T \union {n + 1}
  <2>1. 1 .. n + 1 = 1 .. n \union {n + 1}
    OBVIOUS
  <2>2. T = {d \in 1 .. n : DayReason(d) # ""}
    BY <1>1 DEF TripDays
  <2>3. U = {d \in 1 .. n \union {n + 1} : DayReason(d) # ""}
    BY <1>1, <2>1, Zenon DEF TripDays
  <2>4. U = T \union {d \in {n + 1} : DayReason(d) # ""}
    BY <2>2, <2>3, Zenon
  <2> QED
    BY <2>4, Zenon
<1>3. T \in SUBSET Nat /\ U \in SUBSET Nat /\ \A d \in T : d <= n
  <2>1. T \subseteq 1 .. n
    BY <1>1 DEF TripDays
  <2>2. U \subseteq 1 .. n + 1
    BY <1>1 DEF TripDays
  <2> QED
    BY <2>1, <2>2
<1>4. FirstTrip(n).open <=> T # {}
  BY <1>1, FirstTripOpen
<1>5. /\ FirstTrip(n) = IF T = {} THEN Closed ELSE Opened(DayReason(Min(T)), Min(T) * Day)
      /\ FirstTrip(n + 1) = IF U = {} THEN Closed ELSE Opened(DayReason(Min(U)), Min(U) * Day)
  BY <1>1 DEF FirstTrip, TripDays, Opened
<1>6. CASE T = {}
  <2>1. DayReason(n + 1) # "" => Min(U) = n + 1
    <3>1. ASSUME DayReason(n + 1) # ""
          PROVE  U = {n + 1}
      BY <1>2, <1>6, <3>1
    <3>2. U = {n + 1} => Min(U) \in U
      BY <1>3, MinIsLeast
    <3> QED
      BY <3>1, <3>2
  <2> QED
    BY <1>2, <1>4, <1>5, <1>6, <2>1
<1>7. CASE T # {}
  <2>1. /\ Min(T) \in T /\ Min(U) \in U
        /\ \A d \in T : Min(T) <= d
        /\ \A d \in U : Min(U) <= d
    <3>1. T \subseteq U
      BY <1>2
    <3> QED
      BY <1>3, <1>7, <3>1, MinIsLeast
  <2>2. PICK a \in Nat : a = Min(T) /\ a \in T
    BY <1>3, <2>1
  <2>3. PICK b \in Nat : b = Min(U) /\ b \in U
    BY <1>3, <2>1
  <2>4. a \in U /\ b <= a /\ a <= n
    BY <1>2, <1>3, <2>1, <2>2, <2>3
  <2>5. b \in T
    <3>1. b # n + 1
      BY <2>4, <1>3, <2>2
    <3>2. b \in T \union {n + 1}
      BY <1>2, <2>3
    <3> QED
      BY <3>1, <3>2
  <2>6. a = b
    BY <2>1, <2>2, <2>4, <2>5
  <2> QED
    BY <1>2, <1>4, <1>5, <1>7, <2>2, <2>3, <2>6
<1> QED
  BY <1>6, <1>7

LEMMA TripStays ==
  ASSUME NEW m \in Nat, NEW n \in Nat, m <= n, FirstTrip(m).open
  PROVE  FirstTrip(n).open
<1>1. TripDays(m) \subseteq TripDays(n)
  <2>1. 1 .. m \subseteq 1 .. n
    OBVIOUS
  <2> QED
    BY <2>1, Zenon DEF TripDays
<1> QED
  BY <1>1, FirstTripOpen

LEMMA DatedNext ==
  ASSUME TypeOK, NEW n \in Nat, n + 1 <= Len(history),
         NEW trades \in Seq(TradeResult), Dated(trades, n)
  PROVE  Dated(trades \o ClosedOn(n + 1), n + 1)
<1>1. n + 1 \in 1 .. Len(history)
  BY LenProperties DEF TypeOK
<1>2. PICK closed \in Seq(TradeResult) : closed = ClosedOn(n + 1)
  BY <1>1, DayFacts
<1>3. \A i \in 1 .. Len(closed) : closed[i].closedAt = (n + 1) * Day
  BY <1>1, <1>2, DayFacts
<1>4. ASSUME NEW i \in 1 .. Len(trades \o closed)
      PROVE  \E d \in 1 .. n + 1 : (trades \o closed)[i].closedAt = d * Day
  <2>1. /\ Len(trades) \in Nat /\ Len(closed) \in Nat
        /\ Len(trades \o closed) = Len(trades) + Len(closed)
        /\ (trades \o closed)[i] = IF i <= Len(trades) THEN trades[i] ELSE closed[i - Len(trades)]
    BY ConcatProperties, LenProperties
  <2>2. CASE i <= Len(trades)
    <3>1. PICK d \in 1 .. n : trades[i].closedAt = d * Day
      BY <2>1, <2>2 DEF Dated
    <3>2. d \in 1 .. n + 1
      OBVIOUS
    <3> QED
      BY <2>1, <2>2, <3>1, <3>2
  <2>3. CASE ~(i <= Len(trades))
    <3>1. i - Len(trades) \in 1 .. Len(closed)
      BY <2>1, <2>3
    <3>2. closed[i - Len(trades)].closedAt = (n + 1) * Day
      BY <1>3, <3>1
    <3>3. n + 1 \in 1 .. n + 1
      OBVIOUS
    <3> QED
      BY <2>1, <2>3, <3>2, <3>3
  <2> QED
    BY <2>2, <2>3
<1> QED
  BY <1>2, <1>4 DEF Dated

\* What Check finds on day n + 1 of the replay is what the history says of the day:
\* the running values of the breaker stand for all days so far, and no stored
\* order error is old enough to count on a day that is replayed.
LEMMA DayIsReplayed ==
  ASSUME TypeOK, NEW n \in Nat, n + 1 <= Len(history),
         NEW peak \in Nat, PeakIs(peak, n), Dated(ReplayTrades(n), n),
         NEW errors \in SUBSET OrderError, \A e \in errors : e.at > (n + 1) * Day
  PROVE  LET equity == history[n + 1].equity
         IN  Verdict(Greater(peak, equity), ReplayTrades(n) \o ClosedOn(n + 1), errors, equity,
                     (n + 1) * Day)
               = DayReason(n + 1)
<1>1. n + 1 \in 1 .. Len(history)
  BY LenProperties DEF TypeOK
<1>2. PICK equity \in Nat : equity = history[n + 1].equity
  BY <1>1, DayFacts
<1>3. PICK now \in Nat : now = (n + 1) * Day /\ now \div Day = n + 1
  BY DayOfMultiple
<1>4. Max({history[d].equity : d \in 1 .. n + 1}) = Greater(peak, equity)
  <2>1. PICK top \in Nat : top = Greater(peak, equity)
    BY DEF Greater
  <2>2. PeakIs(top, n + 1)
    BY <1>2, <2>1, PeakGrows
  <2> QED
    BY <2>1, <2>2, PeakIsMax
<1>5. PICK closed \in Seq(TradeResult), trades \in Seq(TradeResult) :
        closed = ClosedOn(n + 1) /\ trades = ReplayTrades(n)
  BY <1>1, DayFacts, TradesGrow
<1>6. FlattenSeq([d \in 1 .. n + 1 |-> ClosedOn(d)]) = trades \o closed
  BY <1>5, TradesGrow DEF ReplayTrades
<1>7. DailyPnL(trades \o closed, now) = DailyPnL(closed, now)
  <2>1. \A i \in 1 .. Len(closed) : closed[i].closedAt = now
    BY <1>1, <1>3, <1>5, DayFacts
  <2>2. ASSUME NEW i \in 1 .. Len(trades)
        PROVE  trades[i].closedAt \div Day # now \div Day
    <3>1. PICK d \in 1 .. n : trades[i].closedAt = d * Day
      BY <1>5 DEF Dated
    <3>2. (d * Day) \div Day = d
      BY DayOfMultiple
    <3>3. d # n + 1
      OBVIOUS
    <3> QED
      BY <1>3, <3>1, <3>2, <3>3
  <2> QED
    BY <2>1, <2>2, DailyPnLOfDay
<1>8. DailyLossTrips(trades \o closed, equity, now) <=> DailyLossTrips(closed, equity, now)
  BY <1>7 DEF DailyLossTrips
<1>9. ~ErrorsTrip(errors, now)
  BY <1>3, NoErrorYet
<1> QED
  BY <1>2, <1>3, <1>4, <1>5, <1>6, <1>8, <1>9, Zenon DEF Verdict, DayReason

\* A day that is over does not change, nor what is concluded from it.
LEMMA DaysKept ==
  ASSUME TypeOK, [Next]_vars
  PROVE  /\ Len(history) <= Len(history')
         /\ \A d \in 1 .. Len(history) : history'[d] = history[d]
<1>1. CASE UNCHANGED history
  BY <1>1, LenProperties DEF TypeOK
<1>2. CASE Tick
  <2>1. CASE UNCHANGED history
    BY <1>1, <2>1
  <2>2. CASE \E o \in Outcomes : history' = Append(history, o)
    <3>1. PICK o \in Outcomes : history' = Append(history, o)
      BY <2>2
    <3> QED
      BY <3>1, AppendProperties, LenProperties DEF TypeOK
  <2> QED
    BY <1>2, <2>1, <2>2 DEF Tick
<1>3. Next => Tick \/ UNCHANGED history
  BY DEF Next, StartRun, ReplayDay, ReadPersisted, WritePersisted, NotifyTrip, FailExit, Recheck,
         GateEntries, FailEntry, RecordFailure, FinishRun, Crash, ResetBreaker
<1> QED
  BY <1>1, <1>2, <1>3 DEF vars

LEMMA HistoryKept ==
  ASSUME TypeOK, [Next]_vars, NEW n \in 0 .. Len(history)
  PROVE  /\ \A d \in 1 .. n : DayReason(d)' = DayReason(d)
         /\ FirstTrip(n)' = FirstTrip(n)
         /\ ReplayTrades(n)' = ReplayTrades(n)
         /\ \A peak : PeakIs(peak, n)' <=> PeakIs(peak, n)
<1>1. \A d \in 1 .. n : history'[d] = history[d]
  BY DaysKept, LenProperties DEF TypeOK
<1>2. \A d \in 1 .. n : ClosedOn(d)' = ClosedOn(d)
  BY <1>1, Zenon DEF ClosedOn
<1>3. ASSUME NEW m \in 1 .. n
      PROVE  DayReason(m)' = DayReason(m)
  <2>1. \A d \in 1 .. m : d \in 1 .. n
    OBVIOUS
  <2>2. {history'[d].equity : d \in 1 .. m} = {history[d].equity : d \in 1 .. m}
    BY <1>1, <2>1
  <2>3. [d \in 1 .. m |-> ClosedOn(d)'] = [d \in 1 .. m |-> ClosedOn(d)]
    BY <1>2, <2>1, Zenon
  <2> QED
    BY <1>1, <1>2, <2>2, <2>3, Zenon DEF DayReason
<1>4. FirstTrip(n)' = FirstTrip(n)
  <2>1. TripDays(n)' = TripDays(n)
    BY <1>3, Zenon DEF TripDays
  <2>2. CASE TripDays(n) = {}
    BY <2>1, <2>2, Zenon DEF FirstTrip, TripDays
  <2>3. CASE TripDays(n) # {}
    <3>1. TripDays(n) \in SUBSET Nat /\ TripDays(n) \subseteq 1 .. n
      <4>1. TripDays(n) \subseteq 1 .. n
        BY Zenon DEF TripDays
      <4>2. 1 .. n \subseteq Nat
        OBVIOUS
      <4> QED
        BY <4>1, <4>2, Zenon
    <3>2. Min(TripDays(n)) \in 1 .. n
      BY <2>3, <3>1, MinIsLeast
    <3>3. PICK m \in 1 .. n : m = Min(TripDays(n))
      BY <3>2
    <3>4. FirstTrip(n) = [open |-> TRUE, reason |-> DayReason(m), at |-> m * Day]
      BY <2>3, <3>3, Zenon DEF FirstTrip, TripDays
    <3>5. FirstTrip(n)' = [open |-> TRUE, reason |-> DayReason(m)', at |-> m * Day]
      <4>1. TripDays(n)' # {} /\ m = Min(TripDays(n)')
        BY <2>1, <2>3, <3>3, Zenon
      <4>2. TripDays(n)' = {d \in 1 .. n : DayReason(d)' # ""}
        BY DEF TripDays
      <4> QED
        BY <4>1, <4>2, Zenon DEF FirstTrip
    <3> QED
      BY <1>3, <3>4, <3>5, Zenon
  <2> QED
    BY <2>2, <2>3
<1>5. ReplayTrades(n)' = ReplayTrades(n)
  <2>1. [d \in 1 .. n |-> ClosedOn(d)'] = [d \in 1 .. n |-> ClosedOn(d)]
    BY <1>2, Zenon
  <2> QED
    BY <2>1, Zenon DEF ReplayTrades
<1>6. \A peak : PeakIs(peak, n)' <=> PeakIs(peak, n)
  BY <1>1, Zenon DEF PeakIs
<1> QED
  BY <1>3, <1>4, <1>5, <1>6

-----------------------------------------------------------------------------
(***************************************************************************)
(* What a day of the replay does to the breaker in memory                  *)
(***************************************************************************)
LEMMA ReplayEffect ==
  ASSUME IInv, ReplayDay
  PROVE  /\ pc = "replay" /\ replayed + 1 \in 1 .. Len(history)
         /\ replayed' = replayed + 1 /\ replayed' <= asOf
         /\ brk' \in BreakerType
         /\ brk'.errors = brk.errors
         /\ brk'.state = FirstTrip(replayed + 1)
         /\ brk'.trades = ReplayTrades(replayed + 1)
         /\ Dated(brk'.trades, replayed + 1)
         /\ PeakIs(brk'.peak, replayed + 1)
<1> USE DEF IInv
<1>1. PICK n \in Nat : n = replayed /\ n + 1 \in 1 .. Len(history) /\ n < asOf
  BY LenProperties DEF ReplayDay, TypeOK
<1>2. pc = "replay" /\ replayed' = n + 1
  BY <1>1 DEF ReplayDay
<1>3. PICK closed \in Seq(TradeResult), equity \in Nat, now \in Nat :
        closed = ClosedOn(n + 1) /\ equity = history[n + 1].equity /\ now = (n + 1) * Day
  <2>1. ClosedOn(n + 1) \in Seq(TradeResult) /\ history[n + 1].equity \in Nat
    BY <1>1, DayFacts
  <2>2. (n + 1) * Day \in Nat
    BY DayOfMultiple
  <2> QED
    BY <2>1, <2>2, Zenon
<1>4. PICK b : b = RecordTrades(brk, closed)
  OBVIOUS
<1>5. brk \in BreakerType
  BY DEF TypeOK
<1>6. /\ b \in BreakerType
      /\ b.state = brk.state /\ b.trades = brk.trades \o closed
      /\ b.errors = brk.errors /\ b.peak = brk.peak
  BY <1>4, <1>5, ConcatProperties DEF RecordTrades, BreakerType
<1>7. brk' = Check(b, equity, now)
  BY <1>1, <1>3, <1>4 DEF ReplayDay
<1>8. /\ brk.trades = ReplayTrades(n) /\ Dated(brk.trades, n) /\ PeakIs(brk.peak, n)
      /\ brk.state = FirstTrip(n)
  BY <1>1, <1>2 DEF ReplayInv
<1>9. \A e \in brk.errors : e.at > now
  <2>1. \A e \in brk.errors : e.at >= runNow - Day /\ e.at \in Nat
    BY <1>2, <1>5 DEF ErrorsInv, BreakerType, OrderError
  <2>2. (asOf + 1) * Day < runNow /\ runNow \in Nat /\ asOf \in Nat
    BY <1>2, LenProperties DEF TimeInv, TypeOK
  <2>3. (n + 1 + 1) * Day <= (asOf + 1) * Day
    <3>1. PICK k \in Nat : k = asOf + 1
      BY <2>2
    <3>2. n + 1 < k
      BY <1>1, <2>2, <3>1
    <3>3. (n + 1 + 1) * Day <= k * Day
      BY <3>2, MultiplesGrow
    <3> QED
      BY <3>1, <3>3
  <2>4. (n + 1 + 1) * Day = now + Day /\ Day \in Nat
    BY <1>3, BreakerAssumption
  <2>5. PICK x \in Nat, y \in Nat : x = (asOf + 1) * Day /\ y = (n + 1 + 1) * Day
    BY <2>2, BreakerAssumption
  <2> QED
    BY <2>1, <2>2, <2>3, <2>4, <2>5
<1>10. Last24h(brk.errors, now) = brk.errors
  <2>1. \A e \in brk.errors : e.at \in Nat
    BY <1>5 DEF BreakerType, OrderError
  <2> QED
    BY <1>9, <2>1, BreakerAssumption DEF Last24h
<1>11. PICK reason : reason = Verdict(Greater(b.peak, equity), b.trades, brk.errors, equity, now)
  OBVIOUS
<1>12. /\ brk' \in BreakerType
       /\ brk'.trades = b.trades
       /\ brk'.errors = brk.errors
       /\ brk'.peak = Greater(b.peak, equity)
       /\ brk'.state = IF b.state.open \/ reason = "" THEN b.state ELSE Opened(reason, now)
  <2>1. /\ Check(b, equity, now) \in BreakerType
        /\ Check(b, equity, now).trades = b.trades
        /\ Check(b, equity, now).errors = Last24h(b.errors, now)
        /\ Check(b, equity, now).peak = Greater(b.peak, equity)
    BY <1>6, CheckEffect
  <2>2. PICK v : v = Verdict(Greater(b.peak, equity), b.trades, Last24h(b.errors, now), equity, now)
    OBVIOUS
  <2>3. Check(b, equity, now).state
          = IF b.state.open \/ v = "" THEN b.state ELSE Opened(v, now)
    BY <1>6, <2>2, CheckEffect
  <2>4. v = reason
    BY <1>6, <1>10, <1>11, <2>2
  <2> QED
    BY <1>6, <1>7, <1>10, <2>1, <2>3, <2>4, Zenon
<1>13. reason = DayReason(n + 1)
  <2>1. brk.peak \in Nat /\ brk.errors \in SUBSET OrderError
    BY <1>5 DEF BreakerType
  <2>2. n + 1 <= Len(history)
    BY <1>1
  <2> QED
    BY <1>3, <1>6, <1>8, <1>9, <1>11, <2>1, <2>2, DayIsReplayed
<1>14. brk'.state = FirstTrip(n + 1)
  <2>1. FirstTrip(n + 1) = IF FirstTrip(n).open THEN FirstTrip(n)
                           ELSE IF reason = "" THEN Closed
                           ELSE Opened(reason, now)
    BY <1>3, <1>13, FirstTripNext
  <2>2. ~FirstTrip(n).open => FirstTrip(n) = Closed
    BY FirstTripOpen
  <2> QED
    BY <1>6, <1>8, <1>12, <2>1, <2>2
<1>15. brk'.trades = ReplayTrades(n + 1) /\ Dated(brk'.trades, n + 1)
  <2>1. n + 1 <= Len(history) /\ brk.trades \in Seq(TradeResult)
    BY <1>1, <1>5 DEF BreakerType
  <2> QED
    BY <1>3, <1>6, <1>8, <1>12, <2>1, TradesGrow, DatedNext
<1>16. PeakIs(brk'.peak, n + 1)
  <2>1. n + 1 <= Len(history) /\ brk.peak \in Nat
    BY <1>1, <1>5 DEF BreakerType
  <2> QED
    BY <1>3, <1>6, <1>8, <1>12, <2>1, PeakGrows
<1>17. replayed' <= asOf
  BY <1>1, <1>2 DEF TypeOK
<1> QED
  BY <1>1, <1>2, <1>12, <1>14, <1>15, <1>16, <1>17

LEMMA RecheckEffect ==
  ASSUME IInv, Recheck
  PROVE  LET errors == Last24h(brk.errors, runNow)
         IN  /\ brk' \in BreakerType
             /\ brk'.errors = errors
             /\ ~brk'.state.open => ~brk.state.open /\ ~ErrorsTrip(errors, runNow)
<1> USE DEF IInv
<1>1. PICK n \in Nat : n = asOf /\ n \in 1 .. Len(history)
  BY LenProperties DEF TypeOK, TimeInv, Recheck
<1>2. PICK equity \in Nat : equity = history[n].equity
  BY <1>1, DayFacts
<1>3. PICK b \in BreakerType, now \in Nat : b = brk /\ now = runNow
  BY DEF TypeOK
<1>4. brk' = Check(b, equity, now)
  BY <1>1, <1>2, <1>3 DEF Recheck
<1>5. PICK errors : errors = Last24h(b.errors, now)
  OBVIOUS
<1>6. PICK reason :
        reason = Verdict(Greater(b.peak, equity), b.trades, Last24h(b.errors, now), equity, now)
  OBVIOUS
<1>7. /\ brk' \in BreakerType
      /\ brk'.errors = errors
      /\ brk'.state = IF b.state.open \/ reason = "" THEN b.state ELSE Opened(reason, now)
  <2>1. /\ Check(b, equity, now) \in BreakerType
        /\ Check(b, equity, now).errors = errors
    BY <1>5, CheckEffect
  <2>2. Check(b, equity, now).state
          = IF b.state.open \/ reason = "" THEN b.state ELSE Opened(reason, now)
    <3>1. Check(b, equity, now).state
            = IF b.state.open
                 \/ Verdict(Greater(b.peak, equity), b.trades, Last24h(b.errors, now), equity, now) = ""
              THEN b.state
              ELSE Opened(Verdict(Greater(b.peak, equity), b.trades, Last24h(b.errors, now), equity,
                                  now), now)
      BY CheckEffect
    <3> QED
      BY <1>6, <3>1, Zenon
  <2> QED
    BY <1>4, <2>1, <2>2, Zenon
<1>8. reason = "" => ~ErrorsTrip(errors, now)
  BY <1>5, <1>6 DEF Verdict
<1>9. Opened(reason, now).open
  BY DEF Opened
<1> QED
  BY <1>3, <1>5, <1>7, <1>8, <1>9

-----------------------------------------------------------------------------
(***************************************************************************)
(* The types                                                               *)
(***************************************************************************)
LEMMA FailureTypes ==
  ASSUME TypeOK, NEW at \in Nat, RecordFailure(at)
  PROVE  /\ brk' \in BreakerType /\ errs' \subseteq OrderError /\ orderErrors' \subseteq OrderError
         /\ failures' \in Seq(Nat) /\ unsaved' \in 0 .. Len(failures')
<1>1. PICK e \in OrderError : e = [nr |-> Len(failures) + 1, at |-> at]
  <2>1. Len(failures) + 1 \in Nat
    BY LenProperties DEF TypeOK
  <2> QED
    BY <2>1 DEF OrderError
<1>2. brk' = RecordOrderError(brk, e) /\ errs' = Last24h(errs \union {e}, at)
  BY <1>1 DEF RecordFailure
<1>3. brk' \in BreakerType
  BY <1>2 DEF TypeOK, RecordOrderError, BreakerType
<1>4. errs' \subseteq OrderError
  BY <1>2 DEF TypeOK, Last24h
<1>5. failures' \in Seq(Nat) /\ Len(failures') = Len(failures) + 1 /\ Len(failures) \in Nat
  BY AppendProperties, LenProperties DEF RecordFailure, TypeOK
<1>6. unsaved' \in 0 .. Len(failures')
  BY <1>5 DEF RecordFailure, TypeOK
<1> QED
  BY <1>3, <1>4, <1>5, <1>6 DEF RecordFailure, TypeOK

LEMMA EndTypes ==
  ASSUME TypeOK, EndRun
  PROVE  failures' \in Seq(Nat) /\ Len(failures') = Len(failures) - unsaved /\ NewBreaker \in BreakerType
<1>1. failures \in Seq(Nat) /\ unsaved \in 0 .. Len(failures) /\ Len(failures) \in Nat
  BY LenProperties DEF TypeOK
<1>2. PICK m \in 0 .. Len(failures) : m = Len(failures) - unsaved
  <2>1. Len(failures) - unsaved \in 0 .. Len(failures)
    BY <1>1
  <2> QED
    BY <2>1, Zenon
<1>3. SubSeq(failures, 1, m) \in Seq(Nat) /\ Len(SubSeq(failures, 1, m)) = m
  BY <1>1, <1>2, SubSeqProperties
<1>4. NewBreaker \in BreakerType
  BY EmptySeq DEF NewBreaker, BreakerType, Closed, State
<1> QED
  BY <1>2, <1>3, <1>4 DEF EndRun

LEMMA EndKeeps ==
  ASSUME TypeOK, EndRun, UNCHANGED history
  PROVE  /\ pc' = "idle" /\ runNow' \in Nat /\ asOf' \in 0 .. Len(history') /\ replayed' \in 0 .. asOf'
         /\ brk' \in BreakerType /\ errs' \subseteq OrderError /\ wasOpen' \in BOOLEAN
         /\ failures' \in Seq(Nat) /\ unsaved' \in 0 .. Len(failures')
<1>1. Len(history') \in Nat /\ Len(failures') \in Nat /\ failures' \in Seq(Nat)
  BY EndTypes, LenProperties DEF TypeOK
<1>2. asOf' \in 0 .. Len(history') /\ replayed' \in 0 .. asOf' /\ unsaved' \in 0 .. Len(failures')
  BY <1>1 DEF EndRun
<1> QED
  BY <1>1, <1>2, EndTypes DEF EndRun

LEMMA TypeKept ==
  ASSUME IInv, [Next]_vars
  PROVE  TypeOK'
<1> USE DEF TypeOK
<1>0. TypeOK
  BY DEF IInv
<1>1. CASE UNCHANGED vars
  BY <1>0, <1>1 DEF vars, storeVars, operatorVars, observerVars, runVars
<1>2. CASE Tick
  <2>1. Len(history) <= Len(history') /\ Len(history) \in Nat
    BY <1>0, <1>2, DaysKept, LenProperties DEF Next
  <2>2. history' \in Seq(Outcomes) /\ Len(history') \in Nat
    <3>1. CASE UNCHANGED history
      BY <1>0, <2>1, <3>1
    <3>2. CASE \E o \in Outcomes : history' = Append(history, o)
      BY <1>0, <3>2, AppendProperties, LenProperties
    <3> QED
      BY <1>2, <3>1, <3>2 DEF Tick
  <2> QED
    BY <1>0, <1>2, <2>1, <2>2 DEF Tick, storeVars, operatorVars, observerVars, runVars
<1>3. CASE StartRun
  <2>1. Last24h(orderErrors, clock) \subseteq OrderError
    BY <1>0 DEF Last24h
  <2>2. brk' \in BreakerType
    BY <1>3, <2>1, EmptySeq DEF StartRun, NewBreaker, BreakerType, Closed, State
  <2>3. Len(history) \in Nat
    BY <1>0, LenProperties
  <2> QED
    BY <1>0, <1>3, <2>1, <2>2, <2>3 DEF StartRun, storeVars, operatorVars, observerVars
<1>4. CASE ReplayDay
  BY <1>0, <1>4, ReplayEffect DEF ReplayDay, storeVars, operatorVars, observerVars
<1>5. CASE ReadPersisted
  BY <1>0, <1>5 DEF ReadPersisted, State, storeVars, operatorVars, observerVars
<1>6. CASE WritePersisted
  BY <1>0, <1>6 DEF WritePersisted, BreakerType, operatorVars, observerVars
<1>7. CASE NotifyTrip
  BY <1>0, <1>7 DEF NotifyTrip, storeVars, operatorVars, runVars, observerVars
<1>8. CASE FailExit
  BY <1>0, <1>8, FailureTypes DEF FailExit, RecordFailure, operatorVars
<1>9. CASE Recheck
  BY <1>0, <1>9, RecheckEffect DEF Recheck, storeVars, operatorVars, observerVars
<1>10. CASE GateEntries
  BY <1>0, <1>10 DEF GateEntries, BreakerType, State, storeVars, operatorVars, runVars
<1>11. CASE FailEntry
  BY <1>0, <1>11, FailureTypes DEF FailEntry, RecordFailure, operatorVars
<1>12. CASE FinishRun
  <2>1. EndRun
    BY <1>12 DEF FinishRun
  <2> QED
    BY <1>0, <1>12, <2>1, EndKeeps DEF FinishRun, operatorVars
<1>13. CASE Crash
  <2>1. EndRun
    BY <1>13 DEF Crash
  <2> QED
    BY <1>0, <1>13, <2>1, EndKeeps DEF Crash, storeVars, operatorVars
<1>14. CASE ResetBreaker
  <2>1. Closed \in State
    BY DEF Closed, State
  <2>2. persisted' \in State /\ dismissed' \in State
    BY <1>0, <1>14, <2>1 DEF ResetBreaker
  <2>3. resets' \in Nat /\ gateOpen' \in BOOLEAN
    <3>1. resets' \in Nat
      BY <1>0, <1>14 DEF ResetBreaker
    <3>2. gateOpen' \in BOOLEAN
      BY <1>14 DEF ResetBreaker
    <3> QED
      BY <3>1, <3>2
  <2>4. UNCHANGED <<clock, history, orderErrors, processed, pc, runNow, asOf, replayed, brk, errs,
                    wasOpen, failures, unsaved>>
    BY <1>14 DEF ResetBreaker, runVars
  <2>5. announced' \in BOOLEAN
    BY <1>14 DEF ResetBreaker
  <2> QED
    BY <1>0, <2>2, <2>3, <2>4, <2>5
<1> QED
  BY <1>1, <1>2, <1>3, <1>4, <1>5, <1>6, <1>7, <1>8, <1>9, <1>10, <1>11, <1>12, <1>13, <1>14
     DEF Next

-----------------------------------------------------------------------------
(***************************************************************************)
(* Time                                                                    *)
(***************************************************************************)
\* Midnight is the only multiple of Day in reach of the next tick.
LEMMA TickTime ==
  ASSUME TypeOK, TimeInv, Tick
  PROVE  (Len(history') + 1) * Day <= clock' /\ clock' < (Len(history') + 2) * Day
<1>1. PICK n \in Nat : n = Len(history)
  BY LenProperties DEF TypeOK
<1>2. PICK day \in Nat : day = Day /\ day > 0
  BY BreakerAssumption
<1>3. PICK low \in Nat, high \in Nat, next \in Nat :
        /\ low = (n + 1) * day /\ high = (n + 2) * day /\ next = (n + 3) * day
        /\ high = low + day /\ next = high + day
  BY <1>2
<1>4. clock \in Nat /\ clock' = clock + 1 /\ low <= clock /\ clock < high
  BY <1>1, <1>2, <1>3 DEF TypeOK, TimeInv, Tick
<1>5. CASE clock' % Day = 0
  <2>1. PICK q \in Nat : clock' = q * Day
    BY <1>4, <1>5, MultipleOfDay
  <2>2. ~(q < n + 2)
    <3>1. q < n + 2 => (q + 1) * Day <= (n + 2) * Day
      BY <1>1, MultiplesGrow
    <3> QED
      BY <1>2, <1>3, <1>4, <2>1, <3>1
  <2>3. ~(n + 2 < q)
    <3>1. n + 2 < q => (n + 2 + 1) * Day <= q * Day
      <4>1. PICK m \in Nat : m = n + 2
        BY <1>1
      <4>2. m < q => (m + 1) * Day <= q * Day
        BY MultiplesGrow
      <4> QED
        BY <4>1, <4>2
    <3> QED
      BY <1>2, <1>3, <1>4, <2>1, <3>1
  <2>4. clock' = high
    <3>1. q = n + 2
      BY <2>2, <2>3
    <3> QED
      BY <1>2, <1>3, <2>1, <3>1
  <2>5. Len(history') = n + 1
    <3>1. PICK o \in Outcomes : history' = Append(history, o)
      BY <1>5 DEF Tick
    <3> QED
      BY <1>1, <3>1, AppendProperties DEF TypeOK
  <2>6. (n + 1 + 1) * Day = high /\ (n + 1 + 2) * Day = next
    BY <1>2, <1>3
  <2> QED
    BY <1>2, <1>3, <2>4, <2>5, <2>6
<1>6. CASE clock' % Day # 0
  <2>1. history' = history
    BY <1>6 DEF Tick
  <2>2. clock' # high
    BY <1>2, <1>3, <1>6, DayOfMultiple
  <2> QED
    BY <1>1, <1>2, <1>3, <1>4, <2>1, <2>2
<1> QED
  BY <1>5, <1>6

LEMMA TimeKept ==
  ASSUME IInv, [Next]_vars
  PROVE  TimeInv'
<1>0. TypeOK /\ TimeInv
  BY DEF IInv
<1>1. CASE UNCHANGED vars
  BY <1>0, <1>1 DEF TimeInv, vars, storeVars, runVars
<1>2. CASE Tick
  <2>1. UNCHANGED <<pc, runNow, asOf, replayed>> /\ clock' = clock + 1 /\ clock \in Nat /\ runNow \in Nat
    BY <1>0, <1>2 DEF Tick, runVars, TypeOK
  <2>2. (Len(history') + 1) * Day <= clock' /\ clock' < (Len(history') + 2) * Day
    BY <1>0, <1>2, TickTime
  <2>3. pc # "idle" => runNow <= clock'
    BY <1>0, <2>1 DEF TimeInv
  <2> QED
    BY <1>0, <2>1, <2>2, <2>3 DEF TimeInv
<1>3. CASE StartRun
  <2>1. PICK n \in Nat : n = Len(history)
    BY <1>0, LenProperties DEF TypeOK
  <2>2. clock \in Nat /\ processed \in Nat /\ (n + 1) * Day <= clock /\ clock < (n + 2) * Day
    BY <1>0, <2>1 DEF TypeOK, TimeInv
  <2>3. clock # (n + 1) * Day
    BY <1>3, <2>1, DayOfMultiple DEF StartRun
  <2>4. (n + 1) * Day \in Nat
    BY BreakerAssumption
  <2>5. 0 < n
    BY <1>3, <2>1, <2>2 DEF StartRun
  <2>6. (n + 1) * Day < clock
    BY <2>2, <2>3, <2>4
  <2> QED
    BY <1>0, <1>3, <2>1, <2>2, <2>5, <2>6 DEF TimeInv, StartRun
<1>4. CASE ReplayDay
  BY <1>0, <1>4 DEF TimeInv, ReplayDay
<1>5. CASE ReadPersisted
  BY <1>0, <1>5 DEF TimeInv, ReadPersisted
<1>6. CASE WritePersisted
  BY <1>0, <1>6 DEF TimeInv, WritePersisted
<1>7. CASE NotifyTrip
  BY <1>0, <1>7 DEF TimeInv, NotifyTrip, runVars
<1>8. CASE FailExit
  BY <1>0, <1>8 DEF TimeInv, FailExit, RecordFailure
<1>9. CASE Recheck
  BY <1>0, <1>9 DEF TimeInv, Recheck
<1>10. CASE GateEntries
  BY <1>0, <1>10 DEF TimeInv, GateEntries, runVars
<1>11. CASE FailEntry
  BY <1>0, <1>11 DEF TimeInv, FailEntry, RecordFailure
<1>12. CASE FinishRun
  BY <1>0, <1>12 DEF TimeInv, FinishRun, EndRun
<1>13. CASE Crash
  BY <1>0, <1>13 DEF TimeInv, Crash, EndRun
<1>14. CASE ResetBreaker
  BY <1>0, <1>14 DEF TimeInv, ResetBreaker, runVars
<1> QED
  BY <1>1, <1>2, <1>3, <1>4, <1>5, <1>6, <1>7, <1>8, <1>9, <1>10, <1>11, <1>12, <1>13, <1>14
     DEF Next

-----------------------------------------------------------------------------
(***************************************************************************)
(* The order errors                                                        *)
(***************************************************************************)
LEMMA ErrorsTyped ==
  ASSUME TypeOK
  PROVE  /\ AllErrors \subseteq OrderError
         /\ Saved \subseteq AllErrors
         /\ unsaved = 0 => Saved = AllErrors
         /\ \A e \in AllErrors : e.nr \in 1 .. Len(failures)
<1>1. PICK n \in Nat : n = Len(failures) /\ DOMAIN failures = 1 .. n
  BY LenProperties DEF TypeOK
<1>2. \A i \in 1 .. n : failures[i] \in Nat
  BY <1>1, ElementOfSeq DEF TypeOK
<1>3. AllErrors = {[nr |-> i, at |-> failures[i]] : i \in 1 .. n}
  BY <1>1 DEF AllErrors
<1>4. AllErrors \subseteq OrderError
  BY <1>2, <1>3 DEF OrderError
<1>5. \A e \in AllErrors : e.nr \in 1 .. n
  BY <1>3
<1>6. Saved \subseteq AllErrors
  BY DEF Saved
<1>7. ASSUME unsaved = 0
      PROVE  Saved = AllErrors
  BY <1>1, <1>5, <1>7 DEF Saved
<1> QED
  BY <1>1, <1>4, <1>5, <1>6, <1>7

\* An order that fails is one error more, which only the failed write leaves unsaved.
LEMMA FailureErrors ==
  ASSUME TypeOK, NEW at \in Nat, RecordFailure(at)
  PROVE  LET e == [nr |-> Len(failures) + 1, at |-> at]
         IN  /\ AllErrors' = AllErrors \union {e}
             /\ Saved' = IF unsaved' = 0 THEN AllErrors' ELSE Saved
             /\ brk'.errors = brk.errors \union {e}
<1>1. PICK n \in Nat : n = Len(failures) /\ DOMAIN failures = 1 .. n
  BY LenProperties DEF TypeOK
<1>2. PICK e : e = [nr |-> n + 1, at |-> at]
  OBVIOUS
<1>3. failures' = Append(failures, at)
  BY DEF RecordFailure
<1>4. /\ DOMAIN failures' = 1 .. n + 1 /\ Len(failures') = n + 1
      /\ \A i \in 1 .. n : failures'[i] = failures[i]
      /\ failures'[n + 1] = at
  BY <1>1, <1>3, AppendProperties, LenProperties DEF TypeOK
<1>5. AllErrors' = AllErrors \union {e}
  <2>1. AllErrors' = {[nr |-> i, at |-> failures'[i]] : i \in 1 .. n + 1}
    BY <1>4 DEF AllErrors
  <2>2. AllErrors = {[nr |-> i, at |-> failures[i]] : i \in 1 .. n}
    BY <1>1 DEF AllErrors
  <2>3. 1 .. n + 1 = 1 .. n \union {n + 1}
    OBVIOUS
  <2>4. {[nr |-> i, at |-> failures'[i]] : i \in 1 .. n}
          = {[nr |-> i, at |-> failures[i]] : i \in 1 .. n}
    BY <1>4
  <2> QED
    BY <1>2, <1>4, <2>1, <2>2, <2>3, <2>4
<1>6. unsaved' = 0 \/ unsaved' = unsaved + 1
  BY DEF RecordFailure
<1>7. ASSUME unsaved' = 0
      PROVE  Saved' = AllErrors'
  <2>1. \A x \in AllErrors' : x.nr <= n + 1
    BY <1>1, <1>2, <1>5, ErrorsTyped
  <2> QED
    BY <1>4, <1>7, <2>1 DEF Saved
<1>8. ASSUME unsaved' # 0
      PROVE  Saved' = Saved
  <2>1. unsaved \in Nat /\ unsaved' = unsaved + 1
    BY <1>1, <1>6, <1>8 DEF TypeOK
  <2>2. Saved' = {x \in AllErrors \union {e} : x.nr <= n - unsaved}
    BY <1>4, <1>5, <2>1 DEF Saved
  <2>3. ~(e.nr <= n - unsaved)
    BY <1>2, <2>1
  <2> QED
    BY <1>1, <2>2, <2>3 DEF Saved
<1>9. brk'.errors = brk.errors \union {e}
  BY <1>1, <1>2 DEF RecordFailure, RecordOrderError, TypeOK, BreakerType
<1> QED
  BY <1>1, <1>2, <1>5, <1>7, <1>8, <1>9

\* What is left after a run is what was saved.
LEMMA EndErrors ==
  ASSUME TypeOK, EndRun
  PROVE  AllErrors' = Saved /\ Saved' = Saved
<1>1. PICK n \in Nat : n = Len(failures) /\ DOMAIN failures = 1 .. n
  BY LenProperties DEF TypeOK
<1>2. PICK m \in 0 .. n : m = n - unsaved
  <2>1. n - unsaved \in 0 .. n
    BY <1>1 DEF TypeOK
  <2> QED
    BY <2>1, Zenon
<1>3. failures' = SubSeq(failures, 1, m) /\ unsaved' = 0
  BY <1>1, <1>2 DEF EndRun
<1>4. /\ DOMAIN failures' = 1 .. m /\ Len(failures') = m
      /\ \A i \in 1 .. m : failures'[i] = failures[i]
  BY <1>1, <1>3, SubSeqProperties DEF TypeOK
<1>5. AllErrors' = {[nr |-> i, at |-> failures[i]] : i \in 1 .. m}
  BY <1>4 DEF AllErrors
<1>6. Saved = {e \in AllErrors : e.nr <= m}
  BY <1>1, <1>2 DEF Saved
<1>7. AllErrors = {[nr |-> i, at |-> failures[i]] : i \in 1 .. n}
  BY <1>1 DEF AllErrors
<1>8. AllErrors' = Saved
  <2>1. \A i \in 1 .. m : i \in 1 .. n /\ i <= m
    OBVIOUS
  <2>2. \A i \in 1 .. n : i <= m => i \in 1 .. m
    OBVIOUS
  <2> QED
    BY <1>5, <1>6, <1>7, <2>1, <2>2
<1>9. Saved' = AllErrors'
  <2>1. \A e \in AllErrors' : e.nr <= m
    BY <1>5
  <2> QED
    BY <1>3, <1>4, <2>1 DEF Saved
<1> QED
  BY <1>8, <1>9

LEMMA ErrorsSame ==
  ASSUME UNCHANGED failures
  PROVE  AllErrors' = AllErrors /\ (UNCHANGED unsaved => Saved' = Saved)
  BY DEF AllErrors, Saved

\* A pruning at or before the edge of the window drops nothing of it.
LEMMA PruneKeeps ==
  ASSUME NEW all \in SUBSET OrderError, NEW errors \in SUBSET OrderError,
         NEW since \in Int, NEW now \in Int, now - Day <= since, Recent(all, since) \subseteq errors
  PROVE  Recent(all, since) \subseteq Last24h(errors, now)
<1>1. ASSUME NEW e \in Recent(all, since)
      PROVE  e \in Last24h(errors, now)
  <2>1. e \in errors /\ e.at \in Nat /\ e.at >= since
    BY DEF Recent, OrderError
  <2>2. e.at >= now - Day
    BY <2>1, BreakerAssumption
  <2> QED
    BY <2>1, <2>2 DEF Last24h
<1> QED
  BY <1>1

LEMMA RecentShrinks ==
  ASSUME NEW all \in SUBSET OrderError, NEW since \in Int, NEW later \in Int, since <= later
  PROVE  Recent(all, later) \subseteq Recent(all, since)
  BY DEF Recent, OrderError

LEMMA ErrorsAfterFailure ==
  ASSUME TypeOK, ErrorsInv, NEW at \in Nat, RecordFailure(at), at <= clock, pc \in {"exits", "submit"},
         UNCHANGED <<clock, runNow, pc>>
  PROVE  ErrorsInv'
<1>1. PICK e : e = [nr |-> Len(failures) + 1, at |-> at]
  OBVIOUS
<1>2. /\ AllErrors' = AllErrors \union {e}
      /\ Saved' = IF unsaved' = 0 THEN AllErrors' ELSE Saved
      /\ brk'.errors = brk.errors \union {e}
  BY <1>1, FailureErrors
<1>3. errs' = Last24h(errs \union {e}, at)
  BY <1>1 DEF RecordFailure
<1>4. clock \in Nat /\ Day \in Nat /\ e.at = at /\ e \in OrderError
  <2>1. Len(failures) + 1 \in Nat
    BY LenProperties DEF TypeOK
  <2> QED
    BY <1>1, <2>1, BreakerAssumption DEF TypeOK, OrderError
<1>5. /\ Recent(AllErrors, clock - Day) \subseteq errs /\ errs \subseteq AllErrors
      /\ Recent(AllErrors, runNow - Day) \subseteq brk.errors /\ brk.errors \subseteq AllErrors
      /\ Recent(Saved, clock - Day) \subseteq orderErrors /\ orderErrors \subseteq Saved
  BY DEF ErrorsInv
<1>6. AllErrors \subseteq OrderError /\ errs \subseteq OrderError
  BY ErrorsTyped DEF TypeOK
<1>7. Recent(AllErrors', clock - Day) \subseteq errs' /\ errs' \subseteq AllErrors'
  <2>1. PICK all \in SUBSET OrderError, known \in SUBSET OrderError :
          all = AllErrors \union {e} /\ known = errs \union {e}
    BY <1>4, <1>6
  <2>2. Recent(all, clock - Day) \subseteq known
    BY <1>5, <2>1 DEF Recent
  <2>3. at - Day <= clock - Day
    BY <1>4
  <2>4. Recent(all, clock - Day) \subseteq Last24h(known, at)
    BY <1>4, <2>2, <2>3, PruneKeeps
  <2>5. known \subseteq all
    BY <1>5, <2>1
  <2>6. Last24h(known, at) \subseteq known
    BY DEF Last24h
  <2> QED
    BY <1>2, <1>3, <2>1, <2>4, <2>5, <2>6
<1>8. Recent(AllErrors', runNow - Day) \subseteq brk'.errors /\ brk'.errors \subseteq AllErrors'
  BY <1>2, <1>5 DEF Recent
<1>9. Recent(Saved', clock - Day) \subseteq orderErrors' /\ orderErrors' \subseteq Saved'
  <2>1. CASE orderErrors' = errs' /\ unsaved' = 0
    BY <1>2, <1>7, <2>1
  <2>2. CASE UNCHANGED orderErrors /\ unsaved' = unsaved + 1
    <3>1. unsaved' # 0
      BY <2>2 DEF TypeOK
    <3> QED
      BY <1>2, <1>5, <2>2, <3>1
  <2> QED
    BY <2>1, <2>2 DEF RecordFailure
<1> QED
  BY <1>7, <1>8, <1>9 DEF ErrorsInv

LEMMA ErrorsAfterEnd ==
  ASSUME ErrorsInv, TypeOK, EndRun, UNCHANGED <<clock, orderErrors>>
  PROVE  ErrorsInv'
<1>1. Saved' = Saved
  BY EndErrors
<1>2. pc' = "idle" /\ unsaved' = 0
  BY DEF EndRun
<1> QED
  BY <1>1, <1>2 DEF ErrorsInv

LEMMA ErrorsKept ==
  ASSUME IInv, [Next]_vars
  PROVE  ErrorsInv'
<1>0. TypeOK /\ TimeInv /\ ErrorsInv
  BY DEF IInv
<1>15. /\ clock \in Nat /\ runNow \in Nat /\ Day \in Nat
      /\ AllErrors \in SUBSET OrderError /\ Saved \in SUBSET OrderError
      /\ brk.errors \in SUBSET OrderError /\ orderErrors \in SUBSET OrderError
  BY <1>0, BreakerAssumption, ErrorsTyped DEF TypeOK, BreakerType
<1>1. CASE UNCHANGED vars
  <2>1. AllErrors' = AllErrors /\ Saved' = Saved
    BY <1>1, ErrorsSame DEF vars, observerVars
  <2> QED
    BY <1>0, <1>1, <2>1 DEF ErrorsInv, vars, storeVars, runVars, observerVars
<1>2. CASE Tick
  <2>1. AllErrors' = AllErrors /\ Saved' = Saved
    BY <1>2, ErrorsSame DEF Tick, observerVars
  <2>2. clock' = clock + 1 /\ UNCHANGED <<orderErrors, pc, runNow, brk, errs, unsaved>>
    BY <1>2 DEF Tick, storeVars, runVars, observerVars
  <2>3. clock - Day <= clock' - Day /\ clock - Day \in Int /\ clock' - Day \in Int
    BY <1>15, <2>2
  <2>4. /\ Recent(AllErrors, clock' - Day) \subseteq Recent(AllErrors, clock - Day)
        /\ Recent(Saved, clock' - Day) \subseteq Recent(Saved, clock - Day)
    BY <1>15, <2>3, RecentShrinks
  <2> QED
    BY <1>0, <2>1, <2>2, <2>4 DEF ErrorsInv
<1>3. CASE StartRun
  <2>1. AllErrors' = AllErrors /\ Saved' = Saved
    BY <1>3, ErrorsSame DEF StartRun, observerVars
  <2>2. Saved = AllErrors
    BY <1>0, <1>3, ErrorsTyped DEF ErrorsInv, StartRun
  <2>3. PICK errors : errors = Last24h(orderErrors, clock)
    OBVIOUS
  <2>4. /\ errs' = errors /\ brk'.errors = errors /\ runNow' = clock /\ pc' = "replay"
        /\ UNCHANGED <<clock, orderErrors, unsaved>>
    BY <1>3, <2>3 DEF StartRun, storeVars, observerVars, NewBreaker
  <2>5. Recent(AllErrors, clock - Day) \subseteq orderErrors /\ orderErrors \subseteq AllErrors
    BY <1>0, <2>2 DEF ErrorsInv
  <2>6. Recent(AllErrors, clock - Day) \subseteq errors
    <3>1. clock - Day \in Int /\ clock - Day <= clock - Day
      BY <1>15
    <3> QED
      BY <1>15, <2>3, <2>5, <3>1, PruneKeeps
  <2>7. errors \subseteq orderErrors /\ \A e \in errors : e.at >= clock - Day
    BY <2>3 DEF Last24h
  <2> QED
    BY <2>1, <2>2, <2>4, <2>5, <2>6, <2>7 DEF ErrorsInv
<1>4. CASE ReplayDay
  <2>1. AllErrors' = AllErrors /\ Saved' = Saved
    BY <1>4, ErrorsSame DEF ReplayDay, observerVars
  <2>2. brk'.errors = brk.errors
    BY <1>4, ReplayEffect
  <2> QED
    BY <1>0, <1>4, <2>1, <2>2 DEF ErrorsInv, ReplayDay, storeVars, observerVars
<1>5. CASE ReadPersisted
  <2>1. AllErrors' = AllErrors /\ Saved' = Saved
    BY <1>5, ErrorsSame DEF ReadPersisted, observerVars
  <2> QED
    BY <1>0, <1>5, <2>1 DEF ErrorsInv, ReadPersisted, storeVars, observerVars
<1>6. CASE WritePersisted
  <2>1. AllErrors' = AllErrors /\ Saved' = Saved
    BY <1>6, ErrorsSame DEF WritePersisted, observerVars
  <2> QED
    BY <1>0, <1>6, <2>1 DEF ErrorsInv, WritePersisted, observerVars
<1>7. CASE NotifyTrip
  <2>1. AllErrors' = AllErrors /\ Saved' = Saved
    BY <1>7, ErrorsSame DEF NotifyTrip, observerVars
  <2> QED
    BY <1>0, <1>7, <2>1 DEF ErrorsInv, NotifyTrip, storeVars, runVars, observerVars
<1>8. CASE FailExit
  <2>1. RecordFailure(runNow) /\ runNow <= clock /\ pc \in {"exits", "submit"}
        /\ UNCHANGED <<clock, runNow, pc>>
    BY <1>0, <1>8 DEF FailExit, TimeInv, RecordFailure
  <2> QED
    BY <1>0, <1>15, <2>1, ErrorsAfterFailure
<1>9. CASE Recheck
  <2>1. AllErrors' = AllErrors /\ Saved' = Saved
    BY <1>9, ErrorsSame DEF Recheck, observerVars
  <2>2. brk'.errors = Last24h(brk.errors, runNow)
    BY <1>9, RecheckEffect
  <2>3. pc # "idle" /\ Recent(AllErrors, runNow - Day) \subseteq brk.errors /\ brk.errors \subseteq AllErrors
    BY <1>0, <1>9 DEF Recheck, ErrorsInv
  <2>4. Recent(AllErrors, runNow - Day) \subseteq Last24h(brk.errors, runNow)
    <3>1. runNow - Day \in Int /\ runNow - Day <= runNow - Day
      BY <1>15
    <3> QED
      BY <1>15, <2>3, <3>1, PruneKeeps
  <2>5. Last24h(brk.errors, runNow) \subseteq AllErrors
    BY <2>3 DEF Last24h
  <2> QED
    BY <1>0, <1>9, <2>1, <2>2, <2>3, <2>4, <2>5 DEF ErrorsInv, Recheck, storeVars, observerVars
<1>10. CASE GateEntries
  <2>1. AllErrors' = AllErrors /\ Saved' = Saved
    BY <1>10, ErrorsSame DEF GateEntries
  <2> QED
    BY <1>0, <1>10, <2>1 DEF ErrorsInv, GateEntries, storeVars, runVars
<1>11. CASE FailEntry
  <2>1. RecordFailure(clock) /\ clock <= clock /\ pc \in {"exits", "submit"}
        /\ UNCHANGED <<clock, runNow, pc>>
    BY <1>15, <1>11 DEF FailEntry, RecordFailure
  <2> QED
    BY <1>0, <1>15, <2>1, ErrorsAfterFailure
<1>12. CASE FinishRun
  <2>1. EndRun /\ UNCHANGED <<clock, orderErrors>>
    BY <1>12 DEF FinishRun
  <2> QED
    BY <1>0, <2>1, ErrorsAfterEnd
<1>13. CASE Crash
  <2>1. EndRun /\ UNCHANGED <<clock, orderErrors>>
    BY <1>13 DEF Crash, storeVars
  <2> QED
    BY <1>0, <2>1, ErrorsAfterEnd
<1>14. CASE ResetBreaker
  <2>1. AllErrors' = AllErrors /\ Saved' = Saved
    BY <1>14, ErrorsSame DEF ResetBreaker
  <2> QED
    BY <1>0, <1>14, <2>1 DEF ErrorsInv, ResetBreaker, runVars
<1> QED
  BY <1>1, <1>2, <1>3, <1>4, <1>5, <1>6, <1>7, <1>8, <1>9, <1>10, <1>11, <1>12, <1>13, <1>14
     DEF Next

-----------------------------------------------------------------------------
(***************************************************************************)
(* The breaker in memory and the status in the store                       *)
(***************************************************************************)
\* What holds of the replay so far also holds when the run only moves on.
LEMMA ReplaySame ==
  ASSUME TypeOK, [Next]_vars, ReplayInv,
         pc' \in {"replay", "write", "notify", "exits"},
         pc \in {"replay", "write", "notify", "exits"},
         pc' = "replay" => pc = "replay",
         UNCHANGED replayed, brk'.state = brk.state,
         pc' = "replay" => UNCHANGED brk
  PROVE  ReplayInv'
<1>1. PICK n \in 0 .. Len(history) : n = replayed
  BY LenProperties DEF TypeOK
<1>2. /\ FirstTrip(n)' = FirstTrip(n) /\ ReplayTrades(n)' = ReplayTrades(n)
      /\ \A peak : PeakIs(peak, n)' <=> PeakIs(peak, n)
  BY HistoryKept
<1>3. brk'.state = FirstTrip(n)
  BY <1>1 DEF ReplayInv
<1>4. ASSUME pc' = "replay"
      PROVE  brk' = brk /\ brk.trades = ReplayTrades(n) /\ Dated(brk.trades, n) /\ PeakIs(brk.peak, n)
  BY <1>1, <1>4 DEF ReplayInv
<1> QED
  BY <1>1, <1>2, <1>3, <1>4 DEF ReplayInv, Dated

LEMMA ReplayKept ==
  ASSUME IInv, [Next]_vars
  PROVE  ReplayInv'
<1>0. TypeOK /\ TimeInv /\ ReplayInv
  BY DEF IInv
<1>15. CASE pc' \notin {"replay", "write", "notify", "exits"}
  BY <1>15 DEF ReplayInv
<1> SUFFICES ASSUME pc' \in {"replay", "write", "notify", "exits"}
             PROVE  ReplayInv'
  BY <1>15
<1>1. CASE UNCHANGED vars
  <2>1. UNCHANGED <<pc, replayed, brk>>
    BY <1>1 DEF vars, runVars
  <2> QED
    BY <1>0, <2>1, ReplaySame
<1>2. CASE Tick
  <2>1. UNCHANGED <<pc, replayed, brk>>
    BY <1>2 DEF Tick, runVars
  <2> QED
    BY <1>0, <2>1, ReplaySame
<1>3. CASE StartRun
  <2>1. pc' = "replay" /\ replayed' = 0 /\ brk'.state = Closed /\ brk'.trades = <<>> /\ brk'.peak = 0
    BY <1>3 DEF StartRun, NewBreaker
  <2>2. 1 .. 0 = {}
    OBVIOUS
  <2>3. FirstTrip(0)' = Closed
    BY <2>2 DEF FirstTrip
  <2>4. ReplayTrades(0)' = <<>>
    <3>1. ReplayTrades(0)' = FlattenSeq([d \in {} |-> ClosedOn(d)'])
      BY <2>2 DEF ReplayTrades
    <3>2. [d \in {} |-> ClosedOn(d)'] = <<>>
      OBVIOUS
    <3> QED
      BY <3>1, <3>2, Zenon DEF FlattenSeq
  <2>5. PeakIs(0, 0)' /\ Dated(<<>>, 0)
    BY <2>2, EmptySeq DEF PeakIs, Dated
  <2> QED
    BY <2>1, <2>3, <2>4, <2>5 DEF ReplayInv, Dated, PeakIs
<1>4. CASE ReplayDay
  <2>1. PICK n \in 0 .. Len(history) : n = replayed + 1
    BY <1>4, ReplayEffect
  <2>2. /\ FirstTrip(n)' = FirstTrip(n) /\ ReplayTrades(n)' = ReplayTrades(n)
        /\ \A peak : PeakIs(peak, n)' <=> PeakIs(peak, n)
    BY <1>0, HistoryKept
  <2>3. /\ replayed' = n /\ brk'.state = FirstTrip(n) /\ brk'.trades = ReplayTrades(n)
        /\ Dated(brk'.trades, n) /\ PeakIs(brk'.peak, n)
    BY <1>4, <2>1, ReplayEffect
  <2> QED
    BY <2>2, <2>3 DEF ReplayInv, Dated
<1>5. CASE ReadPersisted
  <2>1. UNCHANGED <<replayed, brk>> /\ pc = "replay" /\ pc' = "write"
    BY <1>5 DEF ReadPersisted
  <2> QED
    BY <1>0, <2>1, ReplaySame
<1>6. CASE WritePersisted
  <2>1. UNCHANGED <<replayed, brk>> /\ pc = "write" /\ pc' # "replay"
    BY <1>6 DEF WritePersisted
  <2> QED
    BY <1>0, <2>1, ReplaySame
<1>7. CASE NotifyTrip
  <2>1. UNCHANGED <<replayed, brk>> /\ pc = "notify" /\ pc' = "exits"
    BY <1>7 DEF NotifyTrip, runVars
  <2> QED
    BY <1>0, <2>1, ReplaySame
<1>8. CASE FailExit
  <2>1. UNCHANGED <<replayed, pc>> /\ pc = "exits" /\ brk'.state = brk.state
    BY <1>0, <1>8 DEF FailExit, RecordFailure, RecordOrderError, TypeOK, BreakerType
  <2> QED
    BY <1>0, <2>1, ReplaySame
<1>9. CASE Recheck
  BY <1>9 DEF Recheck
<1>10. CASE GateEntries
  BY <1>10 DEF GateEntries
<1>11. CASE FailEntry
  BY <1>11 DEF FailEntry, RecordFailure
<1>12. CASE FinishRun
  BY <1>12 DEF FinishRun, EndRun
<1>13. CASE Crash
  BY <1>13 DEF Crash, EndRun
<1>14. CASE ResetBreaker
  <2>1. UNCHANGED <<pc, replayed, brk>>
    BY <1>14 DEF ResetBreaker, runVars
  <2> QED
    BY <1>0, <2>1, ReplaySame
<1> QED
  BY <1>1, <1>2, <1>3, <1>4, <1>5, <1>6, <1>7, <1>8, <1>9, <1>10, <1>11, <1>12, <1>13, <1>14
     DEF Next

\* Before the store's row is written, the breaker in memory stands for the same days.
LEMMA WriteKeepsOpen ==
  ASSUME IInv, WritePersisted
  PROVE  /\ persisted' = FirstTrip(asOf)
         /\ persisted.open => persisted'.open
<1>1. replayed = asOf /\ brk.state = FirstTrip(replayed) /\ pc = "write"
  BY DEF IInv, TimeInv, ReplayInv, WritePersisted
<1>2. persisted.open => FirstTrip(asOf).open
  BY <1>1 DEF IInv, PersistInv, StatusDay
<1>3. persisted' = brk.state
  BY DEF WritePersisted
<1> QED
  BY <1>1, <1>2, <1>3

LEMMA TripStaysNext ==
  ASSUME NEW m \in Nat, NEW n \in Nat, m <= n, FirstTrip(m)'.open
  PROVE  FirstTrip(n)'.open
<1>1. TripDays(m)' \subseteq TripDays(n)'
  <2>1. 1 .. m \subseteq 1 .. n
    OBVIOUS
  <2> QED
    BY <2>1, Zenon DEF TripDays
<1>2. TripDays(m)' # {}
  BY DEF FirstTrip, TripDays, Closed
<1>3. TripDays(n)' # {} => FirstTrip(n)'.open
  BY DEF FirstTrip, TripDays
<1> QED
  BY <1>1, <1>2, <1>3

LEMMA StatusDayGrows ==
  ASSUME TypeOK, [Next]_vars
  PROVE  StatusDay' \in Nat /\ StatusDay <= StatusDay'
<1>1. PICK n \in Nat, a \in Nat, m \in Nat :
        n = Len(history) /\ a = asOf /\ m = Len(history') /\ a <= n /\ n <= m
  <2>1. Len(history) \in Nat /\ asOf \in 0 .. Len(history)
    BY LenProperties DEF TypeOK
  <2>2. Len(history') \in Nat
    <3>1. CASE UNCHANGED history
      BY <2>1, <3>1
    <3>2. CASE \E o \in Outcomes : history' = Append(history, o)
      BY <3>2, AppendProperties, LenProperties DEF TypeOK
    <3> QED
      BY <3>1, <3>2 DEF Next, Tick, StartRun, ReplayDay, ReadPersisted, WritePersisted, NotifyTrip,
         FailExit, Recheck, GateEntries, FailEntry, RecordFailure, FinishRun, Crash, ResetBreaker, vars
  <2>3. Len(history) <= Len(history')
    BY DaysKept
  <2>4. asOf \in Nat /\ asOf <= Len(history)
    BY <2>1
  <2> QED
    BY <2>1, <2>2, <2>3, <2>4, Zenon
<1>2. pc' = "idle" \/ (pc = "idle" /\ asOf' = n) \/ (pc # "idle" /\ asOf' = a)
  BY <1>1 DEF Next, Tick, StartRun, ReplayDay, ReadPersisted, WritePersisted, NotifyTrip,
         FailExit, Recheck, GateEntries, FailEntry, RecordFailure, FinishRun, EndRun, Crash,
         ResetBreaker, vars, runVars
<1> QED
  BY <1>1, <1>2 DEF StatusDay

LEMMA PersistKept ==
  ASSUME IInv, [Next]_vars
  PROVE  PersistInv'
<1>0. TypeOK /\ PersistInv
  BY DEF IInv
<1>1. PICK d \in 0 .. Len(history) : d = StatusDay
  <2>1. StatusDay \in 0 .. Len(history)
    BY <1>0, LenProperties DEF StatusDay, TypeOK
  <2> QED
    BY <2>1, Zenon
<1>2. /\ persisted.open => FirstTrip(d).open
      /\ FirstTrip(d)' = FirstTrip(d)
  BY <1>0, <1>1, HistoryKept DEF PersistInv
<1>3. PICK e \in Nat : e = StatusDay' /\ d <= e
  BY <1>0, <1>1, StatusDayGrows
<1>4. FirstTrip(d).open => FirstTrip(e)'.open
  BY <1>2, <1>3, TripStaysNext
<1>5. persisted'.open => FirstTrip(d).open
  <2>1. CASE UNCHANGED persisted
    BY <1>2, <2>1
  <2>2. CASE WritePersisted
    <3>1. d = asOf
      BY <1>1, <2>2 DEF StatusDay, WritePersisted
    <3> QED
      BY <2>2, <3>1, WriteKeepsOpen
  <2>3. CASE ResetBreaker
    BY <2>3 DEF ResetBreaker, Closed
  <2> QED
    BY <2>1, <2>2, <2>3 DEF Next, Tick, StartRun, ReplayDay, ReadPersisted, NotifyTrip, FailExit,
       Recheck, GateEntries, FailEntry, RecordFailure, FinishRun, Crash, vars, storeVars
<1> QED
  BY <1>3, <1>4, <1>5 DEF PersistInv

LEMMA AlertKept ==
  ASSUME IInv, [Next]_vars
  PROVE  AlertInv'
<1>0. AlertInv /\ announced \in BOOLEAN /\ wasOpen \in BOOLEAN
  BY DEF IInv, TypeOK
<1>1. CASE WritePersisted
  <2>1. persisted.open => persisted'.open
    BY <1>1, WriteKeepsOpen
  <2>2. pc' # "write" /\ announced' = (announced \/ (persisted'.open /\ ~wasOpen))
    BY <1>1 DEF WritePersisted
  <2> QED
    BY <1>0, <2>1, <2>2 DEF AlertInv
<1>2. CASE ReadPersisted
  BY <1>0, <1>2 DEF ReadPersisted, storeVars, AlertInv
<1>3. CASE ResetBreaker
  BY <1>3 DEF ResetBreaker, AlertInv
<1>4. CASE FinishRun \/ Crash
  BY <1>0, <1>4 DEF FinishRun, Crash, EndRun, storeVars, AlertInv
<1>5. CASE /\ UNCHANGED <<persisted, announced>>
           /\ pc' = "write" => pc = "write" /\ UNCHANGED wasOpen
  BY <1>0, <1>5 DEF AlertInv
<1> QED
  BY <1>1, <1>2, <1>3, <1>4, <1>5 DEF Next, Tick, StartRun, ReplayDay, NotifyTrip, FailExit,
     Recheck, GateEntries, FailEntry, RecordFailure, vars, storeVars, observerVars, runVars

-----------------------------------------------------------------------------
(***************************************************************************)
(* The gate                                                                *)
(***************************************************************************)
\* Only the errors of the window count, and those are known.
LEMMA CountedErrors ==
  ASSUME NEW now \in Nat, NEW all \in SUBSET OrderError, NEW errors \in SUBSET OrderError,
         errors \subseteq all, Recent(all, now - Day) \subseteq errors, ~ErrorsTrip(errors, now)
  PROVE  ~ErrorsTrip(all, now)
<1>1. {e \in all : now - Day <= e.at /\ e.at <= now} = {e \in errors : now - Day <= e.at /\ e.at <= now}
  <2>1. \A e \in all : now - Day <= e.at => e \in Recent(all, now - Day)
    BY BreakerAssumption DEF Recent, OrderError
  <2> QED
    BY <2>1
<1> QED
  BY <1>1 DEF ErrorsTrip

LEMMA GateAfterRecheck ==
  ASSUME IInv, Recheck, ~brk'.state.open
  PROVE  (\A d \in 1 .. asOf : DayReason(d) = "") /\ ~ErrorsTrip(AllErrors, runNow)
<1>0. TypeOK /\ TimeInv /\ ReplayInv /\ ErrorsInv
  BY DEF IInv
<1>1. PICK n \in Nat : n = asOf
  BY <1>0, LenProperties DEF TypeOK
<1>2. ~brk.state.open /\ ~ErrorsTrip(Last24h(brk.errors, runNow), runNow)
  BY RecheckEffect
<1>3. ~FirstTrip(n).open
  BY <1>0, <1>1, <1>2 DEF TimeInv, ReplayInv, Recheck
<1>4. \A d \in 1 .. n : DayReason(d) = ""
  BY <1>3, FirstTripOpen, Zenon DEF TripDays
<1>5. /\ Recent(AllErrors, runNow - Day) \subseteq brk.errors
      /\ brk.errors \subseteq AllErrors
  BY <1>0 DEF ErrorsInv, Recheck
<1>6. PICK all \in SUBSET OrderError, known \in SUBSET OrderError, now \in Nat :
        all = AllErrors /\ known = brk.errors /\ now = runNow
  BY <1>0, ErrorsTyped DEF TypeOK, BreakerType
<1>7. Recent(all, now - Day) \subseteq Last24h(known, now)
  <2>1. now - Day \in Int /\ now - Day <= now - Day
    BY BreakerAssumption
  <2> QED
    BY <1>5, <1>6, <2>1, PruneKeeps
<1>8. Last24h(known, now) \in SUBSET OrderError /\ Last24h(known, now) \subseteq all
  BY <1>5, <1>6 DEF Last24h
<1>9. ~ErrorsTrip(all, now)
  BY <1>2, <1>6, <1>7, <1>8, CountedErrors
<1> QED
  BY <1>1, <1>4, <1>6, <1>9

LEMMA GateKept ==
  ASSUME IInv, [Next]_vars
  PROVE  GateMissesNothing'
<1>0. TypeOK /\ GateMissesNothing
  BY DEF IInv
<1>1. PICK n \in 0 .. Len(history) : n = asOf
  BY <1>0 DEF TypeOK
<1>2. \A d \in 1 .. n : DayReason(d)' = DayReason(d)
  BY <1>0, <1>1, HistoryKept
<1>3. CASE pc' # "entries"
  BY <1>3 DEF GateMissesNothing
<1>4. CASE Recheck
  <2>1. AllErrors' = AllErrors /\ UNCHANGED <<asOf, runNow>>
    BY <1>4, ErrorsSame DEF Recheck, observerVars
  <2> QED
    BY <1>1, <1>2, <1>4, <2>1, GateAfterRecheck DEF GateMissesNothing
<1>5. CASE pc = "entries" /\ UNCHANGED <<asOf, runNow, brk, failures>>
  <2>1. AllErrors' = AllErrors
    BY <1>5, ErrorsSame
  <2> QED
    BY <1>0, <1>1, <1>2, <1>5, <2>1 DEF GateMissesNothing
<1>6. pc' # "entries" \/ Recheck \/ (pc = "entries" /\ UNCHANGED <<asOf, runNow, brk, failures>>)
  BY DEF Next, Tick, StartRun, ReplayDay, ReadPersisted, WritePersisted, NotifyTrip, FailExit,
     GateEntries, FailEntry, RecordFailure, FinishRun, EndRun, Crash, ResetBreaker, vars, runVars,
     observerVars
<1> QED
  BY <1>3, <1>4, <1>5, <1>6

-----------------------------------------------------------------------------
(***************************************************************************)
(* The theorems                                                            *)
(***************************************************************************)
LEMMA InitInv ==
  ASSUME Init
  PROVE  IInv
<1>1. Closed \in State /\ NewBreaker \in BreakerType
  BY EmptySeq DEF Closed, State, NewBreaker, BreakerType
<1>2. TypeOK
  <2>1. history \in Seq(Outcomes) /\ failures \in Seq(Nat) /\ Len(history) = 0 /\ Len(failures) = 0
    BY EmptySeq DEF Init
  <2>2. asOf \in 0 .. Len(history) /\ replayed \in 0 .. asOf /\ unsaved \in 0 .. Len(failures)
    BY <2>1 DEF Init
  <2>3. wasOpen \in BOOLEAN /\ gateOpen \in BOOLEAN
    BY DEF Init
  <2>4. /\ clock \in Nat /\ processed \in Nat /\ runNow \in Nat /\ announced \in BOOLEAN /\ resets \in Nat
        /\ pc \in {"idle", "replay", "write", "notify", "exits", "entries", "submit"}
        /\ orderErrors \subseteq OrderError /\ errs \subseteq OrderError
    BY BreakerAssumption DEF Init
  <2>5. persisted \in State /\ dismissed \in State /\ brk \in BreakerType
    BY <1>1 DEF Init
  <2> QED
    BY <2>1, <2>2, <2>3, <2>4, <2>5 DEF TypeOK
<1>3. TimeInv
  BY BreakerAssumption, EmptySeq DEF Init, TimeInv
<1>4. ErrorsInv
  <2>1. AllErrors = {}
    BY EmptySeq DEF Init, AllErrors
  <2> QED
    BY <2>1 DEF Init, ErrorsInv, Saved, Recent
<1>5. ReplayInv /\ GateMissesNothing
  BY DEF Init, ReplayInv, GateMissesNothing
<1>6. ~persisted.open
  BY DEF Init, Closed
<1>7. PersistInv /\ AlertInv
  BY <1>6 DEF Init, PersistInv, AlertInv
<1> QED
  BY <1>2, <1>3, <1>4, <1>5, <1>7 DEF IInv

\* Every step of the engine, the operator or the clock keeps the inductive invariant.
THEOREM Inductive == Spec => []IInv
<1>1. Init => IInv
  BY InitInv
<1>2. IInv /\ [Next]_vars => IInv'
  BY TypeKept, TimeKept, ErrorsKept, ReplayKept, PersistKept, AlertKept, GateKept DEF IInv
<1> QED
  BY <1>1, <1>2, PTL DEF Spec

\* The state of the engine, of the store and of the operator is always well formed.
THEOREM TypeCorrect == Spec => []TypeOK
<1>1. IInv => TypeOK
  BY DEF IInv
<1> QED
  BY <1>1, Inductive, PTL

\* While a run replays, its breaker is what the history says of the days so far,
\* whatever the store holds.
THEOREM TripIsFound == Spec => []ReplayFindsFirstTrip
<1>1. IInv => ReplayFindsFirstTrip
  BY DEF IInv, ReplayInv, ReplayFindsFirstTrip
<1> QED
  BY <1>1, Inductive, PTL

\* No pruning, crash or failed write hides from the gate what should stop an entry.
THEOREM GateKnowsAll == Spec => []GateMissesNothing
<1>1. IInv => GateMissesNothing
  BY DEF IInv
<1> QED
  BY <1>1, Inductive, PTL

\* No run sets out to announce what has been announced, unless the operator has reset it
\* or a read has failed in between.
THEOREM AlertedOnce == Spec => OneAlertPerTrip
<1>1. IInv /\ [Next]_vars => [pc' = "notify" => pc = "notify" \/ ~announced]_vars
  <2> SUFFICES ASSUME IInv, [Next]_vars, pc' = "notify", pc # "notify"
               PROVE  ~announced
    OBVIOUS
  <2>1. WritePersisted
    BY DEF Next, Tick, StartRun, ReplayDay, ReadPersisted, NotifyTrip, FailExit, Recheck,
       GateEntries, FailEntry, RecordFailure, FinishRun, Crash, EndRun, ResetBreaker, vars
  <2> QED
    BY <2>1 DEF WritePersisted, IInv, AlertInv
<1> QED
  BY <1>1, Inductive, PTL DEF Spec, OneAlertPerTrip

\* No run closes the status that the store shows open, for its replay finds the trip again.
THEOREM StatusStaysOpen == Spec => StatusClosedByResetOnly
<1>1. IInv /\ [Next]_vars => [persisted.open /\ ~persisted'.open => resets' > resets]_vars
  <2> SUFFICES ASSUME IInv, [Next]_vars, persisted.open, ~persisted'.open
               PROVE  resets' > resets
    OBVIOUS
  <2>1. CASE UNCHANGED persisted
    BY <2>1
  <2>2. CASE WritePersisted
    BY <2>2, WriteKeepsOpen
  <2>3. CASE ResetBreaker
    BY <2>3 DEF ResetBreaker, IInv, TypeOK
  <2> QED
    BY <2>1, <2>2, <2>3 DEF Next, Tick, StartRun, ReplayDay, ReadPersisted, NotifyTrip, FailExit,
       Recheck, GateEntries, FailEntry, RecordFailure, FinishRun, Crash, vars, storeVars
<1> QED
  BY <1>1, Inductive, PTL DEF Spec, StatusClosedByResetOnly

=============================================================================
