---------------------------- MODULE DailyBreaker ----------------------------
(***************************************************************************)
(* The breaker in the daily engine, across runs, crashes and the           *)
(* operator's resets: src/internal/engine/daily.go (RunOnce, reconstruct,  *)
(* persistBreakerState, recordOrderError) and the command `swingbot        *)
(* breaker reset` of src/cmd/swingbot/main.go, which is a process of its   *)
(* own that writes the same row of system_state.                           *)
(*                                                                         *)
(* Every run builds a fresh breaker and replays all days of candles into   *)
(* it.  What a day's replay yields, the equity at its close and the        *)
(* results of the trades it closed, is history: candles and decided        *)
(* proposals do not change once a day is over, so the same day yields the  *)
(* same again.  Day d opens at tick d * Day; its candle can be replayed    *)
(* from tick (d + 1) * Day on.                                             *)
(***************************************************************************)
EXTENDS Breaker

CONSTANTS
  Outcomes,      \* what a day may yield: [equity, closed (a sequence of results)]
  MaxClock,      \* bound: ticks
  MaxFailures,   \* bound: failed orders
  MaxResets,     \* bound: resets by the operator
  Faults         \* whether the process may crash and the store refuse a read or a write

VARIABLES
  clock, history,
  persisted,     \* system_state["breaker"]
  orderErrors,   \* system_state["order_errors"]
  processed,     \* day of the last equity snapshot
  pc,            \* where RunOnce is; "idle" between runs and after a crash
  runNow, asOf,  \* RunOnce's now and asOf
  replayed,      \* reconstruct's cursor: the last replayed day
  brk, errs,     \* daySnapshot's breaker and orderErrors
  wasOpen,       \* persistBreakerState's local
  announced,     \* whether a run has set out to announce the open breaker, since the last
                 \* reset and the last failed read of its status
  resets,
  dismissed,     \* what the last reset between two runs found persisted
  gateOpen,      \* Breaker.Open() as the last run's gate saw it, since the last reset
  failures,      \* times of all order errors that the store or this process has seen
  unsaved        \* how many of them, the latest, only this process

storeVars == <<persisted, orderErrors, processed>>
operatorVars == <<resets, dismissed>>
observerVars == <<announced, gateOpen, failures, unsaved>>
runVars == <<runNow, asOf, replayed, brk, errs, wasOpen>>
vars == <<clock, history, storeVars, pc, runVars, operatorVars, observerVars>>

ASSUME DailyBreakerAssumption ==
  /\ Outcomes \subseteq [equity : Nat, closed : Seq(Int)]
  /\ MaxClock \in Nat
  /\ MaxFailures \in Nat
  /\ MaxResets \in Nat
  /\ Faults \in BOOLEAN

ClosedOn(day) ==
  [i \in DOMAIN history[day].closed |->
     [closedAt |-> day * Day, pnl |-> history[day].closed[i]]]

Init ==
  /\ clock = Day
  /\ history = <<>>
  /\ persisted = Closed
  /\ orderErrors = {}
  /\ processed = 0
  /\ pc = "idle"
  /\ runNow = 0
  /\ asOf = 0
  /\ replayed = 0
  /\ brk = NewBreaker
  /\ errs = {}
  /\ wasOpen = FALSE
  /\ announced = FALSE
  /\ resets = 0
  /\ dismissed = Closed
  /\ gateOpen = FALSE
  /\ failures = <<>>
  /\ unsaved = 0

\* Time passes; at midnight a day is over and what its replay yields is settled.
Tick ==
  /\ clock < MaxClock
  /\ clock' = clock + 1
  /\ IF clock' % Day = 0
     THEN \E o \in Outcomes : history' = Append(history, o)
     ELSE UNCHANGED history
  /\ UNCHANGED <<storeVars, pc, runVars, operatorVars, observerVars>>

(***************************************************************************)
(* One daily run                                                           *)
(***************************************************************************)
\* Not before the first day is over, not twice for a day, and after midnight:
\* run_at comes minutes later, so that the exchange's data can settle.
StartRun ==
  /\ pc = "idle"
  /\ clock % Day # 0
  /\ processed < Len(history)
  /\ pc' = "replay"
  /\ runNow' = clock
  /\ asOf' = Len(history)
  /\ replayed' = 0
  /\ errs' = Last24h(orderErrors, clock)
  /\ brk' = [NewBreaker EXCEPT !.errors = Last24h(orderErrors, clock)]
  /\ UNCHANGED <<clock, history, storeVars, wasOpen, operatorVars, observerVars>>

\* Mutant: the day is checked before its trades are recorded.
ReplayDayCheckFirst ==
  LET day == replayed + 1
      checked == Check(brk, history[day].equity, day * Day)
  IN  /\ pc = "replay"
      /\ replayed < asOf
      /\ replayed' = day
      /\ brk' = RecordTrades(checked, ClosedOn(day))
      /\ UNCHANGED <<clock, history, storeVars, pc, runNow, asOf, errs, wasOpen,
                     operatorVars, observerVars>>

ReplayDay ==
  LET day == replayed + 1
  IN  /\ pc = "replay"
      /\ replayed < asOf
      /\ replayed' = day
      /\ brk' = Check(RecordTrades(brk, ClosedOn(day)), history[day].equity, day * Day)
      /\ UNCHANGED <<clock, history, storeVars, pc, runNow, asOf, errs, wasOpen,
                     operatorVars, observerVars>>

\* persistBreakerState reads the row, writes it, and then maybe notifies.  A read
\* that fails is not reported: the breaker then counts as closed so far.
ReadPersisted ==
  /\ pc = "replay"
  /\ replayed = asOf
  /\ \/ wasOpen' = persisted.open /\ UNCHANGED announced
     \/ Faults /\ wasOpen' = FALSE /\ announced' = FALSE
  /\ pc' = "write"
  /\ UNCHANGED <<clock, history, storeVars, runNow, asOf, replayed, brk, errs,
                 operatorVars, gateOpen, failures, unsaved>>

\* Mutant: an open breaker is announced whether or not it was open before.
WritePersistedAlways ==
  /\ pc = "write"
  /\ persisted' = brk.state
  /\ pc' = IF brk.state.open THEN "notify" ELSE "exits"
  /\ announced' = (announced \/ brk.state.open)
  /\ wasOpen' = FALSE
  /\ UNCHANGED <<clock, history, orderErrors, processed, runNow, asOf, replayed, brk, errs,
                 operatorVars, gateOpen, failures, unsaved>>

WritePersisted ==
  /\ pc = "write"
  /\ persisted' = brk.state
  /\ pc' = IF brk.state.open /\ ~wasOpen THEN "notify" ELSE "exits"
  /\ announced' = (announced \/ (brk.state.open /\ ~wasOpen))
  /\ wasOpen' = FALSE
  /\ UNCHANGED <<clock, history, orderErrors, processed, runNow, asOf, replayed, brk, errs,
                 operatorVars, gateOpen, failures, unsaved>>

NotifyTrip ==
  /\ pc = "notify"
  /\ pc' = "exits"
  /\ UNCHANGED <<clock, history, storeVars, runVars, operatorVars, observerVars>>

\* recordOrderError: in memory first; the write may fail, and is then made good
\* by the next one, which writes the whole list.
RecordFailure(at) ==
  LET e == [nr |-> Len(failures) + 1, at |-> at]
  IN  /\ Len(failures) < MaxFailures
      /\ brk' = RecordOrderError(brk, e)
      /\ errs' = Last24h(errs \union {e}, at)
      /\ failures' = Append(failures, at)
      /\ \/ orderErrors' = errs' /\ unsaved' = 0
         \/ Faults /\ UNCHANGED orderErrors /\ unsaved' = unsaved + 1
      /\ UNCHANGED <<clock, history, persisted, processed, pc, runNow, asOf, replayed, wasOpen,
                     operatorVars, announced, gateOpen>>

\* Step 8: an exit or stop order fails.
FailExit ==
  /\ pc = "exits"
  /\ RecordFailure(runNow)

\* Step 8's Check(now), before the entries are gated; nothing persists its result.
Recheck ==
  /\ pc = "exits"
  /\ brk' = Check(brk, history[asOf].equity, runNow)
  /\ pc' = "entries"
  /\ UNCHANGED <<clock, history, storeVars, runNow, asOf, replayed, errs, wasOpen,
                 operatorVars, observerVars>>

\* Step 9: the gate rejects every entry while the breaker is open.
GateEntries ==
  /\ pc = "entries"
  /\ gateOpen' = brk.state.open
  /\ pc' = "submit"
  /\ UNCHANGED <<clock, history, storeVars, runVars, operatorVars, announced, failures,
                 unsaved>>

\* Step 13: an approved entry fails, possibly hours later.
FailEntry ==
  /\ pc = "submit"
  /\ ~gateOpen
  /\ RecordFailure(clock)

\* Mutant: the replay cursor survives the run.
EndRunKeepingCursor ==
  /\ pc' = "idle"
  /\ failures' = SubSeq(failures, 1, Len(failures) - unsaved)
  /\ unsaved' = 0
  /\ runNow' = 0
  /\ asOf' = 0
  /\ brk' = NewBreaker
  /\ errs' = {}
  /\ wasOpen' = FALSE
  /\ UNCHANGED replayed

\* What only the process knew is gone when the run ends, well or not.
EndRun ==
  /\ pc' = "idle"
  /\ failures' = SubSeq(failures, 1, Len(failures) - unsaved)
  /\ unsaved' = 0
  /\ runNow' = 0
  /\ asOf' = 0
  /\ replayed' = 0
  /\ brk' = NewBreaker
  /\ errs' = {}
  /\ wasOpen' = FALSE

FinishRun ==
  /\ pc = "submit"
  /\ processed' = asOf
  /\ EndRun
  /\ UNCHANGED <<clock, history, persisted, orderErrors, operatorVars, announced, gateOpen>>

\* The process dies, or a step returns an error and the run is given up.
Crash ==
  /\ Faults
  /\ pc # "idle"
  /\ EndRun
  /\ UNCHANGED <<clock, history, storeVars, operatorVars, announced, gateOpen>>

(***************************************************************************)
(* swingbot breaker reset --confirm                                        *)
(***************************************************************************)
ResetBreaker ==
  /\ resets < MaxResets
  /\ persisted' = Closed
  /\ resets' = resets + 1
  /\ dismissed' = IF pc = "idle" THEN persisted ELSE dismissed
  /\ announced' = FALSE
  /\ gateOpen' = FALSE
  /\ UNCHANGED <<clock, history, orderErrors, processed, pc, runVars, failures, unsaved>>

Next ==
  \/ Tick
  \/ StartRun \/ ReplayDay \/ ReadPersisted \/ WritePersisted \/ NotifyTrip
  \/ FailExit \/ Recheck \/ GateEntries \/ FailEntry \/ FinishRun \/ Crash
  \/ ResetBreaker

Spec == Init /\ [][Next]_vars

-----------------------------------------------------------------------------
(***************************************************************************)
(* Properties                                                              *)
(***************************************************************************)
TypeOK ==
  /\ clock \in Nat
  /\ history \in Seq(Outcomes)
  /\ persisted \in State
  /\ orderErrors \subseteq OrderError
  /\ processed \in Nat
  /\ pc \in {"idle", "replay", "write", "notify", "exits", "entries", "submit"}
  /\ runNow \in Nat
  /\ asOf \in 0 .. Len(history)
  /\ replayed \in 0 .. asOf
  /\ brk \in BreakerType
  /\ errs \subseteq OrderError
  /\ wasOpen \in BOOLEAN
  /\ announced \in BOOLEAN
  /\ resets \in Nat
  /\ dismissed \in State
  /\ gateOpen \in BOOLEAN
  /\ failures \in Seq(Nat)
  /\ unsaved \in 0 .. Len(failures)

\* Which rule the history trips on a day, and the first day it trips one, stated
\* of the whole history at once where the breaker keeps running values.
DayReason(day) ==
  LET equity == history[day].equity
  IN  IF DrawdownTrips(Max({history[d].equity : d \in 1 .. day}), equity)
      THEN "max_drawdown"
      ELSE IF StreakTrips(FlattenSeq([d \in 1 .. day |-> ClosedOn(d)]))
      THEN "max_consecutive_losses"
      ELSE IF DailyLossTrips(ClosedOn(day), equity, day * Day)
      THEN "max_daily_loss"
      ELSE ""

FirstTrip(lastDay) ==
  LET days == {d \in 1 .. lastDay : DayReason(d) # ""}
  IN  IF days = {} THEN Closed
      ELSE [open |-> TRUE, reason |-> DayReason(Min(days)), at |-> Min(days) * Day]

\* Replaying from a fresh breaker finds the first trip of the history, in every
\* run, whatever order errors are stored: a restart neither forgets a trip nor
\* invents or redates one.
ReplayFindsFirstTrip == pc = "replay" => brk.state = FirstTrip(replayed)

\* The order errors of a log that nobody prunes.
AllErrors == {[nr |-> i, at |-> failures[i]] : i \in DOMAIN failures}

\* When the gate is about to judge entries and the breaker is closed, no day of
\* the history trips a rule, and the order errors of the trailing 24 hours,
\* counted in a log nobody prunes, are below the limit.  The three places that
\* prune, on load, on record and in Check, drop nothing that still counts, also
\* across crashes, restarts and failed writes.
GateMissesNothing ==
  pc = "entries" /\ ~brk.state.open =>
    /\ \A d \in 1 .. asOf : DayReason(d) = ""
    /\ ~ErrorsTrip(AllErrors, runNow)

\* A breaker that stays open is announced once, not on every run: a run sets out to
\* announce it only if, since the one that did so last, the operator has reset it or
\* a read of its status has failed.
OneAlertPerTrip == [][pc' = "notify" => pc = "notify" \/ ~announced]_vars

\* No run, restart or crash takes back a breaker the status shows open.
StatusClosedByResetOnly ==
  [][persisted.open /\ ~persisted'.open => resets' > resets]_vars

\* Violated.  breaker.go: "Once tripped, Breaker stays open until a caller
\* explicitly calls Reset: there is no automatic recovery".  A trip on order
\* errors lives only in the run whose step 8 found it.
StaysOpenUntilReset == [][gateOpen /\ ~gateOpen' => resets' > resets]_vars

\* Violated.  SPEC.md 6.5.3: the breaker closes by `swingbot breaker reset
\* --confirm`.  A trip that the operator has reset must not block the entries of
\* a later run on a day that trips no rule; but the replay finds it again, with
\* its old date, and nothing tells it of the reset.
ResetIsHonoured ==
  pc = "entries" /\ brk.state.open /\ DayReason(asOf) = "" /\ ~ErrorsTrip(AllErrors, runNow)
    => brk.state # dismissed

=============================================================================
