----------------------------- MODULE WalkForward -----------------------------
(***************************************************************************)
(* `swingbot walkforward` (src/cmd/swingbot/main.go) with what it runs of  *)
(* src/internal/backtest: walkforward.go, locked.go, sensitivity.go and    *)
(* thresholds.go.  The history is cut into a development and a locked      *)
(* segment; a command picks parameters on rolling training windows, tests  *)
(* them on the windows that follow, sweeps the parameters and grades the   *)
(* result against thresholds that the first command has written down.      *)
(*                                                                         *)
(* Commands run one after another and may die at any point; what the       *)
(* table system_state holds survives them.                                 *)
(***************************************************************************)
EXTENDS Backtest

CONSTANTS
  Histories,                      \* the candles there may be
  LockedStart,                    \* --locked-start
  TrainDays, TestDays, StepDays,  \* --train, --test, --step
  MarginDays,                     \* extra days of lookback before a window
  Configured,                     \* the configuration's parameters
  AxesChoices,                    \* --param: sequences of [name, values]
  MinTradesChoices,               \* --min-trades
  BullReturn, BearReturn,         \* of the benchmark, per mille
  PlateauDrop,                    \* per mille
  Benchmark,                      \* the symbol of BTC
  NoRecord,
  OtherBars,                      \* what the properties replace bars by
  MaxCommands                     \* bound

\* A --param flag.
Axis == [name : {"warm", "mult"}, values : Seq(Nat) \ {<<>>}]

ASSUME WalkForwardAssumption ==
  /\ {TrainDays, TestDays, StepDays, BullReturn, BearReturn} \subseteq Nat \ {0}
  /\ {MarginDays, LockedStart, PlateauDrop, MaxCommands} \subseteq Nat
  /\ MinTradesChoices \subseteq Nat \ {0}
  /\ NoRecord \notin MinTradesChoices
  /\ Configured \in Params
  /\ AxesChoices \subseteq Seq(Axis)
  /\ Benchmark \in Symbols
  /\ \A h \in Histories, s \in Symbols :
       /\ IsFiniteSet(DOMAIN h[s]) /\ DOMAIN h[s] \subseteq Nat \ {0}
       /\ \A d \in DOMAIN h[s] : h[s][d] \in DayBar
  /\ OtherBars \subseteq DayBar

\* --min-trades is for the development segment and --force-reveal-again for the locked one.
Commands ==
  [locked : {FALSE}, force : {FALSE}, min : MinTradesChoices, axes : AxesChoices]
    \union [locked : {TRUE}, force : BOOLEAN, min : {0}, axes : AxesChoices]

NoCommand == [locked |-> FALSE, force |-> FALSE, min |-> 0, axes |-> <<>>]

VARIABLES
  history,
  thresholds,   \* system_state["walkforward_thresholds"]: the least trade count or NoRecord
  lockedView,   \* system_state["walkforward_locked_view"]: the thresholds of that look or NoRecord
  pc,           \* where the running command is, "idle" between commands
  cmd,          \* its flags; min becomes the thresholds it grades by, 0 for zero ones
  warned,       \* it has said that the locked segment was looked at before
  chosen,       \* the parameters picked for the current window
  result,       \* WalkForwardResult so far: windows, equity, trades, cash
  points,       \* of the sensitivity sweep: [param, value, equity]
  report,       \* the last report written, or NoRecord (observer)
  looks,        \* reports on the locked segment without the warning (observer)
  commands      \* how many were started (bound)

storeVars == <<thresholds, lockedView>>
vars == <<history, storeVars, pc, cmd, warned, chosen, result, points, report, looks, commands>>

NoResult == [windows |-> <<>>, equity |-> <<>>, trades |-> <<>>, cash |-> InitialCash]

Init ==
  /\ history \in Histories
  /\ thresholds = NoRecord
  /\ lockedView = NoRecord
  /\ pc = "idle"
  /\ cmd = NoCommand
  /\ warned = FALSE
  /\ chosen = Configured
  /\ result = NoResult
  /\ points = <<>>
  /\ report = NoRecord
  /\ looks = 0
  /\ commands = 0

-----------------------------------------------------------------------------
(***************************************************************************)
(* Segments, windows and slices                                            *)
(***************************************************************************)
\* SplitDevLocked.
Segment(candles, locked) ==
  [s \in Symbols |->
     Restrict(candles[s], {d \in DOMAIN candles[s] : locked <=> d >= LockedStart})]

\* Mutant: training ends a day late.
WindowAtOverlap(start) ==
  [trainStart |-> start, trainEnd |-> start + TrainDays + 1,
   testStart |-> start + TrainDays, testEnd |-> start + TrainDays + TestDays]

\* Every end is exclusive.
WindowAt(start) ==
  [trainStart |-> start, trainEnd |-> start + TrainDays,
   testStart |-> start + TrainDays, testEnd |-> start + TrainDays + TestDays]

\* BuildWindows: those whose test ends by the last day, in steps.
BuildWindows(calendar) ==
  LET room == Max(calendar) - Min(calendar) - TrainDays - TestDays
  IN  IF calendar = {} \/ room < 0
      THEN <<>>
      ELSE [k \in 1 .. room \div StepDays + 1 |-> WindowAt(Min(calendar) + (k - 1) * StepDays)]

\* Mutant: the lookback is the warm-up and no more.
LookbackStartExact(from, warm) == from - warm

LookbackStart(from, warm) == from - (warm + MarginDays)

SliceForWindow(candles, from, to, warm) ==
  [s \in Symbols |->
     Restrict(candles[s], {d \in DOMAIN candles[s] : LookbackStart(from, warm) <= d /\ d < to})]

\* The elements of a sequence that lie in S, in order.
Filter(seq, S) ==
  LET kept[n \in 0 .. Len(seq)] ==
        IF n = 0 THEN <<>>
        ELSE IF seq[n] \in S THEN Append(kept[n - 1], seq[n]) ELSE kept[n - 1]
  IN  kept[Len(seq)]

\* What a run has in [from, to).
Inside(run, from, to) ==
  [equity |-> Filter(run.equity, {e \in Range(run.equity) : from <= e.day /\ e.day < to}),
   trades |-> Filter(run.trades, {t \in Range(run.trades) : from <= t.entered /\ t.entered < to})]

\* runSubBacktest: a run with a breaker of its own.
SubRun(p, candles, from, to, cash) ==
  Inside(Run(p, SliceForWindow(candles, from, to, p.warm), cash, NewBreaker), from, to)

SubRunUsable(p, candles, from, to) == Usable(p, SliceForWindow(candles, from, to, p.warm))

-----------------------------------------------------------------------------
(***************************************************************************)
(* Parameters                                                              *)
(***************************************************************************)
\* paramSetStrategyFactory: the named fields override the configuration's.
NewStrategy(paramSet) ==
  [f \in DOMAIN Configured |-> IF f \in DOMAIN paramSet THEN paramSet[f] ELSE Configured[f]]

NoParams == [f \in {} |-> 0]

With(paramSet, name, value) ==
  [f \in DOMAIN paramSet \union {name} |-> IF f = name THEN value ELSE paramSet[f]]

Crossed(grid, axis) ==
  FlattenSeq([i \in DOMAIN grid |->
                [j \in DOMAIN axis.values |-> With(grid[i], axis.name, axis.values[j])]])

\* CartesianParamGrid; without axes there is one point, the configuration's.
ParamGrid(axes) ==
  LET grid[i \in 0 .. Len(axes)] == IF i = 0 THEN <<NoParams>> ELSE Crossed(grid[i - 1], axes[i])
  IN  grid[Len(axes)]

\* The median of every axis, the values being sorted.
BaseParams(axes) ==
  FoldLeft(LAMBDA base, axis : With(base, axis.name, axis.values[Len(axis.values) \div 2 + 1]),
           NoParams, axes)

Better(best, p, score) ==
  IF best.found /\ best.score >= score
  THEN best
  ELSE [found |-> TRUE, score |-> score, params |-> p]

\* The first of the best of the points that have a score.
BestOf(grid, score) ==
  LET best[i \in 0 .. Len(grid)] ==
        IF i = 0 THEN [found |-> FALSE, score |-> 0, params |-> Configured]
        ELSE IF i \in DOMAIN score THEN Better(best[i - 1], NewStrategy(grid[i]), score[i])
        ELSE best[i - 1]
  IN  best[Len(grid)]

\* selectParams: a point has a score if its training run is usable.
SelectParams(candles, axes, w) ==
  LET grid == ParamGrid(axes)
      usable == {i \in DOMAIN grid :
                   SubRunUsable(NewStrategy(grid[i]), candles, w.trainStart, w.trainEnd)}
      score == [i \in usable |-> DefaultObjective(
                  SubRun(NewStrategy(grid[i]), candles, w.trainStart, w.trainEnd, InitialCash).equity)]
  IN  BestOf(grid, score)

ClassifyRegime(btcReturn) ==
  CASE btcReturn >= BullReturn -> "bull"
    [] btcReturn <= -BearReturn -> "bear"
    [] OTHER -> "sideways"

-----------------------------------------------------------------------------
(***************************************************************************)
(* The command up to its segment                                           *)
(***************************************************************************)
StartCommand(c) ==
  /\ pc = "idle"
  /\ commands < MaxCommands
  /\ commands' = commands + 1
  /\ cmd' = c
  /\ pc' = IF c.locked THEN "recall" ELSE "decide"
  /\ result' = NoResult
  /\ UNCHANGED <<history, storeVars, warned, chosen, points, report, looks>>

\* Everything a command had in memory is gone.
Idle ==
  /\ pc' = "idle"
  /\ cmd' = NoCommand
  /\ warned' = FALSE
  /\ chosen' = Configured
  /\ result' = NoResult
  /\ points' = <<>>

\* The command returns an error, or its process dies.
Abort ==
  /\ pc # "idle"
  /\ Idle
  /\ UNCHANGED <<history, storeVars, report, looks, commands>>

\* The two rows of system_state, each written by one statement.
HaveThresholds == thresholds # NoRecord

SaveThresholds(min) == thresholds' = min

HaveView == lockedView # NoRecord

SaveView(min) == lockedView' = min

\* On the development segment the first command writes the thresholds.  The others look
\* whether there are some and then read them again; the error of that second read is
\* dropped and leaves zero thresholds.
DecideThresholds ==
  /\ pc = "decide"
  /\ IF HaveThresholds THEN UNCHANGED thresholds ELSE SaveThresholds(cmd.min)
  /\ \/ cmd' = [cmd EXCEPT !.min = thresholds']
     \/ HaveThresholds /\ cmd' = [cmd EXCEPT !.min = 0]
  /\ pc' = "segment"
  /\ UNCHANGED <<history, lockedView, warned, chosen, result, points, report, looks, commands>>

\* The locked segment needs recorded thresholds, and a read that fails ends the command.
RecallThresholds ==
  /\ pc = "recall"
  /\ HaveThresholds
  /\ cmd' = [cmd EXCEPT !.min = thresholds]
  /\ pc' = "view"
  /\ UNCHANGED <<history, storeVars, warned, chosen, result, points, report, looks, commands>>

\* Mutant: --force-reveal-again passes without a record.
ViewLockedSegmentForced ==
  /\ pc = "view"
  /\ HaveView => cmd.force
  /\ IF HaveView \/ cmd.force THEN UNCHANGED lockedView ELSE SaveView(cmd.min)
  /\ warned' = HaveView
  /\ pc' = "segment"
  /\ UNCHANGED <<history, thresholds, cmd, chosen, result, points, report, looks, commands>>

\* The look is recorded before anything is shown; a later one is refused, or warned about.
ViewLockedSegment ==
  /\ pc = "view"
  /\ HaveView => cmd.force
  /\ IF HaveView THEN UNCHANGED lockedView ELSE SaveView(cmd.min)
  /\ warned' = HaveView
  /\ pc' = "segment"
  /\ UNCHANGED <<history, thresholds, cmd, chosen, result, points, report, looks, commands>>

-----------------------------------------------------------------------------
(***************************************************************************)
(* RunWalkForward, the sweep and the verdict                               *)
(***************************************************************************)
Candles == Segment(history, cmd.locked)

Windows == BuildWindows(Calendar(Candles))

Window == Windows[Len(result.windows) + 1]

\* Mutant: a segment too short for a window is gone on with.
LaidOutAlways == pc = "segment"

\* An empty segment and one too short for a single window are errors.
LaidOut == pc = "segment" /\ Windows # <<>>

Begin ==
  /\ LaidOut
  /\ pc' = "train"
  /\ UNCHANGED <<history, storeVars, cmd, warned, chosen, result, points, report, looks, commands>>

Train ==
  LET best == SelectParams(Candles, cmd.axes, Window)
  IN  /\ pc = "train"
      /\ best.found
      /\ chosen' = best.params
      /\ pc' = "test"
      /\ UNCHANGED <<history, storeVars, cmd, warned, result, points, report, looks, commands>>

WindowResult(equity, btc) ==
  [params |-> chosen, equity |-> equity, btc |-> btc,
   regime |-> IF Len(btc) > 1 THEN ClassifyRegime(TotalReturn(btc)) ELSE "sideways"]

BenchmarkCurve(equity) ==
  BuyAndHoldCurve(Candles[Benchmark], [i \in DOMAIN equity |-> equity[i].day], result.cash)

\* The next window starts with the equity that this one ends with.
Chained(test) ==
  [windows |-> Append(result.windows, WindowResult(test.equity, BenchmarkCurve(test.equity))),
   equity |-> result.equity \o test.equity,
   trades |-> result.trades \o test.trades,
   cash |-> IF test.equity = <<>> THEN result.cash ELSE Last(test.equity).equity]

Test ==
  /\ pc = "test"
  /\ SubRunUsable(chosen, Candles, Window.testStart, Window.testEnd)
  /\ result.cash > 0
  /\ result' = Chained(SubRun(chosen, Candles, Window.testStart, Window.testEnd, result.cash))
  /\ pc' = IF Len(result'.windows) < Len(Windows) THEN "train" ELSE "sweep"
  /\ UNCHANGED <<history, storeVars, cmd, warned, chosen, points, report, looks, commands>>

\* Each value of each axis, the other parameters at their base.
SweptParams(axes) ==
  FlattenSeq([i \in DOMAIN axes |->
                [j \in DOMAIN axes[i].values |->
                   [param |-> axes[i].name, value |-> axes[i].values[j],
                    strategy |-> NewStrategy(With(BaseParams(axes), axes[i].name, axes[i].values[j]))]]])

\* ParamSensitivitySweep: one run per point over the whole segment, a point without a
\* usable run left out; the breaker of one run is handed on to the next.
Swept(candles, axes) ==
  LET step(sweep, point) ==
        LET run == Run(point.strategy, candles, InitialCash, sweep.brk)
        IN  IF ~Usable(point.strategy, candles)
            THEN sweep
            ELSE [brk |-> run.brk,
                  points |-> Append(sweep.points,
                                    [param |-> point.param, value |-> point.value, equity |-> run.equity])]
  IN  FoldLeft(step, [brk |-> NewBreaker, points |-> <<>>], SweptParams(axes)).points

Sweep ==
  /\ pc = "sweep"
  /\ points' = Swept(Candles, cmd.axes)
  /\ pc' = "verdict"
  /\ UNCHANGED <<history, storeVars, cmd, warned, chosen, result, report, looks, commands>>

\* DetectPlateau over the points of one parameter, in the order of its values.
IsPlateau(scores) ==
  LET best == CHOOSE i \in DOMAIN scores :
                /\ \A j \in DOMAIN scores : scores[i] >= scores[j]
                /\ \A j \in 1 .. i - 1 : scores[j] < scores[i]
      beside == {best - 1, best + 1} \intersect DOMAIN scores
      drop == Cardinality(beside) * scores[best] - MapThenSumSet(LAMBDA i : scores[i], beside)
      size == IF scores[best] < 0 THEN -scores[best] ELSE scores[best]
  IN  /\ Len(scores) >= 3
      /\ size = 0 \/ 1000 * drop <= PlateauDrop * Cardinality(beside) * size

GroupByParam(param) == SelectSeq(points, LAMBDA q : q.param = param)

\* Every swept parameter has a plateau, and there is one.  The score is a return here
\* and Sharpe's ratio in the code.
ParamsHavePlateaus ==
  /\ cmd.axes # <<>>
  /\ \A i \in DOMAIN cmd.axes :
       LET own == GroupByParam(cmd.axes[i].name)
       IN  IsPlateau([k \in DOMAIN own |-> TotalReturn(own[k].equity)])

\* beatsBenchmarkInAnyRegime.
BeatsBenchmark(windows) ==
  \E regime \in {"bull", "bear", "sideways"} :
    LET graded == {i \in DOMAIN windows : /\ windows[i].regime = regime
                                          /\ windows[i].equity # <<>> /\ windows[i].btc # <<>>}
    IN  MapThenSumSet(LAMBDA i : TotalReturn(windows[i].equity), graded)
          > MapThenSumSet(LAMBDA i : TotalReturn(windows[i].btc), graded)

\* The five criteria; positive says whether the run at twice the costs ends above its start.
MeetsCriteria(min, positive) ==
  /\ Len(result.trades) >= min
  /\ BeatsBenchmark(result.windows)
  /\ MaxFall(result.equity) < MaxFall(FlattenSeq([i \in DOMAIN result.windows |-> result.windows[i].btc]))
  /\ positive
  /\ ParamsHavePlateaus

\* EvaluateThresholds: zero thresholds require none of them.
Passed(min, positive) == min = 0 \/ MeetsCriteria(min, positive)

\* The observer also has what the recorded thresholds say.
Report(positive) ==
  /\ pc = "verdict"
  /\ report' = [locked |-> cmd.locked, min |-> cmd.min, passed |-> Passed(cmd.min, positive),
                earned |-> MeetsCriteria(thresholds, positive)]
  /\ looks' = IF cmd.locked /\ ~warned THEN looks + 1 ELSE looks
  /\ Idle
  /\ UNCHANGED <<history, storeVars, commands>>

-----------------------------------------------------------------------------
Next ==
  \/ \E c \in Commands : StartCommand(c)
  \/ Abort
  \/ DecideThresholds
  \/ RecallThresholds
  \/ ViewLockedSegment
  \/ Begin
  \/ Train
  \/ Test
  \/ Sweep
  \/ \E positive \in BOOLEAN : Report(positive)

Spec == Init /\ [][Next]_vars

-----------------------------------------------------------------------------
(***************************************************************************)
(* Properties                                                              *)
(***************************************************************************)
\* Also: no window is trained, tested or swept that does not exist.
TypeOK ==
  /\ history \in Histories
  /\ {thresholds, lockedView} \subseteq MinTradesChoices \union {NoRecord}
  /\ pc \in {"idle", "decide", "recall", "view", "segment", "train", "test", "sweep", "verdict"}
  /\ cmd \in [locked : BOOLEAN, force : BOOLEAN, min : MinTradesChoices \union {0},
              axes : AxesChoices \union {<<>>}]
  /\ warned \in BOOLEAN
  /\ DOMAIN chosen = DOMAIN Configured
  /\ result.cash \in Int
  /\ pc \in {"train", "test"} => Len(result.windows) < Len(Windows)
  /\ pc \in {"sweep", "verdict"} => Len(result.windows) = Len(Windows) /\ Windows # <<>>
  /\ {looks, commands} \subseteq 0 .. MaxCommands

\* What the candles from a day on are replaced by, the days staying the same.
Altered(candles, day, bar) ==
  [s \in Symbols |-> [d \in DOMAIN candles[s] |-> IF d < day THEN candles[s][d] ELSE bar]]

\* The combined curve as it was before the last window.
Before == SubSeq(result.equity, 1,
                 Len(result.equity) - Len(result.windows[Len(result.windows)].equity))

\* Parameters are picked and tests are run without a look ahead: with other prices from
\* the start of the test on, the same parameters would have been picked, and with other
\* prices from the next day on, every day of the test would have ended the same.
NoPeek ==
  LET k == Len(result.windows)
      w == Windows[k]
      cash == IF Before = <<>> THEN InitialCash ELSE Last(Before).equity
      upTo(equity, day) == {e \in Range(equity) : e.day <= day}
  IN  /\ pc = "test" =>
           \A bar \in OtherBars :
             SelectParams(Altered(Candles, Window.testStart, bar), cmd.axes, Window).params = chosen
      /\ pc \in {"train", "sweep"} /\ k > 0 =>
           \A bar \in OtherBars, day \in w.testStart .. w.testEnd - 2 :
             upTo(SubRun(chosen, Altered(Candles, day + 1, bar), w.testStart, w.testEnd, cash).equity, day)
               = upTo(result.windows[k].equity, day)

\* The days of the segment on which a window tests.
Tested(k) == Calendar(Candles) \intersect (Windows[k].testStart .. Windows[k].testEnd - 1)

\* The segment has enough days before the test for the warm-up of what was picked for it.
Covered(k) ==
  LET warm == result.windows[k].params.warm
      from == Windows[k].testStart - (warm + MarginDays)
  IN  Cardinality(Calendar(Candles) \intersect (from .. Windows[k].testStart - 1)) > warm

\* For tests that do not overlap, the combined curve goes through days of the test periods
\* in order and once, through all of them where the warm-ups are covered; and every trade
\* it counts was entered in one, no two in one symbol at the same time.
OneCurve ==
  pc = "sweep" /\ TestDays <= StepDays =>
    LET day(i) == result.equity[i].day
        tested == UNION {Tested(k) : k \in DOMAIN Windows}
        trades == result.trades
    IN  /\ \A i, j \in DOMAIN result.equity : i < j => day(i) < day(j)
        /\ {day(i) : i \in DOMAIN result.equity} \subseteq tested
        /\ \A k \in DOMAIN Windows : Covered(k) => Tested(k) \subseteq {day(i) : i \in DOMAIN result.equity}
        /\ \A i \in DOMAIN trades : trades[i].entered \in tested
        /\ \A i, j \in DOMAIN trades :
             i < j /\ trades[i].symbol = trades[j].symbol => trades[i].left <= trades[j].entered

\* The locked segment is shown once without the warning, whatever commands die; a report
\* on it is graded by the thresholds written down before the first report, which the
\* record of the look repeats, and passes only if it meets all of them (thresholds.go:12-14:
\* none is optional once recorded).  A report on the development segment is graded by them
\* or, after a failed read, by none.
LookedOnce ==
  /\ looks <= 1
  /\ looks > 0 => lockedView # NoRecord
  /\ report # NoRecord =>
       IF report.locked
       THEN /\ report.min = thresholds /\ lockedView = thresholds
            /\ report.passed <=> report.earned
       ELSE /\ report.min \in {thresholds, 0} /\ thresholds # NoRecord
            /\ report.earned => report.passed

\* A sweep moves one parameter and nothing else (sensitivity.go:42-44): each of its points
\* is what a run of its own would give.
SweepIsIndependent ==
  pc = "verdict" =>
    \A i \in DOMAIN points :
      LET p == NewStrategy(With(BaseParams(cmd.axes), points[i].param, points[i].value))
      IN  points[i].equity = Run(p, Candles, InitialCash, NewBreaker).equity

=============================================================================
