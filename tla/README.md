# swingbot in TLA+

swingbot is a daily swing-trading bot for crypto spot markets: once a day it
updates its candles, lets a strategy propose entries and exits, asks the
operator for approval over Telegram and submits to a broker, which in paper
mode is simulated. Candles arrive once a day, processes are restarted, answers
come late, and the whole trading state is rebuilt from a database on every
start. That is where the modules here look.

Contents: [inventory](#the-system), [modules](#modules),
[runs](#runs), [findings](#what-the-violation-runs-show),
[proofs](#proofs), [limits](#what-is-not-modelled), [plan](#plan).

## The system

| Component | Code | State | Operations | Hard behaviour |
|---|---|---|---|---|
| Paper broker | `internal/broker/paper.go` | positions, queued market orders, reserved stops, order records, closed trades, cash, cursor per symbol | `Submit`, `Cancel`, `Advance` (fill at the open, raise high-water marks, check stops) | orders of one call interact days later; data gaps; exact price boundaries |
| Circuit breaker | `internal/risk/breaker.go` | open/reason/at, trades, order errors, peak equity | `RecordTrade`, `RecordOrderError`, `Check`, `Reset` | time windows, latch |
| Daily engine | `internal/engine/daily.go` | none of its own between runs; `daySnapshot` inside one | `RunOnce`, `ResumePending`, `reconstruct`, `awaitDecisions` | replay on every start, crash between any two steps, deadline against answer |
| Scheduler | `internal/engine/scheduler.go` | none | `Run`, `NextRunAt`, `sleepUntil` | a failed day is skipped over; local time against UTC days |
| Telegram | `internal/notify` | channel of decisions, capacity 32 | `ProposeTrade`, `handleDecision`, `Notify` | repeated, late, stale answers; a full channel |
| Store | `internal/store` | proposals, system_state, equity snapshots, trades, candles | SQL statements, each atomic | the only thing that survives |
| Gate and sizer | `internal/risk/gate.go`, `sizer.go` | none | `Evaluate`, `Size` | limits checked per signal against one snapshot |
| Exchange client | `internal/exchange` | the rate limiter's bucket | `FetchOHLCV`, `CreateOrder`, ... with retries | a lost answer to an order that was placed; callers that share a bucket |
| Data feed | `internal/datafeed` | none but the tables `markets` and `candles` | `SyncMarkets`, `Backfill`, `Update`, `Verify` | interruption between pages, bars that are late, open or corrected, two processes at once |
| Strategies, universe, indicators | `internal/strategy`, `universe`, `indicator` | none | `Evaluate`, `Build` | warm-up, missing bars, a held symbol that leaves the universe |
| Backtest | `internal/backtest` | the broker it drives | `Run`; walk-forward: windows, parameter choice, sweep, locked segment, verdict | look-ahead, state shared by runs that should be independent, a look that can be had only once |
| Panel, reports, CLI, config | `internal/web`, `cmd`, `internal/config` | none; `walkforward` keeps two rows of `system_state` | read and render; `breaker reset`, `data update`, `walkforward` write | two processes on one database, commands that die half-way |

How they interact. The daemon calls `ResumePending` once and then `RunOnce`
every day. Both go through `reconstruct`: a fresh broker and a fresh breaker
replay every day of candles, and after each day the proposals that were decided
for it. `RunOnce` then submits exits at once, writes entries as `PENDING`
proposals, waits in `awaitDecisions` on a Go channel that the Telegram goroutine
fills, submits what was approved and writes the equity snapshot that marks the
day as processed. `swingbot breaker reset` is a second process that writes one
row of the same database. `swingbot data update` and `data backfill` write the
candle tables beside the daemon. The backtest runs the same broker, gate,
strategies and universe over stored candles, without a store, and
`swingbot walkforward` runs it many times over.

What makes each component correct:

- broker: what is queued, recorded, held, traded and in cash tells one story;
  nothing settles on the day it was ordered; a reached stop closes the position
  and never at a better price than the market offered;
- breaker: it opens on the first day a rule holds, in every replay alike, and
  only the operator closes it;
- proposals: an entry is submitted only with consent, each proposal is decided
  once, none is forgotten, and the broker in memory is the one a restart
  rebuilds;
- gate: it stops entries and never exits;
- exchange client: a retried order is placed at most once, a refusal is final,
  a call returns, and the request budget holds for all callers together;
- data feed: no hole that the exchange does not have, an interrupted backfill
  resumes, a whole update leaves the table as the exchange is and a second one
  changes nothing;
- the two engines: from the same candles and with every proposal approved they
  build the same book, and every position keeps a stop that only rises;
- walk-forward: no look ahead, one out-of-sample curve that repeats no day and
  leaves none out but those without a warm-up, and one look at the locked segment,
  by thresholds written down before.

The hazards this list comes from are in `PROJECT.json`, each with its line and
the properties that cover it.

## Modules

| Module | Models | Kind |
|---|---|---|
| `PositionBook` | what a broker promises of a symbol's position: flat, entering, open, exiting, each step on a later day than the one before | abstract specification |
| `PaperBroker` | `internal/broker/paper.go` | implements `PositionBook` |
| `PaperBrokerProofs` | | theorems about `PaperBroker` |
| `LibraryProofs` | | lemmas about operators of the community modules (sums over sets, joined sequences, extremes) and induction over the naturals, used by five modules of theorems |
| `Breaker` | `internal/risk/breaker.go`, as a value and operators | used by `DailyBreaker` |
| `DailyBreaker` | the breaker's part of `RunOnce`, its rows in `system_state`, `breaker reset` | state machine |
| `DailyBreakerProofs` | | theorems about `DailyBreaker` |
| `ProposalLife` | what the engine promises about a proposal | abstract specification |
| `Proposals` | the proposals' part of `RunOnce`, `ResumePending`, the proposals table, the decision channel | implements `ProposalLife` |
| `ProposalsProofs` | | theorems about `Proposals` |
| `IdempotentOrder` | what `Exchange.CreateOrder` promises: one order per client ID | abstract specification |
| `OrderPlacement` | `CreateOrder`, `FetchOrder`, `doRequestWithRetry` of `internal/exchange/ccxt.go`, and the exchange | implements `IdempotentOrder` |
| `RateLimiter` | `internal/exchange/ratelimit.go` | actions used by `OrderPlacement` |
| `OrderPlacementProofs` | | theorems about `OrderPlacement` and `RateLimiter` |
| `CandleFeed` | `internal/datafeed` with the tables `markets` and `candles` | state machine |
| `CandleFeedProofs` | | theorems about `CandleFeed` |
| `RiskGate` | `internal/risk/gate.go`, `sizer.go` | operators |
| `Strategies` | `internal/strategy/trendfollow.go`, `momentum.go` | operators |
| `Universe` | `internal/universe` | operators |
| `PaperBook` | the paper broker a day at a time, as a value | operators |
| `TradingDays` | `backtest.Run` and `RunOnce` side by side; composes the four above | state machine |
| `TradingDaysProofs` | | theorems about `TradingDays` |
| `Backtest` | `backtest.Run` and its metrics as a function of candles; composes `RiskGate`, `Breaker`, `Strategies`, `PaperBook` | operators |
| `WalkForward` | `swingbot walkforward`: `walkforward.go`, `locked.go`, `sensitivity.go`, `thresholds.go` | state machine over `Backtest` |
| `WalkForwardProofs` | | theorems about `WalkForward` |
| `MC...` | values for the constants | for TLC |

Definitions named `...Keeping`, `...Unchecked`, `Less...` and so on, with a
comment that begins "Mutant:", are broken variants of the definition next to
them. No specification uses them; `PROJECT.json` pairs each with the property
that finds it.

**PaperBroker.** The variables are the fields of the Go struct. `Advance` is one
call in the code and a sequence of steps here, one for each iteration of its
loops; `phase` says where it is and keeps the caller out until it returns. The
order of the three parts (fill, raise, stop), the retained orders over data
gaps, `justOpened` and the duplicate test on `ClientOrderID` are the code's.
Prices are integers counted in units in which slippage and fees are exact, so
cash is conserved exactly where the code rounds `float64`.

**DailyBreaker.** One run is a sequence of steps: load the order errors, replay
day by day, read the persisted state, write it, notify, run the exits, check
again, gate the entries, submit. Between any two of them the process may die,
the operator may reset, and time may pass. What a day of history yields, the
equity at its close and the results of the trades it closed, is chosen once when
the day ends and then read by every replay. That a replayed day yields the same
again is what `ReplayIsStable` of `Proposals` checks. Order errors are sets,
as only how many of them fall into a window counts, and numbered, as two may have
the same time. A read of the persisted state that fails, or a row that does not decode, is
swallowed by the code and counts as closed (`daily.go:766-771`); `ReadPersisted`
has that case, and an open breaker is then announced once more. All other reads
that fail end the run, which is `Crash`. `failures` is the log of all order errors,
which nothing prunes; `announced`, `resets`, `dismissed` and `gateOpen` only
observe.

**Proposals.** The database is `loaded`, `proposals` and `processed`; everything
else is lost in `Crash`. `book` reduces the broker to what proposals see of it,
and `Replay` is `reconstruct`'s loop as a recursive function over days. A row knows
whether it has a usable stop, as `submitApproved` queues the entry before it looks:
without one the row becomes `FAILED` and the order stays in the book of this run
(`daily.go:547-557`, `:1004-1009`). A position entered without a stop (`bare`) does
not fall out of the book. Ticks
and taps happen while the engine waits, not between two steps that take
milliseconds. `GiveUp` is a run whose error `Run` reports and survives.
`gaveUp` and `seen` only observe.

**OrderPlacement.** `pc[o]` is where `CreateOrder` is for a client order ID:
waiting to send the POST, waiting for its answer, looking the order up, backing
off. A POST without a usable answer is ambiguous; the code then looks the order
up by its ID, sends again when it is not found and gives up when it cannot
tell. What the exchange does is external and free: a request may travel on after
its client has stopped waiting, arrive or vanish. The code relies on one of two
things, so `strict` is either (a strict exchange refuses an ID it has seen) or
not, and then nothing arrives after the client has given up on it. Contexts are
cancelled, the process crashes, and callers call again with the same ID. Every
request first takes a token from the shared `RateLimiter`; the bucket is refilled
lazily by whoever asks, in parts of a token per tick. `sent[k]`, the tokens
spent since `k` ticks ago, only observes.

**CandleFeed.** Runners are processes: the daemon, which updates, and a command,
which updates or backfills. A run is the code's sequence of requests and writes,
each its own step: the markets one by one, the delistings, then per symbol the
pages, each stored in one transaction. Time is counted in bars. The exchange is
external: it closes bars late or malformed or not at all, corrects them,
pauses, delists and relists symbols. `Stop` is a failed request or write, or the
death of the process. `passed` (bars a run has seen absent or has refused, or
that lie before its horizon), `quiet` and `fresh` (nothing has changed since)
only observe; they say what the properties may demand.

**TradingDays.** Both engines get the same day of candles, one after the other,
each with a book of its own. The gate, the strategy, the universe and the book
are operators, as they are pure in the code; what differs, and what the module is
about, is the order and the inputs of the two callers: the backtest submits at
once, the live engine after the operator's answer; one gates with today as "now",
the other with tomorrow; one builds its universe from what it has collected, the
other from the store. `LiveSubmit` is what the next reconstruction finds of the
approved entries: those without a usable stop have become `FAILED` and are left out,
but for the ones (`kept`) whose row still reads `APPROVED` or `SUBMITTED`, because a
restarted process did the waiting or the write of `FAILED` was refused. `apart`
collects which of the known differences have happened, and `OneCodePath` holds up to the first of them. What the indicators
make of the candles is part of the bar. Breaker and operator are free here.

**Backtest, WalkForward.** A run of the backtest is a function from candles,
parameters, starting cash and a breaker to equity, trades and the breaker
afterwards; that a breaker goes in and comes out is the point. It goes from day to
day, and a day is one of the warm-up or an evaluated one by its place in the
calendar (`RunDay`). One `swingbot
walkforward` command is a sequence of steps with the writes to `system_state`
between them; `Abort` is an error return or the death of the process at any of
them. Commands run one after another. A command on the development segment reads the
thresholds twice, to see whether there are any and to use them, and drops the error
of the second read (`main.go:985`); it then grades by zero thresholds, which every
result meets (`min` is 0), and `DecideThresholds` has that case. What the recorded
thresholds say of the same result is in `earned`. How the five criteria are computed
is translated (`MeetsCriteria`), but no property restates it: `LookedOnce` asks which
thresholds a verdict was made by and that a locked one needs all five. Simplified: one symbol and the
trend-following strategy, fills without costs (whether the run at twice the costs
still ends positive is a free input), returns per mille, the period of a window
taken as the year of the Calmar ratio, a return for the score of the plateau where
the code has Sharpe's ratio. The parsing of flags and the limit of 500 grid
points return before anything is read and are left out.

## Runs

| Run | Checks | Instance | Why it is enough |
|---|---|---|---|
| `paper_broker` | `TypeOK`, `LiveOrdersMatchPositions`, `OrdersAccountForTrades`, `CashMatchesTrades`, `StopsHonoured`, `NoOptimisticExit`, `ImplementsPositionBook` | 2 symbols, 4 order IDs (symmetric), 3 days, bars that pass, touch and gap through the one stop level, or are missing | an entry, its exit or stop and a second entry fit into the days, next to another symbol's orders; every boundary of the stop rule has a bar |
| `daily_breaker` | `TypeOK`, `ReplayFindsFirstTrip`, `GateMissesNothing`, `OneAlertPerTrip`, `StatusClosedByResetOnly` | 4 days of 2 ticks, 3 order errors against a limit of 2, 1 reset, crashes, refused writes and failed reads | each rule trips on some day, also exactly at its limit; errors fall on both sides of the 24-hour window; a trip is seen by later runs, and its status is read well and not, before and after a reset |
| `breaker_recovers` | `StaysOpenUntilReset` violated | the same, without faults | |
| `breaker_reset` | `ResetIsHonoured` violated | the same, without faults | |
| `proposals` | `TypeOK`, `NoProposalForgotten`, `BookSurvivesRestart`, `FilledMeansFilled`, `ReplayIsStable`, `ImplementsProposalLife`, `AwaitEnds` | 2 symbols, entries of one with a stop and of the other without, 3 proposals, 3 daily runs of 2 ticks each, 2 answers, a channel of 1, crashes and refused writes anywhere | an entry is proposed, filled on the next day and exited on the one after, beside a rival for the same symbol or a second symbol, whose row fails while its order is queued; answers come twice, late, and for a proposal of an earlier run |
| `proposals_late` | `NoLateApproval` violated | the same, without faults | |
| `order_placement` | `TypeOK`, `AtMostOneOrder`, `RefusedMeansAbsent`, `BudgetRespected`, `ImplementsIdempotentOrder`, `CallReturns` | 2 client IDs, one of them called for twice, 1 retry, a bucket of 1 token that refills in 2 ticks, both kinds of exchange | the second attempt and the second call each meet a first one still travelling; two callers compete for one token, and a fraction of a token is carried over |
| `candle_feed` | `TypeOK`, `NoUnexplainedHole`, `UpdateCatchesUp`, `VerifyPasses`, `UpdateIsIdempotent`, `RunEnds` | 1 symbol, 2 runners, pages of 2 bars, a rewind of 2, a horizon of 4, 5 bars, 3 runs, 1 fault | the horizon takes two full pages and an empty one; a run is interrupted, another beside it and a third afterwards; the clock ticks between page and write. Symbols share nothing but the order in which they are read |
| `trading_days` | `TypeOK`, `OneCodePath`, `Protected`, `StopOnlyRises`, `ExitsAreNotGated` | both strategies, 2 symbols, 3 days of history and 4 free ones, 6 combinations of bars: breakout, rally, crash, a wild bar whose stop would be negative, no bar, no volume | entry, fill, raise, exit and cooldown need four days; the symbols compete for cash, exposure and rank; each of the known differences happens but `empty`, which needs a day on which only symbols in their warm-up trade |
| `held_is_managed` | `HeldIsManaged` violated | the same, one day less | |
| `walk_forward` | `TypeOK`, `NoPeek`, `OneCurve`, `LookedOnce` | 1 symbol, 17 histories of 8 to 16 days, training 4 days, tests 2, locked from day 10, 3 choices of axes, 3 commands | up to two windows before the locked segment and up to one in it, with too short ones among them; a command that records, one that looks and one that looks again, each dying anywhere; some results on the locked segment meet all five criteria, others do not |
| `sweep_is_independent` | `SweepIsIndependent` violated | the same | |

All runs set `CHECK_DEADLOCK FALSE`: clocks, orders, answers, calls and commands
are bounded, and the system may stop when they are used up. The bounds are
`MaxDay` (calls of `Advance`), `MaxClock` (ticks), `MaxFailures`, `MaxResets`,
`MaxTaps`, `MaxCalls` (of `CreateOrder` per ID), `LastBar`, `MaxRuns` and
`MaxFaults` (of `CandleFeed`), `LastDay` (of the calendar) and `MaxCommands`;
each is a conjunct of the guard of the action it bounds. `CandleFeed` has one
bound more: no runner takes two bars' time to read one symbol (`moved`), in the
program two days.

Fairness is assumed for the three liveness properties only:

- `AwaitEnds` (`Proposals`): time passes, and the loop of `awaitDecisions` keeps
  going. Its `select` has a default branch and only sleeps `PollInterval`.
  Nothing is assumed of the operator, who may never answer, nor of the process,
  which may die. That he sends finitely many answers (`MaxTaps`) matters: the
  default branch, the only one that looks at the clock, does not run while
  decisions keep coming.
- `CallReturns` (`OrderPlacement`): time passes, and a call that can go on does.
  The HTTP client has a timeout, so a request is answered or given up
  (`Ambiguous`), sleeps end, and the bucket refills. Nothing is assumed of the
  exchange. Weak fairness is enough for a token because no caller can take one
  for ever: attempts are bounded.
- `RunEnds` (`CandleFeed`): each run keeps going, for the same reasons. Nothing
  is assumed of the exchange or of the clock, but that it moves at most one bar
  while a symbol is read.

## What the violation runs show

1. `breaker_reset`. `reconstruct` never reads the persisted breaker state. The
   run after a reset replays the old trip, with its old date, and writes it back
   as open (`daily.go:301`, `:776`). With a rule tripped by history no reset has
   any effect (SPEC.md:778 says the reset command closes the breaker).
2. `breaker_recovers`. A breaker that step 8 opens on order errors
   (`daily.go:682`) is neither persisted nor announced, and the next run starts
   with a closed one once the errors are a day old. `breaker.go:67` says there
   is no automatic recovery.
3. `proposals_late`. `awaitDecisions` reads the channel before it looks at any
   deadline (`daily.go:960`), so a late answer wins, in particular one that is
   waiting when a process restarts after an outage. `daily.go:934` says that the
   wait is bounded by each proposal's `ExpiresAt`.
4. `held_is_managed`. `RunOnce` hands the strategy the series of today's universe
   (`daily.go:660`), and `Trendfollow.Evaluate` skips a held symbol without a
   series (`trendfollow.go:100`). A held symbol that the filter drops, for its
   volume, a quality flag or the cap, gets no trailing stop and no exit.
   `trendfollow.go:93-97` says that it must keep being managed.
5. `sweep_is_independent`. `ParamSensitivitySweep` hands one breaker to the runs
   of all its points (`sensitivity.go:84`, built at `main.go:1033`). One that trips
   blocks the entries of the points after it, and the plateau criterion judges
   them on that. `sensitivity.go:42-44` says that only the one parameter moves;
   `walkforward.go:193-196` explains why every other sub-backtest gets a breaker
   of its own.

None of the counterexamples needs a crash or a failing write.

Three passing runs show weaknesses too. In `proposals`, `ReplayIsStable` and
`FilledMeansFilled` hold only as long as no run was given up with proposals still
pending. After such a run (`scheduler.go:84`) nobody watches those proposals
until the next restart; if one of them is approved then, it is replayed on the
day it was proposed, behind days that have been processed since, and holdings
change in the past. `BookSurvivesRestart` leaves out the orders of `FAILED` rows: an
approved entry whose stop is zero or less, which the sizer lets pass
(`sizer.go:128`), is queued in the broker of its run, reported as failed, and gone
in the next run.

In `daily_breaker`, `OneAlertPerTrip` holds up to a failed read of the status, and in
`walk_forward` a report on the development segment may be graded by nothing. A report
on the locked segment never is: there a failed read ends the command.

In `trading_days`, `OneCodePath` holds only up to the first member of `apart`, and
`Protected` only for symbols that are not `naked`. The members are:

- `naked`: a decided entry is submitted before its stop is looked at
  (`daily.go:547-557`). Where its stop is zero or less the row is marked `FAILED` and
  the next reconstruction leaves it out, as the backtest skips such a signal; but if
  the process was restarted while it waited (`ResumePending` marks the row
  `SUBMITTED`), or the write of `FAILED` is refused and its error ignored
  (`daily.go:1006`), every replay submits the entry again, ignores the error of the
  stop, and holds a position without one.
- `cooldown`: the live gate's "now" is the next day (`gate.go:152-157`), so a
  cooldown of 24 hours has run out where the backtest still blocks.
- `empty`: on a day with an empty universe the backtest does not call the
  strategy (`engine.go:216`), the live engine does.
- `universe`: the backtest takes every symbol with a bar and enough candles, the
  live engine what the universe filter leaves (age, volume, quality, cap).
- `missed`, `refused`: a run that failed and a proposal that was not approved.

Met while modelling, without a run of their own:

- With the default configuration the live momentum universe is always empty: it
  reads 121 days of candles, and a symbol without `listed_at`, which the exchange
  client never sets, needs 180 of them (`filter.go:226-243`, `ccxt.go:403`).
- All entries of a run are gated against the portfolio of its start
  (`daily.go:686`), and buys queued over a data gap are not in it, so together they
  can exceed `max_positions` and the exposure limit (SPEC.md:756). Cash is not
  looked at when an order is filled.
- A symbol that is paused first and absent later never gets a `delisted_at`: the
  delistings are looked for among the active rows only.
- `medianQuoteVolume` documents the window (asOf-n, asOf] and takes one day more
  (`filter.go:334`, `:301-310`).
- Walk-forward: the default locked segment of 365 days is shorter than training
  and test together, so the first look is recorded and then ends in an error;
  `--locked-start` is free, so a run on the "development" segment may read days
  that an earlier one locked; a test starts trading in its lookback, with an
  equity that is no longer the starting cash when the window begins, so the
  combined curve jumps (`walkforward.go:322`); a step shorter than the test makes
  its dates go back; `BuildWindows` takes no window that ends the day after the
  last bar, so the last bar is never tested.

## Proofs

The runs check small instances. TLAPS proves the following for every value of the
constants that satisfies the `ASSUME` of the modules, and the runs evaluate those
assumptions. Each module of theorems has an invariant that is inductive, one
lemma for each part of it and a step for each action, and theorems that follow
from it. Every such invariant was checked by TLC on the run's instance before it
was proved.

| Module | Theorems | State |
|---|---|---|
| `PaperBrokerProofs` | `TypeCorrect`, `LiveOrdersCorrect`, `StopsAreHonoured`, `OrdersAreAccountedFor`, `CashIsAccountedFor`, `NoExitIsOptimistic`, `PaperBrokerImplementsPositionBook` | all properties of `paper_broker` |
| `DailyBreakerProofs` | `TypeCorrect`, `TripIsFound`, `GateKnowsAll`, `AlertedOnce`, `StatusStaysOpen` | all properties of `daily_breaker` |
| `ProposalsProofs` | `TypeCorrect`, `NothingIsForgotten`, `BookIsReplayed`, `SeenDaysAreStable`, `FilledIsFilled`, `ProposalsImplementProposalLife` | all properties of `proposals` but `AwaitEnds` |
| `OrderPlacementProofs` | `TypeCorrect`, `OneOrderPerID`, `RefusalIsFinal`, `BudgetIsRespected`, `OrderPlacementImplementsIdempotentOrder` | all properties of `order_placement` but `CallReturns` |
| `CandleFeedProofs` | `TypeCorrect`, `HolesAreExplained`, `StoredBarsVerify`, `UndisturbedUpdateCatchesUp`, `RepeatedUpdateChangesNothing` | all properties of `candle_feed` but `RunEnds` |
| `TradingDaysProofs` | `TypeCorrect`, `EnginesAgree`, `PositionsProtected`, `StopsNeverFall`, `ExitsHappen` | all properties of `trading_days` |
| `WalkForwardProofs` | `TypeCorrect`, `WithoutPeek`, `TestsMakeOneCurve`, `LockedSegmentLookedOnce` | all properties of `walk_forward` |

In `PaperBrokerProofs`, `OrderPlacementProofs` and `ProposalsProofs`, `Inductive`
is the step `IInv /\ [Next]_vars => IInv'`, in the others `Spec => []IInv`, with
`IInv` as follows. `ProposalsProofs` and `WalkForwardProofs` have a second one,
`ReplayInductive` and `WalkInductive`.

**PaperBroker.** `LiveOrdersMatchPositions` is not inductive: it speaks of order
records, while `Submit` looks at the queue. `IInv` adds the link (outside of
`Advance` the IDs in `pending` are exactly the live orders, during it those in
`queue` and `pending` together, without repetition), that an order is live at
most since the last settled day, and that a position was opened no later than
today. From it follow the branch of `fillPending` that cancels an exit without a
position being dead (`FillExitFindsPosition`), the refinement, whose `ordered` is
the creation day of the one live order of a symbol, and, with the set of symbols
still to check, the stop rule. The two accounts are sums, of the trades and of
the positions; each settlement adds to one what it takes from the other, with the
cost of an exit order that is still to be settled counted in between.
`OrdersAreAccountedFor` needs no finite number of order IDs. `NoExitIsOptimistic`
has a hypothesis, `SlippageBps <= Denom`: with a slippage above 100 % a sell fills
at a negative price. Neither `Validate` (`broker.go:62`) nor the configuration
(`config.go:302`) sets such a bound, and the run at twice the costs doubles what
it is given (`main.go:1015`).

**DailyBreaker.** The clock lies in the day after the last one of the history,
and a run starts later than the midnight that ended its last day (`TimeInv`).
Hence, while a day is replayed, every stored order error lies ahead of it
(`NoErrorYet`) and none is pruned, and `Check` finds on day `n + 1` what the
history says of it (`DayIsReplayed`): the running peak is the maximum so far, the
trades so far are the history's, and those of earlier days do not count into the
day's result. So the breaker in memory is the first trip of the history
(`ReplayInv`). An open status is therefore found again by every later replay
(`PersistInv`), which is why only a reset closes it, why what has been
announced is open in the store and the run that writes next has read so
(`AlertInv`), unless a reset or a failed read lies between. For the errors, `ErrorsInv` says that the store has all of the last 24
hours but the unsaved ones, that the run has those too, and that neither has one
that never happened; each of the three prunings is at or before the edge of the
window (`PruneKeeps`).

**Proposals.** The life of a proposal does not depend on what the broker makes of
its order, so `LifeInv` leaves the broker out: the types of the table, the channel
and the engine; what is waited for is pending, and what is approved and not yet
handed over is `APPROVED` and listed once (`AwaitInv`); approvals in the channel
have consent (`ConsentInv`); nothing is left over between two waits (`QuietInv`).
Every change of the table is of one row (`OneRowChanged`), which is a step of
`ProposalLife` or a stutter. `NoProposalForgotten` is inductive together with it.

The other four properties compare what a run has in memory with what `Replay` makes
of the table, a recursion over days and, in each day, a fold over the proposals
decided for it. Three steps remove the recursion. `Earlier` is a strict total order
of the rows, so a day's list exists and is complete (`InOrderLists`). The fold along
it is the set operation `SubmitAll` (`FoldIsSubmitAll`): the broker takes of each
symbol and side the earliest proposal, if the morning's book takes it, and no other.
And each day's book is made from the one before (`ReplayIsTable`). A replay therefore
depends on nothing but candles and the proposals decided for its days
(`ReplayKept`), and a step decides nothing for a day before the last run's unless a
run was given up (`PastIsDecided`).

`ReplayInv` adds to `IInv`: the proposals of one run are for different symbols and
have one time, earlier than those of the next run (`RowsInv`); a run waits for its
own (`RunInv`); and during a run the book in memory is the replay of its day
without the approvals it has not handed over yet (`RunBook`). The last is the
point: what a run hands over are the proposals decided for its day and those whose
row has become `FAILED` on the way (`Handed`), which replay leaves out; approvals
are handed over in the order of the answers, replay submits in
the order of creation, and the two agree because a proposal that could be refused
for another one is refused only for one of an earlier run. At the end of a run
nothing is left to hand over, and no other order depends on those of `FAILED` rows,
which is `BookSurvivesRestart`. It rests on two runs
having different times (`StartRun` has `clock > runNow`; the table keeps them to
the millisecond).

**OrderPlacement.** `CallInv` ties a caller's locals to the call it is in.
`PromptInv` is what makes a repeated POST harmless at an exchange that does not
know client IDs: a request under way is then the only one and nothing is placed,
and nothing is under way when the next one is prepared or a refusal is believed.
At a strict exchange the book itself refuses the second order. `RateLimiter` is
proved apart: what is in the bucket and what was spent since any moment is at most
a full bucket and what has been refilled since (`Budget`); every step of
`OrderPlacement` is a step of the limiter.

**CandleFeed.** Below a stored bar every bar is stored or explained (`HoleInv`);
behind a cursor too, but for the bar that was open when the page went by, which
closes at most once before the symbol is done (`CursorInv`). An update that
nothing has disturbed has brought the symbols it is done with up to date, and the
one it reads up to its cursor (`QuietInv`); one that runs when everything is up to
date asks only for what is stored (`FreshInv`).

**TradingDays.** While `apart` is empty the two books are equal, or differ by
exactly the half of the day that one engine has done and the other has not
(`SamePath`, with `Backtested` and `Approved` for the two halves). A queued entry
has a stop reserved (`Reserved`), which becomes the position's; what awaits the
operator is not held (`ProposedFlat`).

**WalkForward.** `LookedOnce` needs nothing of the backtest: the record of a look
repeats the thresholds (`RowsInv`), and a command that is past its look has found
or written both rows and grades by them, or, on the development segment only, by
none (`CommandInv`); so a report on the locked segment passes exactly if the result
meets all five criteria as recorded (`ReportInv`).

The other three properties speak of what whole backtests return, for any history,
parameter grid and layout of windows. Two facts about a single run carry them,
both about the table that has the run's state for each day (`IsRun`), by induction
on the days:

- `RunInv`, what holds of a run on each day: its curve goes through the evaluated
  days so far, in order, and through no other; trades and positions of one symbol
  follow one another in time (`TradesInv`). It needs of strategy, gate and broker
  only the types of what they return, and that an order changes no position while
  the broker's day closes a position before it opens another (`PositionAdvanced`).
- `RunsAgree`: two runs over candles that agree up to a day have the same state up
  to that day (`TablesAgree`), and what is on a curve stays on it (`TableUpTo`).

A window cuts its slice out of the candles and its days out of the run. `SubRunOK`
is what the first fact says of that, `AlteredTest` and `AlteredSubRun` what the
second says: bars behind a day change nothing of the curve up to it, and bars from
the end of the training on change nothing at all of the training. Hence the
parameters that are picked do not depend on them (`AlteredPick`).

`WalkInv` takes this through the command: what will be tested was picked on the
candles of its training (`PickInv`); what was tested last is a run that started
from the cash the curve had before (`TestInv`); and the tests so far make one curve
and one list of trades (`CurveOK` in `OneCurveInv`), because the next test starts
where the last one has ended (`WindowsInOrder`), for which the step must not be
shorter than the test. `PlaceInv` says how many windows are done at each place. A
test from which the warm-up cannot be taken leaves days out, so `OneCurve` claims
all days only of windows for which the segment has enough of them before
(`Covered`); in the run, dropping the margin of the lookback loses such days, and
the property finds it.

**Induction.** Sums, joined sequences, replays, runs, grids and the best of a grid
are tables by recursion. The library's induction principles take an operator, which
the provers cannot instantiate; `LibraryProofs` states induction over sets of
naturals instead (`SetInduction`: a set that has 0 and with each number the next
has all), which they can. For each recursion the proofs first show with it that the
table exists, so that the value that is chosen is an entry of it (`TableExists`,
`RunExists`, `GridExists` and so on), and then what holds of every entry. In this way
`LibraryProofs` and `DailyBreakerProofs` prove what one element more adds to
`SumFunctionOnSet` and `FlattenSeq`, `ProposalsProofs` what `FoldLeft` makes of a
day's submissions, and `WalkForwardProofs` what a run makes of its days.

What the proofs changed in the models: in `CandleFeed`, `Since` was a `CASE`
whose guards overlapped, so its value was not determined, and is an `IF` now;
the order errors of the breaker are sets; `sent` is cumulative; `InOrder` says
what the list of a day is, where a library's sort, which the provers cannot
unfold, computed it, and so does `BySymbol` of `PaperBook`; a calendar is a set of
days, and `Run`, `Filter`, `ParamGrid` and `BestOf` are recursive functions where
they were folds and selections with an operator as argument, which the provers
cannot unfold either; `SelectParams` first scores the points of the grid, each by
itself, and then chooses; sets of symbols are finite, the bars of a calendar and
the axes of a grid have a type, and bounds are naturals, all by named assumptions
that hold of a configuration. No theorem needs an assumption on fairness.

What the proofs changed in the properties: `OneCurve` claimed that the combined
curve has every day of the test periods, which is false for a history with a gap
before a test, where the lookback does not hold enough days for the warm-up; it
now says of which windows it holds, and says for any layout of windows what it said
for tests as long as a step. `NoPeek` took the cash before a test from the window
before it, which has no curve if none of its days was evaluated; it takes it from
the combined curve, as the code does. That cash is an integer, not a natural: what
keeps it above zero is the guard of the next test (`paper.go:103`), and the last
test has none behind it.

Only model-checked are `AwaitEnds`, `CallReturns` and `RunEnds`: liveness, and with
it ENABLED, is out of the prover's reach. Only proved is the conjunct of `WalkInv`
that the windows of a result are a sequence of some set: TLC cannot enumerate the
sets.

No module uses RECURSIVE; recursion is by recursive functions and folds.

## What is not modelled

- Floating-point rounding, decimals, formatting, log and message texts.
- The paper broker's `Portfolio` and the other readers, `syncTrades`,
  the benchmark curves and the daily summary: they change nothing that is read
  back.
- `stop_update` proposals in `Proposals`: they neither order nor hold; the stop
  levels themselves are in `PaperBroker`, and what the strategies make of them in
  `TradingDays`.
- Reads of the store that fail and end the run or the command, which is a crash or
  an abort here; the two whose failure the code swallows (`daily.go:766`,
  `main.go:985`) are modelled. Inserts that fail: a hazard of its own
  (`daily.go:850`).
- A revised candle that changes a replayed day: `CandleFeed` rewinds and stores
  the correction, `Proposals` and `TradingDays` take history as it is.
- Two `walkforward` commands at the same time: each of the two rows is read and
  then written by separate statements, so both could have the first look.
- `CancelOrder` and `FetchBalance` of the exchange client, which nothing calls;
  signing and decoding.
- `NextRunAt`: calendar arithmetic in a local time zone, one call, no state.
- The metrics and benchmarks that only reports show.
- Indicators, panel, reports, configuration: no control, or no state.

## Plan

What is left is `Scheduler`: `NextRunAt` with a change of the clocks.
