------------------------------ MODULE CandleFeed ------------------------------
(***************************************************************************)
(* The data feed: SyncMarkets, Backfill and Update of                      *)
(* src/internal/datafeed/backfill.go, over the paginator of fetcher.go and *)
(* the quality checks of quality.go, writing to the tables markets and     *)
(* candles.  Runners are processes: the paper daemon and the commands      *)
(* `data update` and `data backfill` may run at the same time, and any of  *)
(* them may die between two of its writes.                                 *)
(*                                                                         *)
(* Time is counted in bars: bar `clock` is the one that is still open.     *)
(* The exchange is external: it lists and delists symbols, offers bars     *)
(* late, malformed or not at all, and corrects them afterwards.            *)
(***************************************************************************)
EXTENDS Naturals, FiniteSets, FiniteSetsExt

CONSTANTS
  Symbols,       \* symbols, numbered in alphabetical order
  Runners,       \* processes that run the feed
  Jobs,          \* Jobs[p]: what p may be asked to do
  Rewind,        \* updateRewindBars
  PageSize,      \* bars in a full page
  Horizon,       \* bars a backfill looks back
  LastBar,       \* bound: the clock stops here
  MaxRuns,       \* bound: runs of all runners
  MaxFaults      \* bound: oddities of the exchange, failures and crashes

ASSUME FeedAssumption ==
  /\ Symbols \subseteq Nat
  /\ Jobs \in [Runners -> SUBSET {"update", "backfill"}]
  /\ {Rewind, PageSize, Horizon} \subseteq Nat \ {0}
  /\ {LastBar, MaxRuns, MaxFaults} \subseteq Nat

Bars == 0 .. LastBar

VARIABLES
  clock,
  listing,   \* what the exchange says of a symbol
  offered,   \* offered[s][b]: a closed bar at the exchange
  market,    \* rows of the table markets; delisted: inactive with delisted_at
  bars,      \* rows of the table candles
  pc, job, listed, todo, cursor, page,   \* of each runner
  moved,     \* moved[p]: the clock has ticked while p reads its symbol (bound)
  passed,    \* passed[s]: bars a run has gone past for good (observer)
  quiet,     \* quiet[p]: nothing else has changed since p began (observer)
  fresh,     \* the last update was quiet, and still nothing has (observer)
  runs, faults

exchangeVars == <<clock, listing, offered>>
storeVars == <<market, bars>>
runnerVars == <<pc, job, listed, todo, cursor, page>>
vars == <<exchangeVars, storeVars, runnerVars, moved, passed, quiet, fresh, runs, faults>>

Listing == {"trading", "paused", "absent"}

\* "partial" is a bar as it looks while it is open.
Offer == {"none", "bad", "v1", "v2"}
Stored == {"none", "partial", "v1", "v2"}

NoPage == [b \in {} |-> "none"]

Init ==
  /\ clock = 0
  /\ listing = [s \in Symbols |-> "trading"]
  /\ offered = [s \in Symbols |-> [b \in Bars |-> "none"]]
  /\ market = [s \in Symbols |-> "unknown"]
  /\ bars = [s \in Symbols |-> [b \in Bars |-> "none"]]
  /\ pc = [p \in Runners |-> "idle"]
  /\ job = [p \in Runners |-> "none"]
  /\ listed = [p \in Runners |-> [s \in Symbols |-> "absent"]]
  /\ todo = [p \in Runners |-> {}]
  /\ cursor = [p \in Runners |-> 0]
  /\ page = [p \in Runners |-> NoPage]
  /\ moved = [p \in Runners |-> FALSE]
  /\ passed = [s \in Symbols |-> {}]
  /\ quiet = [p \in Runners |-> FALSE]
  /\ fresh = FALSE
  /\ runs = 0
  /\ faults = 0

Fault(n) ==
  /\ faults + n <= MaxFaults
  /\ faults' = faults + n

-----------------------------------------------------------------------------
(***************************************************************************)
(* The exchange                                                            *)
(***************************************************************************)
Disturbed ==
  /\ quiet' = [p \in Runners |-> FALSE]
  /\ fresh' = FALSE

Reading(p) == pc[p] \in {"fetch", "store"}

\* The open bar closes; a symbol that trades has it offered at once, as a rule.
\* No runner takes two bars' time to read one symbol.
Tick ==
  /\ clock < LastBar
  /\ \A p \in Runners : Reading(p) => ~moved[p]
  /\ moved' = [p \in Runners |-> Reading(p)]
  /\ clock' = clock + 1
  /\ \E final \in [Symbols -> {"v1", "bad", "none"}] :
       LET odd == {s \in Symbols : listing[s] = "trading" /\ final[s] # "v1"}
       IN  /\ \A s \in Symbols : listing[s] # "trading" => final[s] = "none"
           /\ Fault(Cardinality(odd))
           /\ offered' = [s \in Symbols |-> [offered[s] EXCEPT ![clock] = final[s]]]
  /\ Disturbed
  /\ UNCHANGED <<listing, storeVars, runnerVars, passed, runs>>

Correct(s, b) ==
  /\ b < clock
  /\ offered[s][b] # "v2"
  /\ offered' = [offered EXCEPT ![s][b] = IF @ = "v1" THEN "v2" ELSE "v1"]
  /\ Fault(1)
  /\ Disturbed
  /\ UNCHANGED <<moved, clock, listing, storeVars, runnerVars, passed, runs>>

Relist(s, l) ==
  /\ listing[s] # l
  /\ listing' = [listing EXCEPT ![s] = l]
  /\ Fault(1)
  /\ Disturbed
  /\ UNCHANGED <<moved, clock, offered, storeVars, runnerVars, passed, runs>>

Offered(s, b) == IF b = clock /\ listing[s] = "trading" THEN "partial" ELSE offered[s][b]

\* One klines request: the first bars from `since` on, the open one included.
FetchOHLCV(s, since) ==
  LET there == {b \in since .. clock : Offered(s, b) # "none"}
      first == {b \in there : Cardinality({a \in there : a < b}) < PageSize}
  IN  [b \in first |-> Offered(s, b)]

\* What exchangeInfo says of each symbol; only a TRADING one is active.
FetchMarkets == listing

-----------------------------------------------------------------------------
(***************************************************************************)
(* The store                                                               *)
(***************************************************************************)
Active == {s \in Symbols : market[s] = "active"}

\* An upsert overwrites the row, and clears delisted_at.
UpsertMarketRow(s, l) ==
  market' = [market EXCEPT ![s] = IF l = "trading" THEN "active" ELSE "inactive"]

DelistMarketRow(s) == market' = [market EXCEPT ![s] = "delisted"]

Have(s) == {b \in Bars : bars[s][b] # "none"}

MaxOpenTime(s) == Max(Have(s))

\* Mutant: the page is stored as it came.
UpsertPage(s, got, which) ==
  bars' = [bars EXCEPT ![s] = [b \in Bars |-> IF b \in DOMAIN got THEN got[b] ELSE @[b]]]

UpsertCandles(s, got, which) ==
  bars' = [bars EXCEPT ![s] = [b \in Bars |-> IF b \in which THEN got[b] ELSE @[b]]]

-----------------------------------------------------------------------------
(***************************************************************************)
(* A run begins with SyncMarkets                                           *)
(***************************************************************************)
Goto(p, where) == pc' = [pc EXCEPT ![p] = where]

\* The other runners' quiet ends with a write of this one.
Wrote(p) ==
  /\ quiet' = [q \in Runners |-> quiet[q] /\ (q = p \/ storeVars' = storeVars)]
  /\ fresh' = (fresh /\ storeVars' = storeVars)

Alone(p) == \A q \in Runners \ {p} : pc[q] = "idle"

Begin(p, what) ==
  /\ pc[p] = "idle"
  /\ runs < MaxRuns
  /\ runs' = runs + 1
  /\ Goto(p, "upsert")
  /\ job' = [job EXCEPT ![p] = what]
  /\ listed' = [listed EXCEPT ![p] = FetchMarkets]
  /\ todo' = [todo EXCEPT ![p] = {s \in Symbols : FetchMarkets[s] # "absent"}]
  /\ quiet' = [quiet EXCEPT ![p] = Alone(p)]
  /\ fresh' = (fresh /\ what = "update")
  /\ UNCHANGED <<moved, exchangeVars, storeVars, cursor, page, passed, faults>>

UpsertMarket(p) ==
  /\ pc[p] = "upsert"
  /\ \E s \in todo[p] :
       /\ UpsertMarketRow(s, listed[p][s])
       /\ todo' = [todo EXCEPT ![p] = @ \ {s}]
  /\ UNCHANGED <<moved, exchangeVars, bars, pc, job, listed, cursor, page, passed, runs, faults>>
  /\ Wrote(p)

ToDelist(p) == {s \in Active : listed[p][s] = "absent"}

ListActive(p) ==
  /\ pc[p] = "upsert"
  /\ todo[p] = {}
  /\ todo' = [todo EXCEPT ![p] = ToDelist(p)]
  /\ Goto(p, "delist")
  /\ UNCHANGED <<moved, exchangeVars, storeVars, job, listed, cursor, page, passed,
                 quiet, fresh, runs, faults>>

MarkDelisted(p) ==
  /\ pc[p] = "delist"
  /\ \E s \in todo[p] :
       /\ s = Min(todo[p])
       /\ DelistMarketRow(s)
       /\ todo' = [todo EXCEPT ![p] = @ \ {s}]
  /\ UNCHANGED <<moved, exchangeVars, bars, pc, job, listed, cursor, page, passed, runs, faults>>
  /\ Wrote(p)

\* Update takes the active symbols; a backfill may be given its own.
ChooseSymbols(p) ==
  /\ pc[p] = "delist"
  /\ todo[p] = {}
  /\ \E chosen \in {Active} \union
                   (IF job[p] = "backfill" THEN SUBSET Symbols \ {{}} ELSE {}) :
       todo' = [todo EXCEPT ![p] = chosen]
  /\ Goto(p, "symbols")
  /\ UNCHANGED <<moved, exchangeVars, storeVars, job, listed, cursor, page, passed,
                 quiet, fresh, runs, faults>>

-----------------------------------------------------------------------------
(***************************************************************************)
(* One symbol after the other: the start, the pages, the end               *)
(***************************************************************************)
Oldest == IF clock >= Horizon THEN clock - Horizon + 1 ELSE 0

\* Mutant: the bar after the last stored one is skipped.
ResumeAfterNext(s) == MaxOpenTime(s) + 2

Resume(s) == MaxOpenTime(s) + 1

\* Mutant: the update goes back one bar too few.
RewoundShort(s) == IF MaxOpenTime(s) + 2 >= Rewind THEN MaxOpenTime(s) + 2 - Rewind ELSE 0

\* Rewind bars are read again, the last stored one among them.
Rewound(s) == IF MaxOpenTime(s) + 1 >= Rewind THEN MaxOpenTime(s) + 1 - Rewind ELSE 0

Since(p, s) ==
  IF Have(s) = {} THEN Oldest
  ELSE IF job[p] = "update" THEN Rewound(s) ELSE Max({Oldest, Resume(s)})

StartSymbol(p) ==
  /\ pc[p] = "symbols"
  /\ todo[p] # {}
  /\ LET s == Min(todo[p])
     IN  /\ cursor' = [cursor EXCEPT ![p] = Since(p, s)]
         /\ passed' = [passed EXCEPT ![s] =
              @ \union (IF job[p] = "backfill" \/ Have(s) = {} THEN {b \in Bars : b < Oldest} ELSE {})]
  /\ moved' = [moved EXCEPT ![p] = FALSE]
  /\ Goto(p, "fetch")
  /\ UNCHANGED <<exchangeVars, storeVars, job, listed, todo, page, quiet, fresh, runs, faults>>

SymbolDone(p) ==
  /\ Goto(p, "symbols")
  /\ todo' = [todo EXCEPT ![p] = @ \ {Min(@)}]
  /\ cursor' = [cursor EXCEPT ![p] = 0]

\* The locals of a run go with it.
Leave(p) ==
  /\ Goto(p, "idle")
  /\ job' = [job EXCEPT ![p] = "none"]
  /\ listed' = [listed EXCEPT ![p] = [s \in Symbols |-> "absent"]]
  /\ todo' = [todo EXCEPT ![p] = {}]
  /\ cursor' = [cursor EXCEPT ![p] = 0]
  /\ page' = [page EXCEPT ![p] = NoPage]

\* The clock is read before every page, and the bars after that.
FetchPage(p) ==
  /\ pc[p] = "fetch"
  /\ LET s == Min(todo[p])
         got == FetchOHLCV(s, cursor[p])
     IN  \/ /\ cursor[p] > clock \/ DOMAIN got = {}
            /\ SymbolDone(p)
            /\ UNCHANGED page
         \/ /\ cursor[p] <= clock /\ DOMAIN got # {}
            /\ page' = [page EXCEPT ![p] = got]
            /\ Goto(p, "store")
            /\ UNCHANGED <<todo, cursor>>
  /\ UNCHANGED <<moved, exchangeVars, storeVars, job, listed, passed, quiet, fresh, runs, faults>>

IsClosed(b) == b < clock

\* Mutant: a malformed bar is only flagged.
CleanFlagged(got) == {b \in DOMAIN got : IsClosed(b)}

\* ValidateCandles, with the clock read again: what is closed by now and well
\* formed.  The warnings change nothing.
Clean(got) == {b \in DOMAIN got : IsClosed(b) /\ got[b] # "bad"}

\* Mutant: the paginator asks for the same bars again and again.
NextCursorStuck(p, got) == cursor[p]

NextCursor(p, got) == Max(DOMAIN got) + 1

\* Mutant: one full page is all a symbol gets.
IsShortAlways(got) == Cardinality(DOMAIN got) <= PageSize

IsShort(got) == Cardinality(DOMAIN got) < PageSize

\* A page is stored in one transaction.
StorePage(p) ==
  /\ pc[p] = "store"
  /\ LET s == Min(todo[p])
         got == page[p]
         next == NextCursor(p, got)
     IN  /\ UpsertCandles(s, got, Clean(got))
         /\ passed' = [passed EXCEPT ![s] =
              @ \union {b \in cursor[p] .. Max(DOMAIN got) : IsClosed(b) /\ b \notin Clean(got)}]
         /\ IF IsShort(got)
            THEN SymbolDone(p)
            ELSE /\ cursor' = [cursor EXCEPT ![p] = next]
                 /\ Goto(p, "fetch")
                 /\ UNCHANGED todo
  /\ page' = [page EXCEPT ![p] = NoPage]
  /\ UNCHANGED <<moved, exchangeVars, market, job, listed, runs, faults>>
  /\ Wrote(p)

Finish(p) ==
  /\ pc[p] = "symbols"
  /\ todo[p] = {}
  /\ Leave(p)
  /\ fresh' = (fresh \/ (job[p] = "update" /\ quiet[p] /\ Alone(p)))
  /\ UNCHANGED <<moved, exchangeVars, storeVars, passed, quiet, runs, faults>>

\* A request or a write fails and stops the run, or the process dies: what is
\* stored stays.
Stop(p) ==
  /\ pc[p] # "idle"
  /\ Fault(1)
  /\ Leave(p)
  /\ UNCHANGED <<moved, exchangeVars, storeVars, passed, quiet, fresh, runs>>

-----------------------------------------------------------------------------
Run(p) ==
  \/ UpsertMarket(p) \/ ListActive(p) \/ MarkDelisted(p) \/ ChooseSymbols(p)
  \/ StartSymbol(p) \/ FetchPage(p) \/ StorePage(p) \/ Finish(p)

Next ==
  \/ Tick
  \/ \E s \in Symbols : \/ \E b \in Bars : Correct(s, b)
                        \/ \E l \in Listing : Relist(s, l)
  \/ \E p \in Runners : (\E what \in Jobs[p] : Begin(p, what)) \/ Run(p) \/ Stop(p)

Spec == Init /\ [][Next]_vars

\* Requests are answered or time out, and writes return.
FairSpec == Spec /\ \A p \in Runners : WF_vars(Run(p))

-----------------------------------------------------------------------------
(***************************************************************************)
(* Properties                                                              *)
(***************************************************************************)
TypeOK ==
  /\ clock \in Bars
  /\ listing \in [Symbols -> Listing]
  /\ offered \in [Symbols -> [Bars -> Offer]]
  /\ market \in [Symbols -> {"unknown", "active", "inactive", "delisted"}]
  /\ bars \in [Symbols -> [Bars -> Stored]]
  /\ pc \in [Runners -> {"idle", "upsert", "delist", "symbols", "fetch", "store"}]
  /\ job \in [Runners -> {"none", "update", "backfill"}]
  /\ listed \in [Runners -> [Symbols -> Listing]]
  /\ todo \in [Runners -> SUBSET Symbols]
  /\ cursor \in [Runners -> Nat]
  /\ \A p \in Runners : DOMAIN page[p] \subseteq Bars
  /\ passed \in [Symbols -> SUBSET Bars]
  /\ quiet \in [Runners -> BOOLEAN]
  /\ fresh \in BOOLEAN
  /\ moved \in [Runners -> BOOLEAN]

\* Interrupted, repeated and concurrent runs leave no hole behind: a bar missing
\* between two stored ones was refused or not offered when a run went past it, or
\* was older than a backfill reaches.
NoUnexplainedHole ==
  \A s \in Symbols : \A b \in Bars \ (Have(s) \union passed[s]) :
    ~(\E a, c \in Have(s) : a < b /\ b < c)

\* What a whole Update leaves behind when nothing else changes meanwhile: the
\* symbols that trade are active and no others, and the last Rewind bars of each
\* and all that follow are the exchange's, whatever was stored before.
UpdateCatchesUp ==
  fresh =>
    /\ Active = {s \in Symbols : listing[s] = "trading"}
    /\ \A s \in Active : \A b \in Bars :
         /\ b < clock
         /\ \A a \in Have(s) : b + Rewind > a
         /\ b >= Oldest
         /\ offered[s][b] \in {"v1", "v2"}
         => bars[s][b] = offered[s][b]

\* Running Update again with no new bar changes no row, from its first request to
\* its end, and neither does an Update that stops halfway.  Only rows older than a
\* backfill reaches may come in, when fewer than Rewind bars are stored.
UpdateIsIdempotent ==
  [][fresh /\ (\A p \in Runners : job[p] # "backfill")
       => /\ market' = market
          /\ \A s \in Symbols : \A b \in Oldest .. LastBar : bars'[s][b] = bars[s][b]]_vars

\* Verify reads every stored candle of the active symbols again.
Verify ==
  \A s \in Active : LET rows == [b \in Have(s) |-> bars[s][b]]
                     IN  Clean(rows) = Have(s)

\* Step 3 of a daily run never stops on what the feed itself has stored.
VerifyPasses == Verify

\* Every run ends: the pages reach the present, however it moves.
RunEnds == \A p \in Runners : pc[p] # "idle" ~> pc[p] = "idle"

=============================================================================
