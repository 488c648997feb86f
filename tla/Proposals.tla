------------------------------ MODULE Proposals -----------------------------
(***************************************************************************)
(* The life of a trade proposal in the daily engine:                       *)
(* src/internal/engine/daily.go (RunOnce, ResumePending, awaitDecisions,   *)
(* submitApproved, syncProposalFills and the replay of reconstruct), with  *)
(* the decision channel of src/internal/notify/telegram.go and the         *)
(* proposals table of src/internal/store/proposals.go.                     *)
(*                                                                         *)
(* Only the store survives the process.  The broker is rebuilt from it by  *)
(* replay: every day's candle, then the proposals decided for that day.    *)
(* A broker is reduced here to what proposals see of it: which order is    *)
(* pending or filled, and since which day a symbol is held (PaperBroker    *)
(* has the rest, and its proofs justify keeping the orders as a set: a     *)
(* symbol has at most one live order).  A day brings each symbol a calm    *)
(* candle, one that falls through every stop, or none.                     *)
(*                                                                         *)
(* stop_update proposals are left out: they change no order, and a fall is *)
(* one through whatever level the stop is at.  A position entered without  *)
(* a stop gets none later, as with the momentum strategy.  Left out, too,  *)
(* are the signals the gate rejects, whose REJECTED row is never read.     *)
(***************************************************************************)
EXTENDS Integers, Sequences, FiniteSets, SequencesExt

CONSTANTS
  Symbols,
  Ids,           \* proposal IDs; numbers, since replay sorts by them
  Signals,       \* the entry signals: a symbol, and whether its stop is usable
  DayCandles,    \* what a day may bring
  Day,           \* ticks in 24 hours
  ApprovalTTL,   \* ticks
  ChannelCap,    \* capacity of the decision channel
  MaxClock,      \* bound: ticks
  MaxTaps,       \* bound: answers of the operator
  Faults,        \* whether the process may crash and the store refuse a write
  NoProposal

VARIABLES
  clock,
  candles,       \* the days that are over
  loaded,        \* how many of them the candle table has
  proposals,     \* the proposals table
  processed,     \* day of the last equity snapshot
  channel,       \* the decision channel
  taps, consent, \* the operator's answers: how many, and which IDs he approved
  pc,            \* where the engine is; "down" when no process runs
  caller,        \* who called awaitDecisions: "resume" or "run"
  runNow, asOf,  \* now and asOf of the last RunOnce
  signalled,     \* symbols whose signal this run has handled
  remaining,     \* awaitDecisions' map of undecided proposals
  polling,       \* those its default branch has found expired and not yet closed
  approved,      \* awaitDecisions' result
  book,          \* daySnapshot's broker
  gaveUp,        \* whether a run was given up with proposals still pending
  seen           \* the holdings of every day as the last run's replay found them

storeVars == <<loaded, proposals, processed>>
operatorVars == <<channel, taps, consent>>
awaitVars == <<remaining, polling, approved>>
runVars == <<caller, runNow, asOf, signalled>>
observerVars == <<gaveUp, seen>>
vars == <<clock, candles, storeVars, operatorVars, pc, runVars, awaitVars, book,
          observerVars>>

Statuses == {"PENDING", "APPROVED", "REJECTED", "EXPIRED", "SUBMITTED", "FILLED", "FAILED"}

\* stop says whether the row has a usable stop price.
Proposal == [symbol : Symbols, side : {"long", "exit"}, stop : BOOLEAN, asOf : Nat,
             createdAt : Nat, expiresAt : Nat, status : Statuses]

\* bare: the symbols that were last entered without a stop.
Book == [order : [Ids -> {"none", "PENDING", "FILLED"}], held : [Symbols -> Nat],
         bare : SUBSET Symbols]

DayCandle == [Symbols -> {"calm", "fall", "gap"}]

ASSUME ProposalsAssumption ==
  /\ Ids \subseteq Nat
  /\ Signals \subseteq Symbols \X BOOLEAN
  /\ DayCandles \subseteq DayCandle
  /\ Day \in Nat \ {0}
  /\ ApprovalTTL \in Nat \ {0}
  /\ ChannelCap \in Nat \ {0}
  /\ MaxClock \in Nat
  /\ MaxTaps \in Nat
  /\ Faults \in BOOLEAN
  /\ NoProposal \notin Proposal

WithStatus(statuses) ==
  {id \in Ids : proposals[id] # NoProposal /\ proposals[id].status \in statuses}

SetStatus(id, status) == proposals' = [proposals EXCEPT ![id].status = status]

-----------------------------------------------------------------------------
(***************************************************************************)
(* The broker, and its replay                                              *)
(***************************************************************************)
EmptyBook == [order |-> [id \in Ids |-> "none"], held |-> [s \in Symbols |-> 0], bare |-> {}]

Queued(b, s, side) ==
  {id \in Ids : b.order[id] = "PENDING" /\ proposals[id].symbol = s
                                        /\ proposals[id].side = side}

Accepts(b, s, side) ==
  /\ IF side = "long" THEN b.held[s] = 0 ELSE b.held[s] # 0
  /\ Queued(b, s, side) = {}

Submit(b, id) ==
  IF b.order[id] = "none" /\ Accepts(b, proposals[id].symbol, proposals[id].side)
  THEN [b EXCEPT !.order[id] = "PENDING"] ELSE b

\* Orders fill at a candle; a fall closes what was held before the day and has a stop.
Advance(b, day) ==
  LET trades == {s \in Symbols : candles[day][s] # "gap"}
  IN  [order |-> [id \in Ids |->
                    IF b.order[id] = "PENDING" /\ proposals[id].symbol \in trades
                    THEN "FILLED" ELSE b.order[id]],
       held |-> [s \in Symbols |->
                   IF s \in trades /\ Queued(b, s, "long") # {} THEN day
                   ELSE IF s \in trades /\ (\/ Queued(b, s, "exit") # {}
                                            \/ candles[day][s] = "fall" /\ s \notin b.bare)
                   THEN 0 ELSE b.held[s]],
       bare |-> {s \in Symbols :
                   IF s \in trades /\ Queued(b, s, "long") # {}
                   THEN \E id \in Queued(b, s, "long") : ~proposals[id].stop
                   ELSE s \in b.bare}]

Earlier(i, j) ==
  \/ proposals[i].createdAt < proposals[j].createdAt
  \/ proposals[i].createdAt = proposals[j].createdAt /\ i < j

\* The rows of a query that is ordered by creation time.
InOrder(ids) ==
  CHOOSE seq \in [1 .. Cardinality(ids) -> ids] :
    \A i, j \in DOMAIN seq : i < j => Earlier(seq[i], seq[j])

\* Mutant: what was approved but not yet noted as submitted is not replayed.
DecidedOnSubmitted(day) ==
  InOrder({id \in WithStatus({"SUBMITTED", "FILLED"}) : proposals[id].asOf = day})

\* Mutant: what has been filled is not replayed.
DecidedOnOpen(day) ==
  InOrder({id \in WithStatus({"APPROVED", "SUBMITTED"}) : proposals[id].asOf = day})

\* loadDecidedProposalsByDay
DecidedOn(day) ==
  InOrder({id \in WithStatus({"APPROVED", "SUBMITTED", "FILLED"}) : proposals[id].asOf = day})

\* The broker after each day; a submission that fails again is skipped.
Replay ==
  LET after[day \in 0 .. Len(candles)] ==
        IF day = 0 THEN EmptyBook
        ELSE FoldLeft(Submit, Advance(after[day - 1], day), DecidedOn(day))
  IN  after

-----------------------------------------------------------------------------
\* The backfill has brought a first day; what it was like does not matter yet.
Init ==
  /\ clock = 2 * Day
  /\ candles = <<[s \in Symbols |-> "calm"]>>
  /\ loaded = 0
  /\ proposals = [id \in Ids |-> NoProposal]
  /\ processed = 0
  /\ channel = <<>>
  /\ taps = 0
  /\ consent = {}
  /\ pc = "down"
  /\ caller = "resume"
  /\ runNow = 0
  /\ asOf = 0
  /\ signalled = {}
  /\ remaining = {}
  /\ polling = {}
  /\ approved = <<>>
  /\ book = EmptyBook
  /\ gaveUp = FALSE
  /\ seen = <<>>

\* Time passes; at midnight the day's candles are complete.  The engine computes
\* for seconds and waits for hours: ticks, and the operator's taps, come while it
\* waits.
Tick ==
  /\ pc \in {"down", "idle", "await"}
  /\ clock < MaxClock
  /\ clock' = clock + 1
  /\ IF clock' % Day = 0
     THEN \E c \in DayCandles : candles' = Append(candles, c)
     ELSE UNCHANGED candles
  /\ UNCHANGED <<storeVars, operatorVars, pc, runVars, awaitVars, book, observerVars>>

(***************************************************************************)
(* The operator                                                            *)
(***************************************************************************)
\* handleDecision: a tap on any proposal ever sent, as often as he likes; it
\* waits while the channel is full.
Tap(id, yes) ==
  /\ pc \in {"idle", "await"}
  /\ taps < MaxTaps
  /\ Len(channel) < ChannelCap
  /\ proposals[id] # NoProposal
  /\ proposals[id].side = "long"
  /\ channel' = Append(channel, [id |-> id, approved |-> yes])
  /\ taps' = taps + 1
  /\ consent' = IF yes THEN consent \union {id} ELSE consent
  /\ UNCHANGED <<clock, candles, storeVars, pc, runVars, awaitVars, book, observerVars>>

(***************************************************************************)
(* A daily run, up to the wait                                             *)
(***************************************************************************)
\* Runs of RunOnce have distinct times.
StartRun ==
  /\ pc = "idle"
  /\ clock % Day # 0
  /\ clock > runNow
  /\ processed < Len(candles)
  /\ runNow' = clock
  /\ asOf' = Len(candles)
  /\ loaded' = Len(candles)
  /\ LET replay == Replay
     IN  /\ book' = replay[Len(candles)]
         /\ seen' = [day \in 1 .. Len(candles) |-> replay[day].held]
  /\ signalled' = {}
  /\ caller' = "run"
  /\ pc' = "exits"
  /\ UNCHANGED <<clock, candles, proposals, processed, operatorVars, awaitVars, gaveUp>>

\* IDs are random in the code.  Here the next one is used: their order decides
\* only between proposals of one run, which are for different symbols.
Insert(id, s, side, stop, status, expiresAt) ==
  /\ proposals[id] = NoProposal
  /\ \A i \in Ids : proposals[i] = NoProposal => id <= i
  /\ proposals' = [proposals EXCEPT ![id] =
                     [symbol |-> s, side |-> side, stop |-> stop, asOf |-> asOf,
                      createdAt |-> runNow, expiresAt |-> expiresAt, status |-> status]]

\* processExitOrStop: first the order, then its row.
ProcessExit(id, s) ==
  /\ pc = "exits"
  /\ s \notin signalled
  /\ signalled' = signalled \union {s}
  /\ Accepts(book, s, "exit")
  /\ book' = [book EXCEPT !.order[id] = "PENDING"]
  /\ Insert(id, s, "exit", FALSE, "SUBMITTED", asOf)
  /\ UNCHANGED <<clock, candles, loaded, processed, operatorVars, pc, caller, runNow, asOf,
                 awaitVars, observerVars>>

ExitsDone ==
  /\ pc = "exits"
  /\ pc' = "entries"
  /\ UNCHANGED <<clock, candles, storeVars, operatorVars, runVars, awaitVars, book, observerVars>>

\* proposeEntry: the gate knows the positions, not the queued orders, and lets a stop
\* of zero or less pass.  Entries are proposed only early enough to expire within
\* MaxClock.
ProposeEntry(id, s, stop) ==
  /\ pc = "entries"
  /\ clock + ApprovalTTL <= MaxClock
  /\ s \notin signalled
  /\ <<s, stop>> \in Signals
  /\ book.held[s] = 0
  /\ signalled' = signalled \union {s}
  /\ Insert(id, s, "long", stop, "PENDING", runNow + ApprovalTTL)
  /\ remaining' = remaining \union {id}
  /\ UNCHANGED <<clock, candles, loaded, processed, operatorVars, pc, caller, runNow, asOf,
                 polling, approved, book, observerVars>>

EntriesDone ==
  /\ pc = "entries"
  /\ pc' = "await"
  /\ signalled' = {}
  /\ UNCHANGED <<clock, candles, storeVars, operatorVars, caller, runNow, asOf, awaitVars,
                 book, observerVars>>

(***************************************************************************)
(* awaitDecisions                                                          *)
(***************************************************************************)
\* Mutant: a decision is written whether or not the wait is for it.
TakeAnyDecision ==
  LET d == Head(channel)
  IN  /\ pc = "await"
      /\ remaining # {}
      /\ polling = {}
      /\ channel # <<>>
      /\ channel' = Tail(channel)
      /\ SetStatus(d.id, IF d.approved THEN "APPROVED" ELSE "REJECTED")
      /\ remaining' = remaining \ {d.id}
      /\ approved' = IF d.approved THEN Append(approved, d.id) ELSE approved
      /\ UNCHANGED <<clock, candles, loaded, processed, taps, consent, pc, runVars, polling,
                     book, observerVars>>

\* Mutant: a decided proposal stays in the map.
TakeDecisionKeeping ==
  LET d == Head(channel)
  IN  /\ pc = "await"
      /\ remaining # {}
      /\ polling = {}
      /\ channel # <<>>
      /\ channel' = Tail(channel)
      /\ IF d.id \in remaining
         THEN /\ SetStatus(d.id, IF d.approved THEN "APPROVED" ELSE "REJECTED")
              /\ approved' = IF d.approved THEN Append(approved, d.id) ELSE approved
         ELSE UNCHANGED <<proposals, approved>>
      /\ UNCHANGED <<clock, candles, loaded, processed, taps, consent, pc, runVars, remaining,
                     polling, book, observerVars>>

\* A decision in the channel is taken first, whatever the time is.
TakeDecision ==
  LET d == Head(channel)
  IN  /\ pc = "await"
      /\ remaining # {}
      /\ polling = {}
      /\ channel # <<>>
      /\ channel' = Tail(channel)
      /\ IF d.id \in remaining
         THEN /\ SetStatus(d.id, IF d.approved THEN "APPROVED" ELSE "REJECTED")
              /\ remaining' = remaining \ {d.id}
              /\ approved' = IF d.approved THEN Append(approved, d.id) ELSE approved
         ELSE UNCHANGED <<proposals, remaining, approved>>
      /\ UNCHANGED <<clock, candles, loaded, processed, taps, consent, pc, runVars, polling,
                     book, observerVars>>

\* Only with an empty channel does the loop look at the clock.
Poll ==
  /\ pc = "await"
  /\ polling = {}
  /\ channel = <<>>
  /\ polling' = {id \in remaining : clock >= proposals[id].expiresAt}
  /\ polling' # {}
  /\ UNCHANGED <<clock, candles, storeVars, operatorVars, pc, runVars, remaining, approved,
                 book, observerVars>>

\* Mutant: an expired proposal stays in the map.
ExpireOneKeeping(id) ==
  /\ id \in polling
  /\ polling' = polling \ {id}
  /\ SetStatus(id, "EXPIRED")
  /\ UNCHANGED <<clock, candles, loaded, processed, operatorVars, pc, runVars, remaining,
                 approved, book, observerVars>>

ExpireOne(id) ==
  /\ id \in polling
  /\ polling' = polling \ {id}
  /\ remaining' = remaining \ {id}
  /\ SetStatus(id, "EXPIRED")
  /\ UNCHANGED <<clock, candles, loaded, processed, operatorVars, pc, runVars, approved,
                 book, observerVars>>

\* The run goes on with its broker; ResumePending reconstructs one now.
AwaitDone ==
  /\ pc = "await"
  /\ remaining = {}
  /\ pc' = "settle"
  /\ book' = IF caller = "run" THEN book ELSE Replay[loaded]
  /\ UNCHANGED <<clock, candles, storeVars, operatorVars, runVars, awaitVars, observerVars>>

(***************************************************************************)
(* After the wait                                                          *)
(***************************************************************************)
\* The outcome of a status update is ignored here.
MaybeSetStatus(id, status) == SetStatus(id, status) \/ (Faults /\ UNCHANGED proposals)

\* The entry is queued before its stop is looked at: without one the row is FAILED,
\* and the order stays in the book of this run.
SubmitApproved ==
  LET id == Head(approved)
  IN  /\ pc = "settle"
      /\ caller = "run"
      /\ approved # <<>>
      /\ approved' = Tail(approved)
      /\ book' = Submit(book, id)
      /\ MaybeSetStatus(id, IF book'.order[id] # "none" /\ proposals[id].stop
                            THEN "SUBMITTED" ELSE "FAILED")
      /\ UNCHANGED <<clock, candles, loaded, processed, operatorVars, pc, runVars, remaining,
                     polling, observerVars>>

\* ResumePending trusts the replay to have submitted them.
MarkSubmitted ==
  /\ pc = "settle"
  /\ caller = "resume"
  /\ approved # <<>>
  /\ approved' = Tail(approved)
  /\ SetStatus(Head(approved), "SUBMITTED")
  /\ UNCHANGED <<clock, candles, loaded, processed, operatorVars, pc, runVars, remaining,
                 polling, book, observerVars>>

Settled == pc = "settle" /\ approved = <<>>

\* Mutant: a pending order counts as filled.
UnsyncedAccepted ==
  {id \in WithStatus({"APPROVED", "SUBMITTED"}) : book.order[id] # "none"}

Unsynced == {id \in WithStatus({"APPROVED", "SUBMITTED"}) : book.order[id] = "FILLED"}

SyncFill(id) ==
  /\ Settled
  /\ id \in Unsynced
  /\ SetStatus(id, "FILLED")
  /\ UNCHANGED <<clock, candles, loaded, processed, operatorVars, pc, runVars, awaitVars,
                 book, observerVars>>

\* RunOnce ends with the equity snapshot, which makes the day processed.
SyncDone ==
  /\ Settled
  /\ Unsynced = {}
  /\ pc' = "idle"
  /\ processed' = IF caller = "run" THEN asOf ELSE processed
  /\ book' = EmptyBook
  /\ UNCHANGED <<clock, candles, loaded, proposals, operatorVars, runVars, awaitVars, observerVars>>

(***************************************************************************)
(* Errors, crash and restart                                               *)
(***************************************************************************)
\* The store refuses a write that RunOnce does not ignore: a status update of
\* awaitDecisions, whose decision is then lost, or one of the last steps.  Run
\* reports it and goes on to the next day.
GiveUp ==
  /\ Faults
  /\ caller = "run"
  /\ \/ pc = "await" /\ polling # {} /\ UNCHANGED channel
     \/ /\ pc = "await" /\ polling = {} /\ channel # <<>>
        /\ Head(channel).id \in remaining
        /\ channel' = Tail(channel)
     \/ Settled /\ UNCHANGED channel
  /\ pc' = "idle"
  /\ gaveUp' = (gaveUp \/ remaining # {})
  /\ remaining' = {}
  /\ polling' = {}
  /\ approved' = <<>>
  /\ book' = EmptyBook
  /\ UNCHANGED <<clock, candles, storeVars, taps, consent, runVars, seen>>

\* Decisions in the channel die with the process.
Crash ==
  /\ Faults
  /\ pc # "down"
  /\ pc' = "down"
  /\ channel' = <<>>
  /\ signalled' = {}
  /\ remaining' = {}
  /\ polling' = {}
  /\ approved' = <<>>
  /\ book' = EmptyBook
  /\ UNCHANGED <<clock, candles, storeVars, taps, consent, caller, runNow, asOf, observerVars>>

\* Mutant: a process starts with nothing to wait for.
RestartFresh ==
  /\ pc = "down"
  /\ pc' = "await"
  /\ caller' = "resume"
  /\ remaining' = {}
  /\ UNCHANGED <<clock, candles, storeVars, operatorVars, runNow, asOf, signalled, polling,
                 approved, book, observerVars>>

\* ResumePending takes up every proposal still pending.
Restart ==
  /\ pc = "down"
  /\ pc' = "await"
  /\ caller' = "resume"
  /\ remaining' = WithStatus({"PENDING"})
  /\ UNCHANGED <<clock, candles, storeVars, operatorVars, runNow, asOf, signalled, polling,
                 approved, book, observerVars>>

-----------------------------------------------------------------------------
Operator == \E id \in Ids, yes \in BOOLEAN : Tap(id, yes)

Run ==
  \/ StartRun
  \/ \E id \in Ids, s \in Symbols :
       ProcessExit(id, s) \/ \E stop \in BOOLEAN : ProposeEntry(id, s, stop)
  \/ ExitsDone
  \/ EntriesDone

Await ==
  \/ TakeDecision
  \/ Poll
  \/ \E id \in Ids : ExpireOne(id)

Finish ==
  \/ AwaitDone
  \/ SubmitApproved
  \/ MarkSubmitted
  \/ \E id \in Ids : SyncFill(id)
  \/ SyncDone

Next == Tick \/ Operator \/ Run \/ Await \/ Finish \/ GiveUp \/ Crash \/ Restart

\* Time passes, and the loop of awaitDecisions, which polls, goes on.
Fairness == WF_vars(Tick) /\ WF_vars(Await)

Spec == Init /\ [][Next]_vars /\ Fairness

-----------------------------------------------------------------------------
(***************************************************************************)
(* Properties                                                              *)
(***************************************************************************)
TypeOK ==
  /\ clock \in Nat
  /\ candles \in Seq(DayCandle)
  /\ loaded \in 0 .. Len(candles)
  /\ proposals \in [Ids -> Proposal \union {NoProposal}]
  /\ processed \in 0 .. loaded
  /\ channel \in Seq([id : Ids, approved : BOOLEAN])
  /\ Len(channel) <= ChannelCap
  /\ taps \in Nat
  /\ consent \subseteq Ids
  /\ pc \in {"down", "idle", "exits", "entries", "await", "settle"}
  /\ caller \in {"resume", "run"}
  /\ runNow \in 0 .. clock
  /\ asOf \in 0 .. loaded
  /\ signalled \subseteq Symbols
  /\ remaining \subseteq WithStatus({"PENDING"})
  /\ polling \subseteq remaining
  /\ approved \in Seq(WithStatus({"APPROVED"}))
  /\ book \in Book
  /\ gaveUp \in BOOLEAN
  /\ seen \in Seq([Symbols -> Nat])

Life ==
  INSTANCE ProposalLife WITH
    status <- [id \in Ids |-> IF proposals[id] = NoProposal THEN "NONE"
                              ELSE proposals[id].status]

\* Whatever crashes, repeated taps and stale taps do in between, an entry is
\* submitted or filled only if the operator has approved it, each proposal is
\* decided once, and final states are final.
ImplementsProposalLife == Life!Spec

\* While a process runs, whatever is pending is being waited for: a crash at any
\* point loses no proposal, only a run that was given up does.
NoProposalForgotten == pc # "down" /\ ~gaveUp => WithStatus({"PENDING"}) \subseteq remaining

\* When a run is over, replaying the store yields the broker that the run built up in
\* memory but for the orders whose row says FAILED, which were queued before the missing
\* stop was noticed: nothing else is lost by a restart, nothing is done twice.
BookSurvivesRestart ==
  Settled /\ caller = "run" =>
    Replay[asOf] = [book EXCEPT !.order =
                      [id \in Ids |-> IF id \in WithStatus({"FAILED"}) THEN "none" ELSE @[id]]]

\* The holdings of a day that a run has seen never change afterwards.
ReplayIsStable ==
  LET replay == Replay
  IN  ~gaveUp => seen = [day \in DOMAIN seen |-> replay[day].held]

\* A proposal the panel shows as filled is an order that the replay fills.
FilledMeansFilled ==
  LET filled == WithStatus({"FILLED"})
  IN  ~gaveUp /\ filled # {} =>
        LET order == Replay[loaded].order IN \A id \in filled : order[id] = "FILLED"

\* The wait ends although nobody has to answer: every proposal is decided, or
\* expires, or the process is gone.
AwaitEnds == pc = "await" ~> remaining = {}

\* Violated.  daily.go: awaitDecisions is "bounded by each proposal's own
\* ExpiresAt" and ResumePending is "expiring anything past its deadline".
NoLateApproval ==
  [][\A id \in Ids :
       proposals[id] # NoProposal /\ proposals[id].status = "PENDING"
         /\ proposals'[id].status = "APPROVED" => clock < proposals[id].expiresAt]_vars

=============================================================================
