-------------------------- MODULE ProposalsProofs ---------------------------
(***************************************************************************)
(* Proofs about Proposals, for any symbols, proposals and operator, any    *)
(* expiry and channel, with and without faults.                            *)
(***************************************************************************)
EXTENDS Proposals, SequenceTheorems, LibraryProofs, TLAPS

(***************************************************************************)
(* The life of a proposal does not depend on what the broker does with its *)
(* order, so the part of the type invariant that leaves the broker out is  *)
(* inductive by itself.                                                    *)
(***************************************************************************)
StoreType ==
  /\ clock \in Nat
  /\ candles \in Seq(DayCandle)
  /\ loaded \in 0 .. Len(candles)
  /\ proposals \in [Ids -> Proposal \union {NoProposal}]
  /\ processed \in 0 .. loaded
  /\ runNow \in 0 .. clock
  /\ asOf \in 0 .. loaded

ChannelType ==
  /\ channel \in Seq([id : Ids, approved : BOOLEAN])
  /\ Len(channel) <= ChannelCap
  /\ taps \in Nat
  /\ consent \subseteq Ids

EngineType ==
  /\ pc \in {"down", "idle", "exits", "entries", "await", "settle"}
  /\ caller \in {"resume", "run"}
  /\ signalled \subseteq Symbols
  /\ gaveUp \in BOOLEAN

\* What awaitDecisions holds agrees with the table: what it waits for is pending,
\* what it has approved and not yet handed over is APPROVED and listed once.
AwaitInv ==
  /\ remaining \subseteq WithStatus({"PENDING"})
  /\ polling \subseteq remaining
  /\ approved \in Seq(WithStatus({"APPROVED"}))
  /\ \A i, j \in 1 .. Len(approved) : approved[i] = approved[j] => i = j

\* Only consent is ever in the channel as an approval.
ConsentInv ==
  /\ \A i \in 1 .. Len(channel) : channel[i].approved => channel[i].id \in consent
  /\ \A i \in 1 .. Len(channel) : proposals[channel[i].id] # NoProposal
  /\ consent \subseteq {id \in Ids : proposals[id] # NoProposal}

\* Between two waits nothing is left of the last one.
QuietInv ==
  /\ pc \in {"down", "idle", "exits"} => remaining = {} /\ approved = <<>>
  /\ pc = "entries" => approved = <<>>
  /\ pc = "settle" => remaining = {}
  /\ pc # "await" => polling = {}

LifeInv == StoreType /\ ChannelType /\ EngineType /\ AwaitInv /\ ConsentInv /\ QuietInv

IInv == LifeInv /\ NoProposalForgotten

-----------------------------------------------------------------------------
(***************************************************************************)
(* The operators on the table                                              *)
(***************************************************************************)
\* A proposal's status as ProposalLife sees it.
life == [id \in Ids |-> IF proposals[id] = NoProposal THEN "NONE" ELSE proposals[id].status]

\* A status update changes one row and nothing of it but its status.
LEMMA SetStatusEffect ==
  ASSUME StoreType, NEW id \in Ids, proposals[id] # NoProposal,
         NEW status \in Statuses, SetStatus(id, status)
  PROVE  /\ proposals' \in [Ids -> Proposal \union {NoProposal}]
         /\ \A i \in Ids : i # id => proposals'[i] = proposals[i]
         /\ proposals'[id] \in Proposal /\ proposals'[id] # NoProposal
         /\ proposals'[id].status = status
<1>1. proposals[id] \in Proposal
  BY DEF StoreType
<1>2. [proposals[id] EXCEPT !.status = status] \in Proposal
  BY <1>1 DEF Proposal
<1>3. proposals' = [proposals EXCEPT ![id] = [proposals[id] EXCEPT !.status = status]]
  BY DEF SetStatus
<1>4. [proposals[id] EXCEPT !.status = status].status = status
  BY <1>1 DEF Proposal
<1> QED
  BY <1>2, <1>3, <1>4, ProposalsAssumption DEF StoreType

\* The new row of a proposal, in a table without one.
LEMMA InsertEffect ==
  ASSUME StoreType, NEW id \in Ids, NEW s \in Symbols, NEW side \in {"long", "exit"},
         NEW stop \in BOOLEAN, NEW status \in Statuses, NEW expiresAt \in Nat,
         Insert(id, s, side, stop, status, expiresAt)
  PROVE  /\ proposals[id] = NoProposal
         /\ proposals' \in [Ids -> Proposal \union {NoProposal}]
         /\ \A i \in Ids : i # id => proposals'[i] = proposals[i]
         /\ proposals'[id] \in Proposal /\ proposals'[id] # NoProposal
         /\ proposals'[id].status = status
<1> DEFINE row == [symbol |-> s, side |-> side, stop |-> stop, asOf |-> asOf,
                   createdAt |-> runNow, expiresAt |-> expiresAt, status |-> status]
<1>1. row \in Proposal
  BY DEF StoreType, Proposal
<1> QED
  BY <1>1, ProposalsAssumption DEF StoreType, Insert

\* What one changed row, with its new status, does to the rows of given statuses
\* and to what ProposalLife sees.
OneRow(id, status) ==
  /\ life' = [life EXCEPT ![id] = status]
  /\ \A S \in SUBSET Statuses :
       WithStatus(S)' = (WithStatus(S) \ {id}) \union (IF status \in S THEN {id} ELSE {})

\* Both kinds of change are such.
LEMMA OneRowChanged ==
  ASSUME StoreType, NEW id \in Ids, NEW status \in Statuses,
         \A i \in Ids : i # id => proposals'[i] = proposals[i],
         proposals'[id] # NoProposal, proposals'[id].status = status
  PROVE  OneRow(id, status)
<1>1. life' = [life EXCEPT ![id] = status]
  BY DEF life
<1>2. ASSUME NEW S \in SUBSET Statuses
      PROVE  WithStatus(S)' = (WithStatus(S) \ {id}) \union (IF status \in S THEN {id} ELSE {})
  BY DEF WithStatus
<1> QED
  BY <1>1, <1>2 DEF OneRow

\* No row changes.
LEMMA NoRowChanged ==
  ASSUME UNCHANGED proposals
  PROVE  life' = life /\ \A S \in SUBSET Statuses : WithStatus(S)' = WithStatus(S)
  BY DEF life, WithStatus

-----------------------------------------------------------------------------
(***************************************************************************)
(* The invariant, part by part                                             *)
(***************************************************************************)
\* The store and the operator before the first start.
LEMMA InitLife == Init => IInv
<1> SUFFICES ASSUME Init PROVE IInv
  OBVIOUS
<1>1. candles \in Seq(DayCandle) /\ Len(candles) = 1
  BY DEF Init, DayCandle
<1>2. StoreType
  BY <1>1, ProposalsAssumption DEF Init, StoreType
<1>3. channel \in Seq([id : Ids, approved : BOOLEAN]) /\ Len(channel) = 0
  BY DEF Init
<1>4. ChannelType
  BY <1>3, ProposalsAssumption DEF Init, ChannelType
<1>8. EngineType
  BY DEF Init, EngineType
<1>5. AwaitInv /\ QuietInv
  BY DEF Init, AwaitInv, QuietInv
<1>6. ConsentInv
  BY <1>3 DEF Init, ConsentInv
<1>7. NoProposalForgotten
  BY DEF Init, NoProposalForgotten
<1> QED
  BY <1>2, <1>4, <1>5, <1>6, <1>7, <1>8 DEF IInv, LifeInv

\* A step that leaves the table alone.
Unwritten == UNCHANGED proposals

\* What TakeDecision does with the oldest decision in the channel.
LEMMA TakenDecision ==
  ASSUME LifeInv, TakeDecision
  PROVE  /\ Head(channel) \in [id : Ids, approved : BOOLEAN]
         /\ Head(channel).approved => Head(channel).id \in consent
         /\ channel' = Tail(channel)
         /\ channel' \in Seq([id : Ids, approved : BOOLEAN])
         /\ Len(channel') = Len(channel) - 1
         /\ \A i \in 1 .. Len(channel') : channel'[i] = channel[i + 1]
<1>1. channel \in Seq([id : Ids, approved : BOOLEAN]) /\ channel # <<>> /\ channel' = Tail(channel)
  BY DEF LifeInv, ChannelType, TakeDecision
<1>2. Len(channel) \in Nat /\ Len(channel) >= 1 /\ Head(channel) = channel[1]
  BY <1>1, HeadTailProperties, LenProperties
<1>3. /\ Tail(channel) \in Seq([id : Ids, approved : BOOLEAN])
      /\ Len(Tail(channel)) = Len(channel) - 1
      /\ \A i \in 1 .. Len(Tail(channel)) : Tail(channel)[i] = channel[i + 1]
  BY <1>1, HeadTailProperties
<1>4. Head(channel) \in [id : Ids, approved : BOOLEAN]
  BY <1>1, HeadTailProperties
<1>5. channel[1].approved => channel[1].id \in consent
  BY <1>2 DEF LifeInv, ConsentInv
<1> QED
  BY <1>1, <1>2, <1>3, <1>4, <1>5

\* A sequence whose elements all lie in a set is a sequence over it.
LEMMA SeqOfSmallerSet ==
  ASSUME NEW S, NEW T, NEW seq \in Seq(S), \A i \in 1 .. Len(seq) : seq[i] \in T
  PROVE  seq \in Seq(T)
<1>1. Len(seq) \in Nat /\ seq \in [1 .. Len(seq) -> S]
  BY LenProperties
<1>2. seq \in [1 .. Len(seq) -> T]
  BY <1>1
<1> QED
  BY <1>1, <1>2, SeqDef

\* A row in the approved list of awaitDecisions, and what is left without it.
LEMMA NextApproved ==
  ASSUME LifeInv, approved # <<>>
  PROVE  /\ Head(approved) \in WithStatus({"APPROVED"})
         /\ Tail(approved) \in Seq(WithStatus({"APPROVED"}) \ {Head(approved)})
         /\ \A i, j \in 1 .. Len(Tail(approved)) : Tail(approved)[i] = Tail(approved)[j] => i = j
<1>0. approved \in Seq(WithStatus({"APPROVED"})) /\ approved # <<>>
  BY DEF LifeInv, AwaitInv
<1>1. /\ Head(approved) = approved[1]
      /\ Len(approved) \in Nat /\ Len(approved) >= 1
      /\ Tail(approved) \in Seq(WithStatus({"APPROVED"}))
      /\ Len(Tail(approved)) = Len(approved) - 1
      /\ \A i \in 1 .. Len(Tail(approved)) : Tail(approved)[i] = approved[i + 1]
  BY <1>0, HeadTailProperties, LenProperties
<1>2. \A i \in 1 .. Len(approved) : approved[i] \in WithStatus({"APPROVED"})
  BY <1>0, ElementOfSeq
<1>3. \A i \in 1 .. Len(Tail(approved)) : Tail(approved)[i] \in WithStatus({"APPROVED"}) \ {Head(approved)}
  BY <1>1, <1>2 DEF LifeInv, AwaitInv
<1>4. Tail(approved) \in Seq(WithStatus({"APPROVED"}) \ {Head(approved)})
  BY <1>1, <1>3, SeqOfSmallerSet
<1>5. \A i, j \in 1 .. Len(Tail(approved)) : Tail(approved)[i] = Tail(approved)[j] => i = j
  BY <1>1 DEF LifeInv, AwaitInv
<1> QED
  BY <1>1, <1>2, <1>4, <1>5

\* An exit writes a row without a stop price.
LEMMA ExitInserts ==
  ASSUME NEW id \in Ids, NEW s \in Symbols, ProcessExit(id, s)
  PROVE  \E stop \in BOOLEAN : Insert(id, s, "exit", stop, "SUBMITTED", asOf)
<1>1. Insert(id, s, "exit", FALSE, "SUBMITTED", asOf)
  BY Zenon DEF ProcessExit
<1>2. FALSE \in BOOLEAN
  OBVIOUS
<1> QED
  BY <1>1, <1>2, Zenon

\* Every step writes at most one row, and to a status its state allows; only a
\* submission fails.
Written ==
  \/ Unwritten
  \/ \E id \in Ids :
       /\ proposals[id] # NoProposal
       /\ proposals[id].status \in {"PENDING", "APPROVED", "SUBMITTED"}
       /\ \E status \in Statuses \ {"PENDING"} :
            SetStatus(id, status) /\ (status = "FAILED" => SubmitApproved)
  \/ \E id \in Ids, s \in Symbols, side \in {"long", "exit"}, stop \in BOOLEAN,
       status \in {"PENDING", "SUBMITTED"}, expiresAt \in Nat :
         Insert(id, s, side, stop, status, expiresAt)

LEMMA NextWrites == LifeInv /\ [Next]_vars => Written
<1> SUFFICES ASSUME LifeInv, [Next]_vars PROVE Written
  OBVIOUS
<1> USE DEF Written, Unwritten, Statuses
<1>1. CASE Tick \/ Operator \/ StartRun \/ ExitsDone \/ EntriesDone \/ Poll \/ AwaitDone
           \/ SyncDone \/ GiveUp \/ Crash \/ Restart \/ UNCHANGED vars
  BY <1>1 DEF Tick, Operator, Tap, StartRun, ExitsDone, EntriesDone, Poll, AwaitDone, SyncDone,
     GiveUp, Crash, Restart, vars, storeVars
<1>2. ASSUME NEW id \in Ids, NEW s \in Symbols, ProcessExit(id, s) PROVE Written
  <2>1. PICK stop \in BOOLEAN : Insert(id, s, "exit", stop, "SUBMITTED", asOf)
    BY <1>2, ExitInserts
  <2>2. asOf \in Nat
    BY DEF LifeInv, StoreType
  <2> QED
    BY <2>1, <2>2
<1>3. ASSUME NEW id \in Ids, NEW s \in Symbols, NEW stop \in BOOLEAN, ProposeEntry(id, s, stop) PROVE Written
  <2>1. runNow + ApprovalTTL \in Nat
    BY ProposalsAssumption DEF LifeInv, StoreType
  <2> QED
    BY <1>3, <2>1 DEF ProposeEntry
<1>4. CASE TakeDecision
  <2>1. CASE Head(channel).id \in remaining
    BY <1>4, <2>1 DEF TakeDecision, LifeInv, AwaitInv, WithStatus
  <2> QED
    BY <1>4, <2>1 DEF TakeDecision
<1>5. ASSUME NEW id \in Ids, ExpireOne(id) PROVE Written
  BY <1>5 DEF ExpireOne, LifeInv, AwaitInv, WithStatus
<1>6. CASE SubmitApproved
  <2>1. Head(approved) \in WithStatus({"APPROVED"})
    BY <1>6, NextApproved DEF SubmitApproved
  <2> QED
    BY <1>6, <2>1 DEF SubmitApproved, MaybeSetStatus, WithStatus
<1>7. CASE MarkSubmitted
  <2>1. Head(approved) \in WithStatus({"APPROVED"})
    BY <1>7, NextApproved DEF MarkSubmitted
  <2> QED
    BY <1>7, <2>1 DEF MarkSubmitted, WithStatus
<1>8. ASSUME NEW id \in Ids, SyncFill(id) PROVE Written
  BY <1>8 DEF SyncFill, Unsynced, WithStatus
<1> QED
  BY <1>1, <1>2, <1>3, <1>4, <1>5, <1>6, <1>7, <1>8 DEF Next, Run, Await, Finish

\* A row once written stays, and new rows and rows of two times keep their types.
LEMMA WrittenRows ==
  ASSUME LifeInv, Written
  PROVE  /\ proposals' \in [Ids -> Proposal \union {NoProposal}]
         /\ \A id \in Ids : proposals[id] # NoProposal => proposals'[id] # NoProposal
<1>1. CASE Unwritten
  BY <1>1 DEF Unwritten, LifeInv, StoreType
<1>2. ASSUME NEW id \in Ids, proposals[id] # NoProposal, NEW status \in Statuses, SetStatus(id, status)
      PROVE  /\ proposals' \in [Ids -> Proposal \union {NoProposal}]
             /\ \A i \in Ids : proposals[i] # NoProposal => proposals'[i] # NoProposal
  BY <1>2, SetStatusEffect DEF LifeInv
<1>3. ASSUME NEW id \in Ids, NEW s \in Symbols, NEW side \in {"long", "exit"},
             NEW stop \in BOOLEAN, NEW status \in {"PENDING", "SUBMITTED"},
             NEW expiresAt \in Nat, Insert(id, s, side, stop, status, expiresAt)
      PROVE  /\ proposals' \in [Ids -> Proposal \union {NoProposal}]
             /\ \A i \in Ids : proposals[i] # NoProposal => proposals'[i] # NoProposal
  <2>1. status \in Statuses
    BY DEF Statuses
  <2> QED
    BY <1>3, <2>1, InsertEffect DEF LifeInv
<1> QED
  BY <1>1, <1>2, <1>3 DEF Written

\* Time goes on, days are added at the end, and no run looks beyond them.
LEMMA StoreKept == LifeInv /\ [Next]_vars => StoreType'
<1> SUFFICES ASSUME LifeInv, [Next]_vars PROVE StoreType'
  OBVIOUS
<1>0. /\ proposals' \in [Ids -> Proposal \union {NoProposal}]
      /\ StoreType
      /\ Len(candles) \in Nat
  BY NextWrites, WrittenRows, LenProperties DEF LifeInv, StoreType
<1>1. CASE Tick
  <2>1. UNCHANGED <<loaded, processed, runNow, asOf>> /\ clock' = clock + 1
    BY <1>1 DEF Tick, storeVars, runVars
  <2>2. CASE UNCHANGED candles
    BY <1>0, <2>1, <2>2 DEF StoreType
  <2>3. ASSUME NEW c \in DayCandles, candles' = Append(candles, c) PROVE StoreType'
    <3>1. candles' \in Seq(DayCandle) /\ Len(candles') = Len(candles) + 1
      BY <1>0, <2>3, AppendProperties, ProposalsAssumption DEF StoreType
    <3> QED
      BY <1>0, <2>1, <3>1 DEF StoreType
  <2> QED
    BY <1>1, <2>2, <2>3 DEF Tick
<1>2. CASE StartRun
  BY <1>0, <1>2 DEF StartRun, StoreType
<1>3. CASE SyncDone
  BY <1>0, <1>3 DEF SyncDone, StoreType, runVars
<1>4. CASE ~(Tick \/ StartRun \/ SyncDone)
  <2>1. UNCHANGED <<clock, candles, loaded, processed, runNow, asOf>>
    BY <1>4 DEF Next, Operator, Run, Await, Finish, Tap, ExitsDone, EntriesDone, Poll, AwaitDone,
       GiveUp, Crash, Restart, ProcessExit, ProposeEntry, TakeDecision, ExpireOne, SubmitApproved,
       MarkSubmitted, SyncFill, vars, storeVars, runVars
  <2> QED
    BY <1>0, <2>1 DEF StoreType
<1> QED
  BY <1>1, <1>2, <1>3, <1>4

\* The channel keeps to its capacity, and an approval in it is the operator's.
LEMMA ChannelKept == LifeInv /\ [Next]_vars => ChannelType' /\ ConsentInv'
<1> SUFFICES ASSUME LifeInv, [Next]_vars PROVE ChannelType' /\ ConsentInv'
  OBVIOUS
<1>0. /\ \A id \in Ids : proposals[id] # NoProposal => proposals'[id] # NoProposal
      /\ ChannelType /\ ConsentInv /\ Len(channel) \in Nat
  BY NextWrites, WrittenRows, LenProperties DEF LifeInv, ChannelType
<1>1. \A i \in 1 .. Len(channel) : channel[i].id \in Ids
  <2>1. \A i \in 1 .. Len(channel) : channel[i] \in [id : Ids, approved : BOOLEAN]
    BY <1>0, ElementOfSeq DEF ChannelType
  <2> QED
    BY <2>1
<1>2. ASSUME NEW id \in Ids, NEW yes \in BOOLEAN, Tap(id, yes) PROVE ChannelType' /\ ConsentInv'
  <2> DEFINE d == [id |-> id, approved |-> yes]
  <2>1. d \in [id : Ids, approved : BOOLEAN]
    OBVIOUS
  <2>2. /\ channel' \in Seq([id : Ids, approved : BOOLEAN])
        /\ Len(channel') = Len(channel) + 1
        /\ \A i \in 1 .. Len(channel) : channel'[i] = channel[i]
        /\ channel'[Len(channel) + 1] = d
    BY <1>0, <1>2, <2>1, AppendProperties DEF Tap, ChannelType
  <2>3. /\ consent' = IF yes THEN consent \union {id} ELSE consent
        /\ UNCHANGED proposals
        /\ taps' = taps + 1
        /\ proposals[id] # NoProposal
        /\ Len(channel) < ChannelCap
    BY <1>2 DEF Tap, storeVars
  <2>4. ChannelType'
    BY <1>0, <2>2, <2>3, ProposalsAssumption DEF ChannelType
  <2>5. ASSUME NEW i \in 1 .. Len(channel')
        PROVE  /\ channel'[i].approved => channel'[i].id \in consent'
               /\ proposals'[channel'[i].id] # NoProposal
    <3>1. CASE i = Len(channel) + 1
      BY <2>2, <2>3, <3>1
    <3>2. CASE i # Len(channel) + 1
      <4>1. i \in 1 .. Len(channel)
        BY <1>0, <2>2, <3>2
      <4> QED
        BY <1>0, <2>2, <2>3, <4>1 DEF ConsentInv
    <3> QED
      BY <3>1, <3>2
  <2>6. consent' \subseteq {j \in Ids : proposals'[j] # NoProposal}
    BY <1>0, <2>3 DEF ConsentInv
  <2> QED
    BY <2>4, <2>5, <2>6 DEF ConsentInv
<1>3. ASSUME UNCHANGED <<taps, consent>>,
             \/ UNCHANGED channel
             \/ channel' = <<>>
             \/ channel # <<>> /\ channel' = Tail(channel)
      PROVE  ChannelType' /\ ConsentInv'
  <2>1. /\ channel' \in Seq([id : Ids, approved : BOOLEAN])
        /\ Len(channel') \in Nat /\ Len(channel') <= Len(channel)
        /\ \A i \in 1 .. Len(channel') : \E j \in 1 .. Len(channel) : channel'[i] = channel[j]
    <3>1. CASE UNCHANGED channel
      BY <1>0, <3>1 DEF ChannelType
    <3>2. CASE channel' = <<>>
      BY <1>0, <3>2, EmptySeq
    <3>3. CASE channel # <<>> /\ channel' = Tail(channel)
      <4>1. /\ channel' \in Seq([id : Ids, approved : BOOLEAN])
            /\ Len(channel') = Len(channel) - 1
            /\ \A i \in 1 .. Len(channel') : channel'[i] = channel[i + 1]
        BY <1>0, <3>3, HeadTailProperties DEF ChannelType
      <4>2. \A i \in 1 .. Len(channel') : i + 1 \in 1 .. Len(channel)
        BY <1>0, <4>1
      <4>3. Len(channel') \in Nat
        BY <4>1, LenProperties
      <4> QED
        BY <1>0, <4>1, <4>2, <4>3
    <3> QED
      BY <1>3, <3>1, <3>2, <3>3
  <2>2. ChannelType'
    BY <1>0, <1>3, <2>1, ProposalsAssumption DEF ChannelType
  <2>3. \A id \in Ids : proposals[id] # NoProposal => proposals'[id] # NoProposal
    BY <1>0
  <2>4. ConsentInv'
    BY <1>0, <1>1, <1>3, <2>1, <2>3 DEF ConsentInv
  <2> QED
    BY <2>2, <2>4
<1>4. CASE ~Operator
  <2>1. /\ UNCHANGED <<taps, consent>>
        /\ \/ UNCHANGED channel
           \/ channel' = <<>>
           \/ channel # <<>> /\ channel' = Tail(channel)
    BY <1>4 DEF Next, Run, Await, Finish, Tick, StartRun, ExitsDone, EntriesDone, Poll, AwaitDone,
       GiveUp, Crash, Restart, ProcessExit, ProposeEntry, TakeDecision, ExpireOne, SubmitApproved,
       MarkSubmitted, SyncFill, SyncDone, vars, operatorVars
  <2> QED
    BY <1>3, <2>1
<1> QED
  BY <1>2, <1>4 DEF Operator

\* The engine is where it can be, and between two waits it holds nothing.
LEMMA EngineKept == LifeInv /\ [Next]_vars => EngineType' /\ QuietInv'
<1> SUFFICES ASSUME LifeInv, [Next]_vars PROVE EngineType' /\ QuietInv'
  OBVIOUS
<1>0. EngineType /\ QuietInv /\ polling \subseteq remaining
  BY DEF LifeInv, AwaitInv
<1> USE DEF EngineType, QuietInv
<1>1. CASE Tick \/ Operator \/ UNCHANGED vars
  BY <1>0, <1>1 DEF Tick, Operator, Tap, vars, runVars, awaitVars, observerVars
<1>2. CASE Run
  BY <1>0, <1>2 DEF Run, StartRun, ProcessExit, ProposeEntry, ExitsDone, EntriesDone, runVars,
     awaitVars, observerVars
<1>3. CASE Await
  BY <1>0, <1>3 DEF Await, TakeDecision, Poll, ExpireOne, runVars, observerVars
<1>4. CASE Finish
  BY <1>0, <1>4 DEF Finish, AwaitDone, SubmitApproved, MarkSubmitted, SyncFill, SyncDone, Settled,
     runVars, awaitVars, observerVars
<1>5. CASE GiveUp \/ Crash \/ Restart
  BY <1>0, <1>5 DEF GiveUp, Crash, Restart, runVars, observerVars
<1> QED
  BY <1>1, <1>2, <1>3, <1>4, <1>5 DEF Next

\* The wait's map and list agree with the table, whichever answers, polls,
\* crashes and refused writes come in between, and nothing pending is left out.
WaitInv == AwaitInv /\ NoProposalForgotten

\* The wait's variables and the table's pending and approved rows stay as they are.
LEMMA WaitKeptWhenIdle ==
  ASSUME LifeInv, WaitInv, UNCHANGED <<proposals, remaining, approved, gaveUp>>,
         polling' \subseteq remaining, pc = "down" => pc' = "down"
  PROVE  WaitInv'
<1>1. \A S \in SUBSET Statuses : WithStatus(S)' = WithStatus(S)
  BY NoRowChanged
<1>2. WithStatus({"PENDING"})' = WithStatus({"PENDING"}) /\ WithStatus({"APPROVED"})' = WithStatus({"APPROVED"})
  BY <1>1 DEF Statuses
<1> QED
  BY <1>2 DEF WaitInv, AwaitInv, NoProposalForgotten

\* One row changes its status, or is new.
LEMMA WaitKept == LifeInv /\ WaitInv /\ [Next]_vars => WaitInv'
<1> SUFFICES ASSUME LifeInv, WaitInv, [Next]_vars PROVE WaitInv'
  OBVIOUS
<1>0. AwaitInv /\ NoProposalForgotten /\ QuietInv /\ StoreType
  BY DEF LifeInv, WaitInv
<1>1. CASE Tick \/ Operator \/ StartRun \/ ExitsDone \/ EntriesDone \/ Poll \/ AwaitDone
           \/ SyncDone \/ UNCHANGED vars
  <2>1. /\ UNCHANGED <<proposals, remaining, approved, gaveUp>>
        /\ polling' \subseteq remaining
        /\ pc = "down" => pc' = "down"
    BY <1>0, <1>1 DEF Tick, Operator, Tap, StartRun, ExitsDone, EntriesDone, Poll, AwaitDone,
       SyncDone, Settled, vars, storeVars, awaitVars, observerVars, AwaitInv
  <2> QED
    BY <2>1, WaitKeptWhenIdle
<1>2. ASSUME NEW id \in Ids, NEW status \in Statuses,
             proposals[id] # NoProposal, SetStatus(id, status)
      PROVE  OneRow(id, status)
  BY <1>0, <1>2, SetStatusEffect, OneRowChanged
<1>3. ASSUME NEW id \in Ids, NEW s \in Symbols, NEW side \in {"long", "exit"},
             NEW stop \in BOOLEAN, NEW status \in {"PENDING", "SUBMITTED"},
             NEW expiresAt \in Nat, Insert(id, s, side, stop, status, expiresAt)
      PROVE  OneRow(id, status)
  <2>1. status \in Statuses
    BY DEF Statuses
  <2> QED
    BY <1>0, <1>3, <2>1, InsertEffect, OneRowChanged
<1>4. ASSUME NEW id \in Ids, NEW status \in Statuses, OneRow(id, status)
      PROVE  /\ WithStatus({"PENDING"})' =
                  (WithStatus({"PENDING"}) \ {id}) \union (IF status = "PENDING" THEN {id} ELSE {})
             /\ WithStatus({"APPROVED"})' =
                  (WithStatus({"APPROVED"}) \ {id}) \union (IF status = "APPROVED" THEN {id} ELSE {})
  BY <1>4 DEF OneRow, Statuses
<1>5. WithStatus({"PENDING"}) \intersect WithStatus({"APPROVED"}) = {}
  BY DEF WithStatus
<1>6. ASSUME NEW id \in Ids, NEW s \in Symbols, ProcessExit(id, s) PROVE WaitInv'
  <2>1. OneRow(id, "SUBMITTED")
    <3>1. PICK stop \in BOOLEAN : Insert(id, s, "exit", stop, "SUBMITTED", asOf)
      BY <1>6, ExitInserts
    <3>2. asOf \in Nat
      BY <1>0 DEF StoreType
    <3> QED
      BY <1>3, <3>1, <3>2
  <2>2. WithStatus({"PENDING"})' = WithStatus({"PENDING"}) \ {id}
    BY <1>4, <2>1 DEF Statuses
  <2>3. UNCHANGED <<remaining, polling, approved, gaveUp>> /\ remaining = {} /\ approved = <<>>
        /\ pc = "exits" /\ pc' = "exits"
    BY <1>0, <1>6 DEF ProcessExit, awaitVars, observerVars, QuietInv
  <2>4. approved' \in Seq(WithStatus({"APPROVED"})') /\ Len(approved') = 0
    BY <2>3, EmptySeq
  <2> QED
    BY <1>0, <2>2, <2>3, <2>4 DEF WaitInv, AwaitInv, NoProposalForgotten
<1>7. ASSUME NEW id \in Ids, NEW s \in Symbols, NEW stop \in BOOLEAN, ProposeEntry(id, s, stop) PROVE WaitInv'
  <2>1. runNow + ApprovalTTL \in Nat
    BY <1>0, ProposalsAssumption DEF StoreType
  <2>2. OneRow(id, "PENDING")
    BY <1>3, <1>7, <2>1 DEF ProposeEntry
  <2>3. WithStatus({"PENDING"})' = (WithStatus({"PENDING"}) \ {id}) \union {id}
    BY <1>4, <2>2 DEF Statuses
  <2>4. /\ UNCHANGED <<polling, approved, gaveUp>> /\ remaining' = remaining \union {id}
        /\ approved = <<>> /\ pc = "entries" /\ pc' = "entries"
    BY <1>0, <1>7 DEF ProposeEntry, observerVars, QuietInv
  <2>5. approved' \in Seq(WithStatus({"APPROVED"})') /\ Len(approved') = 0
    BY <2>4, EmptySeq
  <2> QED
    BY <1>0, <2>3, <2>4, <2>5 DEF WaitInv, AwaitInv, NoProposalForgotten
<1>8. CASE TakeDecision
  <2> DEFINE d == Head(channel)
  <2>1. UNCHANGED <<polling, gaveUp, pc>> /\ pc = "await" /\ polling = {}
    BY <1>8 DEF TakeDecision, observerVars
  <2>2. CASE d.id \notin remaining
    BY <1>8, <2>1, <2>2, WaitKeptWhenIdle DEF TakeDecision
  <2>3. CASE d.id \in remaining
    <3> DEFINE status == IF d.approved THEN "APPROVED" ELSE "REJECTED"
    <3>1. /\ d.id \in WithStatus({"PENDING"})
          /\ SetStatus(d.id, status)
          /\ remaining' = remaining \ {d.id}
          /\ approved' = IF d.approved THEN Append(approved, d.id) ELSE approved
      BY <1>0, <1>8, <2>3 DEF TakeDecision, AwaitInv
    <3>7. d.id \in Ids /\ proposals[d.id] # NoProposal
      BY <3>1 DEF WithStatus
    <3>8. status \in Statuses /\ status # "PENDING" /\ (status = "APPROVED" <=> d.approved)
      BY DEF Statuses
    <3> HIDE DEF d, status
    <3>2. OneRow(d.id, status)
      BY <1>2, <3>1, <3>7, <3>8
    <3>3. WithStatus({"PENDING"})' = WithStatus({"PENDING"}) \ {d.id}
      BY <1>4, <3>2, <3>7, <3>8
    <3>4. d.id \notin WithStatus({"APPROVED"})
      BY <1>5, <3>1
    <3>5. WithStatus({"APPROVED"})' =
            WithStatus({"APPROVED"}) \union (IF d.approved THEN {d.id} ELSE {})
      BY <1>4, <3>2, <3>4, <3>7, <3>8
    <3>6. approved' \in Seq(WithStatus({"APPROVED"})')
          /\ \A i, j \in 1 .. Len(approved') : approved'[i] = approved'[j] => i = j
      <4>0. approved \in Seq(WithStatus({"APPROVED"})')
        BY <1>0, <3>5, SeqMonotonic DEF AwaitInv
      <4>1. CASE ~d.approved
        BY <1>0, <3>1, <4>0, <4>1 DEF AwaitInv
      <4>2. CASE d.approved
        <5>1. d.id \in WithStatus({"APPROVED"})'
          BY <3>5, <4>2
        <5>2. /\ approved' \in Seq(WithStatus({"APPROVED"})')
              /\ Len(approved') = Len(approved) + 1
              /\ \A i \in 1 .. Len(approved) : approved'[i] = approved[i]
              /\ approved'[Len(approved) + 1] = d.id
          BY <3>1, <4>0, <4>2, <5>1, AppendProperties
        <5>3. \A i \in 1 .. Len(approved) : approved[i] # d.id
          BY <1>0, <3>4, ElementOfSeq DEF AwaitInv
        <5>4. Len(approved) \in Nat
          BY <4>0, LenProperties
        <5> QED
          BY <1>0, <5>2, <5>3, <5>4 DEF AwaitInv
      <4> QED
        BY <4>1, <4>2
    <3> QED
      BY <1>0, <2>1, <3>1, <3>3, <3>6 DEF WaitInv, AwaitInv, NoProposalForgotten
  <2> QED
    BY <2>2, <2>3
<1>9. ASSUME NEW id \in Ids, ExpireOne(id) PROVE WaitInv'
  <2>1. id \in WithStatus({"PENDING"}) /\ SetStatus(id, "EXPIRED")
        /\ remaining' = remaining \ {id} /\ polling' = polling \ {id}
        /\ UNCHANGED <<approved, gaveUp, pc>>
    BY <1>0, <1>9 DEF ExpireOne, AwaitInv, observerVars
  <2>2. OneRow(id, "EXPIRED")
    BY <1>2, <2>1 DEF WithStatus, Statuses
  <2>3. WithStatus({"PENDING"})' = WithStatus({"PENDING"}) \ {id}
        /\ WithStatus({"APPROVED"})' = WithStatus({"APPROVED"})
    BY <1>4, <1>5, <2>1, <2>2 DEF Statuses
  <2> QED
    BY <1>0, <2>1, <2>3 DEF WaitInv, AwaitInv, NoProposalForgotten
<1>10. CASE SubmitApproved \/ MarkSubmitted
  <2> DEFINE id == Head(approved)
  <2>1. /\ UNCHANGED <<remaining, polling, gaveUp, pc>> /\ pc = "settle"
        /\ approved # <<>> /\ approved' = Tail(approved)
        /\ \/ UNCHANGED proposals
           \/ \E status \in {"SUBMITTED", "FAILED"} : SetStatus(id, status)
    BY <1>10 DEF SubmitApproved, MarkSubmitted, MaybeSetStatus, observerVars
  <2>2. /\ id \in WithStatus({"APPROVED"})
        /\ approved' \in Seq(WithStatus({"APPROVED"}) \ {id})
        /\ \A i, j \in 1 .. Len(approved') : approved'[i] = approved'[j] => i = j
    BY <2>1, NextApproved
  <2>3. CASE UNCHANGED proposals
    <3>1. UNCHANGED <<WithStatus({"PENDING"}), WithStatus({"APPROVED"})>>
      BY <2>3 DEF WithStatus
    <3>2. approved' \in Seq(WithStatus({"APPROVED"})')
      BY <2>2, <3>1, SeqMonotonic
    <3> QED
      BY <1>0, <2>1, <2>2, <3>1, <3>2 DEF WaitInv, AwaitInv, NoProposalForgotten
  <2>4. ASSUME NEW status \in {"SUBMITTED", "FAILED"}, SetStatus(id, status) PROVE WaitInv'
    <3>0. /\ status \in Statuses /\ status \notin {"PENDING", "APPROVED"}
          /\ id \in Ids /\ proposals[id] # NoProposal /\ id \notin WithStatus({"PENDING"})
      BY <1>5, <2>2 DEF WithStatus, Statuses
    <3>1. OneRow(id, status)
      BY <1>2, <2>4, <3>0
    <3>2. WithStatus({"PENDING"})' = WithStatus({"PENDING"})
          /\ WithStatus({"APPROVED"})' = WithStatus({"APPROVED"}) \ {id}
      BY <1>4, <3>0, <3>1
    <3> QED
      BY <1>0, <2>1, <2>2, <3>2 DEF WaitInv, AwaitInv, NoProposalForgotten
  <2> QED
    BY <2>1, <2>3, <2>4
<1>11. ASSUME NEW id \in Ids, SyncFill(id) PROVE WaitInv'
  <2>1. /\ UNCHANGED <<remaining, polling, approved, gaveUp, pc>>
        /\ approved = <<>> /\ SetStatus(id, "FILLED")
        /\ proposals[id] # NoProposal /\ id \notin WithStatus({"PENDING"})
    BY <1>11 DEF SyncFill, Settled, Unsynced, WithStatus, awaitVars, observerVars
  <2>2. OneRow(id, "FILLED")
    BY <1>2, <2>1 DEF Statuses
  <2>3. WithStatus({"PENDING"})' = WithStatus({"PENDING"})
    BY <1>4, <2>1, <2>2 DEF Statuses
  <2>4. approved' \in Seq(WithStatus({"APPROVED"})') /\ Len(approved') = 0
    BY <2>1, EmptySeq
  <2> QED
    BY <1>0, <2>1, <2>3, <2>4 DEF WaitInv, AwaitInv, NoProposalForgotten
<1>12. CASE GiveUp \/ Crash
  <2>1. /\ remaining' = {} /\ polling' = {} /\ approved' = <<>>
        /\ UNCHANGED proposals
        /\ GiveUp => pc # "down" /\ gaveUp' = (gaveUp \/ remaining # {})
        /\ Crash => pc' = "down"
    BY <1>12 DEF GiveUp, Crash, Settled, storeVars
  <2>2. WithStatus({"PENDING"})' = WithStatus({"PENDING"})
    BY <2>1 DEF WithStatus
  <2>3. approved' \in Seq(WithStatus({"APPROVED"})') /\ Len(approved') = 0
    BY <2>1, EmptySeq
  <2>4. NoProposalForgotten'
    BY <1>0, <1>12, <2>1, <2>2 DEF NoProposalForgotten
  <2> QED
    BY <2>1, <2>3, <2>4 DEF WaitInv, AwaitInv
<1>13. CASE Restart
  <2>1. /\ remaining' = WithStatus({"PENDING"}) /\ approved = <<>> /\ polling = {}
        /\ UNCHANGED <<proposals, approved, polling>>
    BY <1>0, <1>13 DEF Restart, QuietInv, AwaitInv, storeVars
  <2>2. WithStatus({"PENDING"})' = WithStatus({"PENDING"})
    BY <2>1 DEF WithStatus
  <2>3. approved' \in Seq(WithStatus({"APPROVED"})') /\ Len(approved') = 0
    BY <2>1, EmptySeq
  <2> QED
    BY <2>1, <2>2, <2>3 DEF WaitInv, AwaitInv, NoProposalForgotten
<1> QED
  BY <1>1, <1>6, <1>7, <1>8, <1>9, <1>10, <1>11, <1>12, <1>13 DEF Next, Run, Await, Finish

\* The invariant is inductive.
THEOREM Inductive == IInv /\ [Next]_vars => IInv'
  BY StoreKept, ChannelKept, EngineKept, WaitKept DEF IInv, LifeInv, WaitInv

\* While a process runs, whatever is pending is waited for, over crashes at any
\* point, refused writes, stale and repeated answers: only a run that was given up
\* forgets a proposal.
THEOREM NothingIsForgotten == Spec => []NoProposalForgotten
<1>1. IInv => NoProposalForgotten
  BY DEF IInv
<1> QED
  BY InitLife, Inductive, <1>1, PTL DEF Spec

-----------------------------------------------------------------------------
(***************************************************************************)
(* The engine implements ProposalLife                                      *)
(***************************************************************************)
\* A status update is a move of the abstract proposal.
LEMMA UpdateIsMove ==
  ASSUME LifeInv, NEW id \in Ids, proposals[id] # NoProposal, NEW status \in Statuses,
         SetStatus(id, status)
  PROVE  life[id] = proposals[id].status /\ life' = [life EXCEPT ![id] = status]
<1>1. OneRow(id, status)
  BY SetStatusEffect, OneRowChanged DEF LifeInv
<1> QED
  BY <1>1 DEF OneRow, life

\* An inserted row is a proposal that was not there before.
LEMMA InsertIsMove ==
  ASSUME LifeInv, NEW id \in Ids, NEW s \in Symbols, NEW side \in {"long", "exit"},
         NEW stop \in BOOLEAN, NEW status \in {"PENDING", "SUBMITTED"},
         NEW expiresAt \in Nat, Insert(id, s, side, stop, status, expiresAt)
  PROVE  life[id] = "NONE" /\ life' = [life EXCEPT ![id] = status]
<1>1. status \in Statuses
  BY DEF Statuses
<1>2. proposals[id] = NoProposal /\ OneRow(id, status)
  BY <1>1, InsertEffect, OneRowChanged DEF LifeInv
<1> QED
  BY <1>2 DEF OneRow, life

\* The refinement mapping is life.
LEMMA LifeIsMapping ==
  [id \in Ids |-> IF proposals[id] = NoProposal THEN "NONE" ELSE proposals[id].status] = life
  BY DEF life

\* What a move of life is for ProposalLife.
LEMMA MoveInLife ==
  ASSUME NEW id \in Ids, NEW from, NEW to,
         life[id] = from, life' = [life EXCEPT ![id] = to], UNCHANGED consent
  PROVE  Life!Move(id, from, to)
  BY DEF Life!Move, life

\* A step that writes no row and changes no consent is a stutter.
LEMMA QuietStep ==
  ASSUME UNCHANGED <<proposals, consent>>
  PROVE  UNCHANGED Life!vars
  BY DEF Life!vars

\* The steps of the operator and of awaitDecisions. An approval is written only
\* for a proposal that is still pending and that the operator has consented to.
LEMMA AwaitIsLife ==
  ASSUME IInv, Operator \/ Await
  PROVE  [Life!Next]_Life!vars
<1>1. ASSUME NEW id \in Ids, NEW yes \in BOOLEAN, Tap(id, yes) PROVE [Life!Next]_Life!vars
  <2>1. UNCHANGED proposals /\ proposals[id] # NoProposal
        /\ consent' = IF yes THEN consent \union {id} ELSE consent
    BY <1>1 DEF Tap, storeVars
  <2>2. CASE ~yes
    BY <2>1, <2>2, QuietStep
  <2>3. CASE yes
    <3>1. life[id] # "NONE" /\ life' = life
      <4>1. proposals[id] \in Proposal
        BY <2>1 DEF IInv, LifeInv, StoreType
      <4> QED
        BY <2>1, <4>1 DEF life, Proposal, Statuses
    <3> QED
      BY <2>1, <2>3, <3>1, LifeIsMapping DEF Life!Next, Life!Consent
  <2> QED
    BY <2>2, <2>3
<1>2. CASE TakeDecision
  <2> DEFINE d == Head(channel)
  <2>1. UNCHANGED consent /\ (d.approved => d.id \in consent)
    BY <1>2, TakenDecision DEF TakeDecision, IInv
  <2>2. CASE d.id \notin remaining
    BY <1>2, <2>1, <2>2, QuietStep DEF TakeDecision
  <2>3. CASE d.id \in remaining
    <3>1. d.id \in Ids /\ proposals[d.id] # NoProposal /\ proposals[d.id].status = "PENDING"
      BY <2>3 DEF IInv, LifeInv, AwaitInv, WithStatus
    <3>2. CASE d.approved
      <4>1. SetStatus(d.id, "APPROVED")
        BY <1>2, <2>3, <3>2 DEF TakeDecision
      <4>2. life[d.id] = "PENDING" /\ life' = [life EXCEPT ![d.id] = "APPROVED"]
        BY <3>1, <4>1, UpdateIsMove DEF IInv, Statuses
      <4> QED
        BY <2>1, <3>1, <3>2, <4>2, MoveInLife DEF Life!Next, Life!Approve
    <3>3. CASE ~d.approved
      <4>1. SetStatus(d.id, "REJECTED")
        BY <1>2, <2>3, <3>3 DEF TakeDecision
      <4>2. life[d.id] = "PENDING" /\ life' = [life EXCEPT ![d.id] = "REJECTED"]
        BY <3>1, <4>1, UpdateIsMove DEF IInv, Statuses
      <4> QED
        BY <2>1, <3>1, <4>2, MoveInLife DEF Life!Next, Life!Reject
    <3> QED
      BY <3>2, <3>3
  <2> QED
    BY <2>2, <2>3
<1>3. CASE Poll
  BY <1>3, QuietStep DEF Poll, storeVars, operatorVars
<1>4. ASSUME NEW id \in Ids, ExpireOne(id) PROVE [Life!Next]_Life!vars
  <2>1. proposals[id] # NoProposal /\ proposals[id].status = "PENDING"
        /\ SetStatus(id, "EXPIRED") /\ UNCHANGED consent
    BY <1>4 DEF ExpireOne, IInv, LifeInv, AwaitInv, WithStatus, operatorVars
  <2>2. life[id] = "PENDING" /\ life' = [life EXCEPT ![id] = "EXPIRED"]
    BY <2>1, UpdateIsMove DEF IInv, Statuses
  <2> QED
    BY <2>1, <2>2, MoveInLife DEF Life!Next, Life!Expire
<1> QED
  BY <1>1, <1>2, <1>3, <1>4 DEF Operator, Await

\* The steps of a run before and after the wait. What leaves APPROVED goes to the
\* broker or has been refused by it, and what is filled was submitted.
LEMMA RunIsLife ==
  ASSUME IInv, Run \/ Finish
  PROVE  [Life!Next]_Life!vars
<1>1. CASE StartRun \/ ExitsDone \/ EntriesDone \/ AwaitDone \/ SyncDone
  BY <1>1, QuietStep DEF StartRun, ExitsDone, EntriesDone, AwaitDone, SyncDone, storeVars, operatorVars
<1>2. ASSUME NEW id \in Ids, NEW s \in Symbols, ProcessExit(id, s) PROVE [Life!Next]_Life!vars
  <2>0. PICK stop \in BOOLEAN : Insert(id, s, "exit", stop, "SUBMITTED", asOf)
    BY <1>2, ExitInserts
  <2>1. Insert(id, s, "exit", stop, "SUBMITTED", asOf) /\ UNCHANGED consent /\ asOf \in Nat
    BY <1>2, <2>0 DEF ProcessExit, operatorVars, IInv, LifeInv, StoreType
  <2>2. life[id] = "NONE" /\ life' = [life EXCEPT ![id] = "SUBMITTED"]
    BY <2>1, InsertIsMove DEF IInv
  <2> QED
    BY <2>1, <2>2, MoveInLife DEF Life!Next, Life!SubmitExit
<1>3. ASSUME NEW id \in Ids, NEW s \in Symbols, NEW stop \in BOOLEAN, ProposeEntry(id, s, stop) PROVE [Life!Next]_Life!vars
  <2>1. Insert(id, s, "long", stop, "PENDING", runNow + ApprovalTTL) /\ UNCHANGED consent
        /\ runNow + ApprovalTTL \in Nat
    BY <1>3, ProposalsAssumption DEF ProposeEntry, operatorVars, IInv, LifeInv, StoreType
  <2>2. life[id] = "NONE" /\ life' = [life EXCEPT ![id] = "PENDING"]
    BY <2>1, InsertIsMove DEF IInv
  <2> QED
    BY <2>1, <2>2, MoveInLife DEF Life!Next, Life!Propose
<1>4. CASE SubmitApproved \/ MarkSubmitted
  <2> DEFINE id == Head(approved)
  <2>1. /\ approved # <<>> /\ UNCHANGED consent
        /\ \/ UNCHANGED proposals
           \/ SetStatus(id, "SUBMITTED")
           \/ SetStatus(id, "FAILED")
    BY <1>4 DEF SubmitApproved, MarkSubmitted, MaybeSetStatus, operatorVars
  <2>2. id \in WithStatus({"APPROVED"})
    BY <2>1, NextApproved DEF IInv
  <2>3. id \in Ids /\ proposals[id] # NoProposal /\ proposals[id].status = "APPROVED"
    BY <2>2 DEF WithStatus
  <2> HIDE DEF id
  <2>4. CASE UNCHANGED proposals
    BY <2>1, <2>4, QuietStep
  <2>5. CASE SetStatus(id, "SUBMITTED")
    <3>1. life[id] = "APPROVED" /\ life' = [life EXCEPT ![id] = "SUBMITTED"]
      BY <2>3, <2>5, UpdateIsMove DEF IInv, Statuses
    <3> QED
      BY <2>1, <2>3, <3>1, MoveInLife DEF Life!Next, Life!Submit
  <2>6. CASE SetStatus(id, "FAILED")
    <3>1. life[id] = "APPROVED" /\ life' = [life EXCEPT ![id] = "FAILED"]
      BY <2>3, <2>6, UpdateIsMove DEF IInv, Statuses
    <3> QED
      BY <2>1, <2>3, <3>1, MoveInLife DEF Life!Next, Life!Fail
  <2> QED
    BY <2>1, <2>4, <2>5, <2>6
<1>5. ASSUME NEW id \in Ids, SyncFill(id) PROVE [Life!Next]_Life!vars
  <2>1. /\ proposals[id] # NoProposal /\ proposals[id].status \in {"APPROVED", "SUBMITTED"}
        /\ SetStatus(id, "FILLED") /\ UNCHANGED consent
    BY <1>5 DEF SyncFill, Unsynced, WithStatus, operatorVars
  <2>2. life[id] \in {"APPROVED", "SUBMITTED"} /\ life' = [life EXCEPT ![id] = "FILLED"]
    BY <2>1, UpdateIsMove DEF IInv, Statuses
  <2> QED
    BY <2>1, <2>2, MoveInLife DEF Life!Next, Life!Fill
<1> QED
  BY <1>1, <1>2, <1>3, <1>4, <1>5 DEF Run, Finish

\* An entry is submitted or filled only if the operator has approved it, each
\* proposal is decided once, and final states are final: every step of the engine
\* is one of ProposalLife's or changes nothing there.
THEOREM ProposalsImplementProposalLife == Spec => ImplementsProposalLife
<1>1. Init => Life!Init
  BY DEF Init, Life!Init
<1>2. IInv /\ [Next]_vars => [Life!Next]_Life!vars
  <2> SUFFICES ASSUME IInv, [Next]_vars PROVE [Life!Next]_Life!vars
    OBVIOUS
  <2>1. CASE Tick \/ GiveUp \/ Crash \/ Restart \/ UNCHANGED vars
    BY <2>1, QuietStep DEF Tick, GiveUp, Crash, Restart, vars, storeVars, operatorVars
  <2> QED
    BY <2>1, AwaitIsLife, RunIsLife DEF Next
<1> QED
  BY InitLife, Inductive, <1>1, <1>2, PTL DEF Spec, ImplementsProposalLife, Life!Spec

-----------------------------------------------------------------------------
(***************************************************************************)
(* The rows of the table, and the order in which they are replayed         *)
(***************************************************************************)
\* The proposals that are in the table.
Rows == {id \in Ids : proposals[id] # NoProposal}

\* The part of StoreType that is about the table.
TableType == proposals \in [Ids -> Proposal \union {NoProposal}]

\* What the columns of a row hold.
LEMMA RowType ==
  ASSUME TableType, NEW id \in Rows
  PROVE  /\ id \in Ids /\ id \in Nat
         /\ proposals[id] \in Proposal
         /\ proposals[id].symbol \in Symbols /\ proposals[id].side \in {"long", "exit"}
         /\ proposals[id].createdAt \in Nat /\ proposals[id].asOf \in Nat
         /\ proposals[id].status \in Statuses
  BY ProposalsAssumption DEF TableType, Rows, Proposal

\* Replay's order is strict and total.
LEMMA EarlierIsOrder ==
  ASSUME TableType
  PROVE  /\ \A i \in Rows : ~Earlier(i, i)
         /\ \A i, j \in Rows : i # j => Earlier(i, j) \/ Earlier(j, i)
         /\ \A i, j \in Rows : ~(Earlier(i, j) /\ Earlier(j, i))
         /\ \A i, j, k \in Rows : Earlier(i, j) /\ Earlier(j, k) => Earlier(i, k)
  BY RowType DEF Earlier

\* Of finitely many proposals one is the first.
LEMMA FirstExists ==
  ASSUME TableType
  PROVE  \A S \in SUBSET Rows : S # {} /\ IsFiniteSet(S)
           => \E x \in S : \A y \in S \ {x} : Earlier(x, y)
<1> DEFINE Q == {n \in Nat : \A S \in SUBSET Rows : S # {} /\ IsFiniteSet(S) /\ Cardinality(S) = n
                               => \E x \in S : \A y \in S \ {x} : Earlier(x, y)}
<1>1. 0 \in Q
  BY FS_EmptySet
<1>2. ASSUME NEW n \in Nat, n \in Q PROVE n + 1 \in Q
  <2> SUFFICES ASSUME NEW S \in SUBSET Rows, S # {}, IsFiniteSet(S), Cardinality(S) = n + 1
               PROVE  \E x \in S : \A y \in S \ {x} : Earlier(x, y)
    OBVIOUS
  <2>1. PICK p \in S : TRUE
    OBVIOUS
  <2>2. PICK T \in SUBSET Rows : T = S \ {p}
    OBVIOUS
  <2>3. IsFiniteSet(T) /\ Cardinality(T) = n
    BY <2>1, <2>2, FS_RemoveElement
  <2>4. CASE T = {}
    BY <2>1, <2>2, <2>4
  <2>5. CASE T # {}
    <3>1. PICK x \in T : \A y \in T \ {x} : Earlier(x, y)
      BY <1>2, <2>3, <2>5
    <3>2. x # p /\ x \in Rows /\ p \in Rows
      BY <2>1, <2>2
    <3>3. CASE Earlier(x, p)
      BY <2>2, <3>1, <3>2, <3>3
    <3>4. CASE Earlier(p, x)
      <4>1. \A y \in S \ {p} : Earlier(p, y)
        BY <2>2, <3>1, <3>2, <3>4, EarlierIsOrder
      <4> QED
        BY <2>1, <4>1
    <3> QED
      BY <3>2, <3>3, <3>4, EarlierIsOrder
  <2> QED
    BY <2>4, <2>5
<1> HIDE DEF Q
<1>3. Nat \subseteq Q
  BY <1>1, <1>2, SetInduction
<1> SUFFICES ASSUME NEW S \in SUBSET Rows, S # {}, IsFiniteSet(S)
             PROVE  \E x \in S : \A y \in S \ {x} : Earlier(x, y)
  OBVIOUS
<1>4. Cardinality(S) \in Nat
  BY FS_CardinalityType
<1> QED
  BY <1>3, <1>4 DEF Q

\* Every proposal of ids once, the earlier ones first.
Lists(seq, ids) ==
  /\ seq \in [1 .. Cardinality(ids) -> ids]
  /\ \A i, j \in 1 .. Cardinality(ids) : i < j => Earlier(seq[i], seq[j])

\* Finitely many proposals can be listed in order.
LEMMA InOrderLists ==
  ASSUME TableType
  PROVE  \A S \in SUBSET Rows : IsFiniteSet(S) => Lists(InOrder(S), S)
<1> DEFINE Q == {n \in Nat : \A S \in SUBSET Rows : IsFiniteSet(S) /\ Cardinality(S) = n
                               => \E seq : Lists(seq, S)}
<1>1. 0 \in Q
  <2> SUFFICES ASSUME NEW S \in SUBSET Rows, IsFiniteSet(S), Cardinality(S) = 0
               PROVE  \E seq : Lists(seq, S)
    OBVIOUS
  <2>1. S = {} /\ 1 .. Cardinality(S) = {}
    BY FS_EmptySet
  <2>2. Lists([i \in {} |-> 0], S)
    BY <2>1 DEF Lists
  <2> QED
    BY <2>2
<1>2. ASSUME NEW n \in Nat, n \in Q PROVE n + 1 \in Q
  <2> SUFFICES ASSUME NEW S \in SUBSET Rows, IsFiniteSet(S), Cardinality(S) = n + 1
               PROVE  \E seq : Lists(seq, S)
    OBVIOUS
  <2>0. S # {}
    BY FS_EmptySet
  <2>1. PICK p \in S : \A y \in S \ {p} : Earlier(p, y)
    BY <2>0, FirstExists
  <2>2. PICK T \in SUBSET Rows : T = S \ {p}
    OBVIOUS
  <2>3. IsFiniteSet(T) /\ Cardinality(T) = n
    BY <2>1, <2>2, FS_RemoveElement
  <2>4. PICK rest : Lists(rest, T)
    BY <1>2, <2>3
  <2> DEFINE seq == [i \in 1 .. n + 1 |-> IF i = 1 THEN p ELSE rest[i - 1]]
  <2>5. rest \in [1 .. n -> T] /\ \A i, j \in 1 .. n : i < j => Earlier(rest[i], rest[j])
    BY <2>3, <2>4 DEF Lists
  <2>6. \A i \in 1 .. n + 1 : i # 1 => i - 1 \in 1 .. n /\ seq[i] = rest[i - 1] /\ seq[i] \in S \ {p}
    BY <2>2, <2>5
  <2>7. seq[1] = p
    OBVIOUS
  <2> HIDE DEF seq
  <2>8. seq \in [1 .. n + 1 -> S]
    BY <2>6, <2>7 DEF seq
  <2>9. ASSUME NEW i \in 1 .. n + 1, NEW j \in 1 .. n + 1, i < j PROVE Earlier(seq[i], seq[j])
    <3>1. j # 1 /\ seq[j] \in S \ {p} /\ seq[j] = rest[j - 1] /\ j - 1 \in 1 .. n
      BY <2>6, <2>9
    <3>2. CASE i = 1
      BY <2>1, <2>7, <3>1, <3>2
    <3>3. CASE i # 1
      <4>1. seq[i] = rest[i - 1] /\ i - 1 \in 1 .. n /\ i - 1 < j - 1
        BY <2>6, <2>9, <3>3
      <4> QED
        BY <2>5, <3>1, <4>1
    <3> QED
      BY <3>2, <3>3
  <2>10. Lists(seq, S)
    BY <2>8, <2>9 DEF Lists
  <2> QED
    BY <2>10
<1> HIDE DEF Q
<1>3. Nat \subseteq Q
  BY <1>1, <1>2, SetInduction
<1> SUFFICES ASSUME NEW S \in SUBSET Rows, IsFiniteSet(S)
             PROVE  Lists(InOrder(S), S)
  OBVIOUS
<1>4. Cardinality(S) \in Nat
  BY FS_CardinalityType
<1>5. PICK seq : Lists(seq, S)
  BY <1>3, <1>4 DEF Q
<1>6. \A s \in [1 .. Cardinality(S) -> S] : DOMAIN s = 1 .. Cardinality(S)
  OBVIOUS
<1>7. \E s \in [1 .. Cardinality(S) -> S] : \A i, j \in DOMAIN s : i < j => Earlier(s[i], s[j])
  BY <1>5 DEF Lists
<1>8. /\ InOrder(S) \in [1 .. Cardinality(S) -> S]
      /\ \A i, j \in DOMAIN InOrder(S) : i < j => Earlier(InOrder(S)[i], InOrder(S)[j])
  BY <1>7 DEF InOrder
<1> QED
  BY <1>6, <1>8 DEF Lists

\* The listing leaves nobody out.
LEMMA InOrderListsAll ==
  ASSUME TableType, NEW S \in SUBSET Rows, IsFiniteSet(S), NEW seq, Lists(seq, S)
  PROVE  S = {seq[i] : i \in 1 .. Cardinality(S)}
<1>0. Cardinality(S) \in Nat
  BY FS_CardinalityType
<1>1. \A i, j \in 1 .. Cardinality(S) : seq[i] = seq[j] => i = j
  <2> SUFFICES ASSUME NEW i \in 1 .. Cardinality(S), NEW j \in 1 .. Cardinality(S), i < j,
                      seq[i] = seq[j]
               PROVE  FALSE
    BY <1>0
  <2>1. seq[i] \in Rows /\ Earlier(seq[i], seq[j])
    BY DEF Lists
  <2> QED
    BY <2>1, EarlierIsOrder
<1>2. seq \in Injection(1 .. Cardinality(S), S)
  BY <1>1 DEF Lists, Injection, IsInjective
<1>3. Cardinality(1 .. Cardinality(S)) = Cardinality(S)
  BY <1>0, FS_Interval
<1>4. seq \in Surjection(1 .. Cardinality(S), S)
  BY <1>2, <1>3, FS_Injection
<1> QED
  BY <1>4 DEF Surjection, Lists

-----------------------------------------------------------------------------
(***************************************************************************)
(* A day's submissions, without their order: of each symbol and side the   *)
(* earliest proposal is taken, if the book of the morning takes it, and no *)
(* other.  Order matters only for which of two rivals comes first.         *)
(***************************************************************************)
\* Two proposals that the broker does not take one after the other.
Rivals(i, j) ==
  proposals[i].symbol = proposals[j].symbol /\ proposals[i].side = proposals[j].side

\* The proposals the broker takes of those handed over in order: the first for each
\* symbol and side, if it fits the book.
Taken(b, ids) ==
  {id \in ids : /\ Accepts(b, proposals[id].symbol, proposals[id].side)
                /\ \A j \in ids : Rivals(j, id) => ~Earlier(j, id)}

\* The book after the submissions of ids, in whatever order they are listed.
SubmitAll(b, ids) ==
  [order |-> [id \in Ids |-> IF id \in Taken(b, ids) THEN "PENDING" ELSE b.order[id]],
   held |-> b.held, bare |-> b.bare]

\* A book in which only proposals of the table have orders, and none of the given ones.
Fresh(b, ids) ==
  /\ b \in Book
  /\ \A id \in Ids : b.order[id] # "none" => id \in Rows
  /\ \A id \in ids : b.order[id] = "none"

\* A book is its orders, what is held and what of it has no stop.
LEMMA BookFields ==
  ASSUME NEW b \in Book
  PROVE  /\ b = [order |-> b.order, held |-> b.held, bare |-> b.bare]
         /\ b.order \in [Ids -> {"none", "PENDING", "FILLED"}]
         /\ b.held \in [Symbols -> Nat]
         /\ b.bare \in SUBSET Symbols
  BY DEF Book

\* Two books are the same if their parts are.
LEMMA SameBook ==
  ASSUME NEW b \in Book, NEW c \in Book, \A id \in Ids : b.order[id] = c.order[id],
         b.held = c.held, b.bare = c.bare
  PROVE  b = c
<1>1. b.order = c.order
  BY BookFields
<1> QED
  BY <1>1, BookFields

\* Submissions give what they take an order and leave everything else.
LEMMA SubmitAllType ==
  ASSUME NEW b \in Book, NEW ids
  PROVE  /\ SubmitAll(b, ids) \in Book
         /\ SubmitAll(b, ids).held = b.held
         /\ SubmitAll(b, ids).bare = b.bare
         /\ \A id \in Ids : SubmitAll(b, ids).order[id] =
                              IF id \in Taken(b, ids) THEN "PENDING" ELSE b.order[id]
<1>1. /\ b.order \in [Ids -> {"none", "PENDING", "FILLED"}] /\ b.held \in [Symbols -> Nat]
      /\ b.bare \in SUBSET Symbols
  BY BookFields
<1> QED
  BY <1>1 DEF SubmitAll, Book

\* After a submission of all the broker takes another one exactly if it fits the book
\* and has no rival among them.
LEMMA AcceptsAfter ==
  ASSUME TableType, NEW ids \in SUBSET Rows, IsFiniteSet(ids), NEW b, Fresh(b, ids),
         NEW id \in Rows
  PROVE  Accepts(SubmitAll(b, ids), proposals[id].symbol, proposals[id].side)
           <=> /\ Accepts(b, proposals[id].symbol, proposals[id].side)
               /\ \A j \in ids : ~Rivals(j, id)
<1> DEFINE s == proposals[id].symbol
           side == proposals[id].side
           all == SubmitAll(b, ids)
           group == {j \in ids : Rivals(j, id)}
<1>0. /\ all.held = b.held
      /\ \A j \in Ids : all.order[j] = IF j \in Taken(b, ids) THEN "PENDING" ELSE b.order[j]
      /\ Taken(b, ids) \subseteq ids /\ ids \subseteq Ids
  BY SubmitAllType DEF Fresh, Taken, Rows
<1>1. Queued(b, s, side) \subseteq Queued(all, s, side)
  BY <1>0 DEF Queued
<1>2. Queued(all, s, side) \subseteq Queued(b, s, side) \union group
  BY <1>0 DEF Queued, Rivals
<1>3. CASE ~Accepts(b, s, side)
  BY <1>0, <1>1, <1>3 DEF Accepts
<1>4. CASE Accepts(b, s, side) /\ group = {}
  BY <1>0, <1>2, <1>4 DEF Accepts
<1>5. CASE Accepts(b, s, side) /\ group # {}
  <2>1. IsFiniteSet(group) /\ group \in SUBSET Rows
    BY FS_Subset
  <2>2. PICK x \in group : \A y \in group \ {x} : Earlier(x, y)
    BY <1>5, <2>1, FirstExists
  <2>3. \A j \in ids : Rivals(j, x) => ~Earlier(j, x)
    <3> SUFFICES ASSUME NEW j \in ids, Rivals(j, x), Earlier(j, x) PROVE FALSE
      OBVIOUS
    <3>1. j \in group /\ x \in Rows /\ j \in Rows
      BY <2>2 DEF Rivals
    <3>2. j # x
      BY <3>1, EarlierIsOrder
    <3> QED
      BY <2>2, <3>1, <3>2, EarlierIsOrder
  <2>4. x \in Taken(b, ids)
    BY <1>5, <2>2, <2>3 DEF Taken, Rivals
  <2>5. x \in Queued(all, s, side)
    BY <1>0, <2>2, <2>4 DEF Queued, Rivals
  <2> QED
    BY <1>5, <2>2, <2>5 DEF Accepts
<1> QED
  BY <1>3, <1>4, <1>5

\* One more that the broker takes.
LEMMA SubmitAnother ==
  ASSUME TableType, NEW ids \in SUBSET Rows, IsFiniteSet(ids), NEW b,
         NEW id \in Rows, id \notin ids, Fresh(b, ids \union {id}),
         Accepts(SubmitAll(b, ids), proposals[id].symbol, proposals[id].side)
  PROVE  SubmitAll(b, ids \union {id}) = [SubmitAll(b, ids) EXCEPT !.order[id] = "PENDING"]
<1> DEFINE all == SubmitAll(b, ids)
<1>0. Fresh(b, ids) /\ b \in Book /\ id \in Ids
  BY DEF Fresh, Rows
<1>1. /\ Accepts(b, proposals[id].symbol, proposals[id].side)
      /\ \A j \in ids : ~Rivals(j, id)
  BY <1>0, AcceptsAfter
<1>2. Taken(b, ids \union {id}) = Taken(b, ids) \union {id}
  <2>1. \A j \in ids : ~Rivals(id, j)
    BY <1>1 DEF Rivals
  <2>2. ~Earlier(id, id)
    BY EarlierIsOrder
  <2> QED
    BY <1>1, <2>1, <2>2 DEF Taken
<1>3. all \in Book /\ SubmitAll(b, ids \union {id}) \in Book
  BY <1>0, SubmitAllType
<1>4. /\ all.held = b.held /\ SubmitAll(b, ids \union {id}).held = b.held
      /\ all.bare = b.bare /\ SubmitAll(b, ids \union {id}).bare = b.bare
      /\ \A j \in Ids : all.order[j] = IF j \in Taken(b, ids) THEN "PENDING" ELSE b.order[j]
      /\ \A j \in Ids : SubmitAll(b, ids \union {id}).order[j] =
                          IF j \in Taken(b, ids \union {id}) THEN "PENDING" ELSE b.order[j]
  BY <1>0, SubmitAllType
<1> HIDE DEF all
<1>5. /\ [all EXCEPT !.order[id] = "PENDING"] \in Book
      /\ [all EXCEPT !.order[id] = "PENDING"].held = all.held
      /\ [all EXCEPT !.order[id] = "PENDING"].bare = all.bare
      /\ \A j \in Ids : [all EXCEPT !.order[id] = "PENDING"].order[j] =
                          IF j = id THEN "PENDING" ELSE all.order[j]
  BY <1>0, <1>3, BookFields DEF Book
<1>6. [all EXCEPT !.order[id] = "PENDING"] = SubmitAll(b, ids \union {id})
  <2> DEFINE c == [all EXCEPT !.order[id] = "PENDING"]
             d == SubmitAll(b, ids \union {id})
  <2>1. \A j \in Ids : c.order[j] = d.order[j]
    BY <1>2, <1>4, <1>5
  <2>2. c \in Book /\ d \in Book /\ c.held = d.held /\ c.bare = d.bare
    BY <1>3, <1>4, <1>5
  <2> HIDE DEF c, d
  <2>3. c = d
    BY <2>1, <2>2, SameBook
  <2> QED
    BY <2>3 DEF c, d
<1> QED
  BY <1>6 DEF all

\* One more that it refuses, and that no one before it could be refused for.
LEMMA SubmitRefused ==
  ASSUME TableType, NEW ids \in SUBSET Rows, IsFiniteSet(ids), NEW b,
         NEW id \in Rows, id \notin ids, Fresh(b, ids \union {id}),
         ~Accepts(SubmitAll(b, ids), proposals[id].symbol, proposals[id].side),
         \A j \in ids : Rivals(j, id) => Earlier(j, id)
  PROVE  SubmitAll(b, ids \union {id}) = SubmitAll(b, ids)
<1>0. Fresh(b, ids)
  BY DEF Fresh
<1>1. \/ ~Accepts(b, proposals[id].symbol, proposals[id].side)
      \/ \E j \in ids : Rivals(j, id)
  BY <1>0, AcceptsAfter
<1>2. id \notin Taken(b, ids \union {id})
  BY <1>1 DEF Taken
<1>3. ASSUME NEW j \in ids PROVE j \in Taken(b, ids \union {id}) <=> j \in Taken(b, ids)
  <2>1. Rivals(id, j) /\ Earlier(id, j) => FALSE
    <3>1. Rivals(id, j) => Rivals(j, id)
      BY DEF Rivals
    <3>2. j \in Rows
      OBVIOUS
    <3> QED
      BY <3>1, <3>2, EarlierIsOrder
  <2> QED
    BY <2>1 DEF Taken
<1>4. Taken(b, ids \union {id}) = Taken(b, ids)
  BY <1>2, <1>3 DEF Taken
<1> QED
  BY <1>4 DEF SubmitAll

\* The last one in order.
LEMMA SubmitLast ==
  ASSUME TableType, NEW ids \in SUBSET Rows, IsFiniteSet(ids), NEW b,
         NEW id \in Rows, id \notin ids, Fresh(b, ids \union {id}),
         \A j \in ids : Earlier(j, id)
  PROVE  Submit(SubmitAll(b, ids), id) = SubmitAll(b, ids \union {id})
<1>1. b \in Book /\ id \in Ids /\ b.order[id] = "none"
  BY DEF Fresh, Rows
<1>2. SubmitAll(b, ids).order[id] = "none"
  BY <1>1, SubmitAllType DEF Taken
<1> QED
  BY <1>2, SubmitAnother, SubmitRefused DEF Submit

\* What replay makes of one day's list is the submission of all.
LEMMA FoldIsSubmitAll ==
  ASSUME TableType, NEW ids \in SUBSET Rows, IsFiniteSet(ids), NEW b, Fresh(b, ids)
  PROVE  FoldLeft(Submit, b, InOrder(ids)) = SubmitAll(b, ids)
<1> DEFINE n == Cardinality(ids)
           seq == InOrder(ids)
<1>0. n \in Nat
  BY FS_CardinalityType
<1>1. /\ seq \in [1 .. n -> ids] /\ DOMAIN seq = 1 .. n
      /\ \A i, j \in 1 .. n : i < j => Earlier(seq[i], seq[j])
      /\ ids = {seq[i] : i \in 1 .. n}
  BY InOrderLists, InOrderListsAll DEF Lists
<1> HIDE DEF seq, n
<1> DEFINE Rule(T, k) == IF T = {} THEN b ELSE Submit(k[T \ {Max(T)}], seq[Max(T)])
           iter == CHOOSE k : k = [T \in SUBSET (1 .. n) |-> Rule(T, k)]
           img(T) == {seq[i] : i \in T}
           table == [T \in SUBSET (1 .. n) |-> SubmitAll(b, img(T))]
<1>2. FoldLeft(Submit, b, seq) = iter[1 .. n]
  BY <1>1 DEF FoldLeft, MapThenFoldSet
<1>3. ASSUME NEW T \in SUBSET (1 .. n)
      PROVE  /\ IsFiniteSet(T) /\ Cardinality(T) \in Nat
             /\ T # {} => /\ Max(T) \in T /\ \A i \in T : Max(T) >= i
                          /\ Cardinality(T \ {Max(T)}) = Cardinality(T) - 1
                          /\ T \ {Max(T)} \in SUBSET (1 .. n)
  <2>1. IsFiniteSet(T) /\ Cardinality(T) \in Nat
    <3>1. IsFiniteSet(1 .. n)
      BY <1>0, FS_Interval
    <3> QED
      BY <3>1, FS_Subset, FS_CardinalityType
  <2>2. ASSUME T # {} PROVE Max(T) \in T /\ \A i \in T : Max(T) >= i
    <3>0. T \subseteq Nat
      BY <1>0
    <3>1. \E x \in T : \A y \in T : x >= y
      BY <2>1, <2>2, <3>0, GreatestExists
    <3> QED
      BY <3>1 DEF Max
  <2> QED
    BY <2>1, <2>2, FS_RemoveElement
<1>4. ASSUME NEW T \in SUBSET (1 .. n) PROVE table[T] = Rule(T, table)
  <2>1. CASE T = {}
    <3>1. img({}) = {} /\ Taken(b, {}) = {} /\ b \in Book
      BY DEF Taken, Fresh
    <3>2. SubmitAll(b, {}) = b
      BY <3>1, SubmitAllType, SameBook
    <3> QED
      BY <2>1, <3>1, <3>2
  <2>2. CASE T # {}
    <3> DEFINE m == Max(T)
               U == T \ {m}
    <3>1. m \in T /\ U \in SUBSET (1 .. n) /\ \A i \in T : m >= i
      BY <1>3, <2>2
    <3> HIDE DEF m
    <3>2. img(T) = img(U) \union {seq[m]} /\ T = U \union {m}
      BY <3>1
    <3>3. \A i \in U : i \in 1 .. n /\ m \in 1 .. n /\ i < m /\ Earlier(seq[i], seq[m])
      BY <1>0, <1>1, <3>1
    <3>4. \A j \in img(U) : Earlier(j, seq[m])
      BY <3>3
    <3>5. seq[m] \in Rows /\ img(U) \in SUBSET Rows /\ img(T) \subseteq ids
      BY <1>1, <3>1
    <3>6. IsFiniteSet(img(U))
      BY <3>2, <3>5, FS_Subset
    <3>7. seq[m] \notin img(U)
      BY <3>4, <3>5, EarlierIsOrder
    <3>8. Fresh(b, img(U) \union {seq[m]})
      BY <3>2, <3>5 DEF Fresh
    <3>9. Submit(SubmitAll(b, img(U)), seq[m]) = SubmitAll(b, img(U) \union {seq[m]})
      <4> HIDE DEF img, U
      <4> QED
        BY <3>4, <3>5, <3>6, <3>7, <3>8, SubmitLast
    <3>10. table[T] = SubmitAll(b, img(U) \union {seq[m]}) /\ table[U] = SubmitAll(b, img(U))
      BY <3>1, <3>2
    <3> QED
      BY <2>2, <3>9, <3>10 DEF m
  <2> QED
    BY <2>1, <2>2
<1>5. iter = [T \in SUBSET (1 .. n) |-> Rule(T, iter)]
  <2> HIDE DEF Rule
  <2>1. table = [T \in SUBSET (1 .. n) |-> Rule(T, table)]
    BY <1>4
  <2> HIDE DEF table
  <2> QED
    BY <2>1
<1> HIDE DEF iter
<1>6. \A T \in SUBSET (1 .. n) : iter[T] = Rule(T, iter)
  <2> HIDE DEF Rule
  <2> QED
    BY <1>5
<1> HIDE DEF table
<1> DEFINE Q == {c \in Nat : \A T \in SUBSET (1 .. n) : Cardinality(T) = c => iter[T] = table[T]}
<1>7. 0 \in Q
  <2> SUFFICES ASSUME NEW T \in SUBSET (1 .. n), Cardinality(T) = 0 PROVE iter[T] = table[T]
    OBVIOUS
  <2>1. T = {}
    BY <1>3, FS_EmptySet
  <2> QED
    BY <1>4, <1>6, <2>1
<1>8. ASSUME NEW c \in Nat, c \in Q PROVE c + 1 \in Q
  <2> SUFFICES ASSUME NEW T \in SUBSET (1 .. n), Cardinality(T) = c + 1 PROVE iter[T] = table[T]
    OBVIOUS
  <2>1. T # {}
    BY FS_EmptySet
  <2>2. /\ T \ {Max(T)} \in SUBSET (1 .. n)
        /\ Cardinality(T \ {Max(T)}) = Cardinality(T) - 1
    BY <1>3, <2>1
  <2>4. Cardinality(T \ {Max(T)}) = c
    BY <2>2
  <2>3. iter[T \ {Max(T)}] = table[T \ {Max(T)}]
    BY <1>8, <2>2, <2>4
  <2> QED
    BY <1>4, <1>6, <2>1, <2>3
<1> HIDE DEF Q
<1>9. Nat \subseteq Q
  BY <1>7, <1>8, SetInduction
<1>10. 1 .. n \in SUBSET (1 .. n) /\ Cardinality(1 .. n) \in Nat
  BY <1>3
<1>11. iter[1 .. n] = table[1 .. n]
  BY <1>9, <1>10 DEF Q
<1>12. table[1 .. n] = SubmitAll(b, ids)
  BY <1>1 DEF table
<1> QED
  BY <1>2, <1>11, <1>12 DEF seq

-----------------------------------------------------------------------------
(***************************************************************************)
(* Replay as a table of days                                               *)
(***************************************************************************)
\* The proposals that a replay submits on a day, and the book it submits them to.
Decided(day) ==
  {id \in WithStatus({"APPROVED", "SUBMITTED", "FILLED"}) : proposals[id].asOf = day}

\* The book of a day after its candle and before its submissions.
Morning(day) == Advance(Replay[day - 1], day)

\* A book in which only proposals decided for some day up to this one have orders.
UpTo(b, day) ==
  /\ b \in Book
  /\ \A id \in Ids : b.order[id] # "none" =>
       id \in Rows /\ proposals[id].asOf <= day /\ id \in Decided(proposals[id].asOf)

\* A replay starts from a book without orders.
LEMMA EmptyIsBook ==
  EmptyBook \in Book /\ \A id \in Ids : EmptyBook.order[id] = "none"
  BY DEF EmptyBook, Book

\* A candle fills orders and makes none.
LEMMA AdvanceType ==
  ASSUME NEW b \in Book, NEW day \in Nat
  PROVE  /\ Advance(b, day) \in Book
         /\ \A id \in Ids : /\ Advance(b, day).order[id] = "none" <=> b.order[id] = "none"
                            /\ b.order[id] = "FILLED" => Advance(b, day).order[id] = "FILLED"
<1>1. /\ b.order \in [Ids -> {"none", "PENDING", "FILLED"}] /\ b.held \in [Symbols -> Nat]
      /\ b.bare \in SUBSET Symbols
  BY BookFields
<1> QED
  BY <1>1 DEF Advance, Book

\* What is decided for a day is in the table with that day.
LEMMA DecidedRows ==
  ASSUME NEW day
  PROVE  Decided(day) \in SUBSET Rows /\ \A id \in Decided(day) : proposals[id].asOf = day
  BY DEF Decided, WithStatus, Rows

\* One day of a replay.
LEMMA ReplayDay ==
  ASSUME TableType, IsFiniteSet(Rows), NEW day \in Nat \ {0}, NEW b, UpTo(b, day - 1)
  PROVE  /\ FoldLeft(Submit, Advance(b, day), DecidedOn(day))
              = SubmitAll(Advance(b, day), Decided(day))
         /\ UpTo(SubmitAll(Advance(b, day), Decided(day)), day)
         /\ UpTo(Advance(b, day), day - 1)
         /\ Fresh(Advance(b, day), Decided(day))
<1>1. b \in Book
  BY DEF UpTo
<1>2. PICK c : c = Advance(b, day)
  OBVIOUS
<1>3. c \in Book /\ \A id \in Ids : c.order[id] = "none" <=> b.order[id] = "none"
  BY <1>1, <1>2, AdvanceType
<1>4. PICK ids : ids = Decided(day)
  OBVIOUS
<1>5. ids \in SUBSET Rows /\ IsFiniteSet(ids) /\ \A id \in ids : proposals[id].asOf = day
  BY <1>4, DecidedRows, FS_Subset
<1>6. Fresh(c, ids)
  BY <1>3, <1>5 DEF Fresh, UpTo, Rows
<1>7. DecidedOn(day) = InOrder(ids)
  BY <1>4 DEF DecidedOn, Decided
<1>8. FoldLeft(Submit, c, InOrder(ids)) = SubmitAll(c, ids)
  BY <1>5, <1>6, FoldIsSubmitAll
<1>9. UpTo(c, day - 1)
  BY <1>3 DEF UpTo
<1>10. UpTo(SubmitAll(c, ids), day)
  <2>1. /\ SubmitAll(c, ids) \in Book
        /\ \A id \in Ids : SubmitAll(c, ids).order[id] =
                              IF id \in Taken(c, ids) THEN "PENDING" ELSE c.order[id]
        /\ Taken(c, ids) \subseteq ids
    BY <1>3, SubmitAllType DEF Taken
  <2>2. \A id \in Rows : proposals[id].asOf \in Nat
    BY RowType
  <2> QED
    BY <1>4, <1>5, <1>9, <2>1, <2>2 DEF UpTo
<1> QED
  BY <1>2, <1>4, <1>6, <1>7, <1>8, <1>9, <1>10

\* The recursion of replay, without the recursion inside a day.
ReplayFacts ==
  /\ DOMAIN Replay = 0 .. Len(candles)
  /\ Replay[0] = EmptyBook
  /\ \A day \in 0 .. Len(candles) : UpTo(Replay[day], day)
  /\ \A day \in 1 .. Len(candles) :
       /\ Replay[day] = SubmitAll(Morning(day), Decided(day))
       /\ UpTo(Morning(day), day - 1)
       /\ Fresh(Morning(day), Decided(day))

\* reconstruct makes the book of each day from the one of the day before.
LEMMA ReplayIsTable == StoreType /\ IsFiniteSet(Rows) => ReplayFacts
<1> SUFFICES ASSUME StoreType, IsFiniteSet(Rows) PROVE ReplayFacts
  OBVIOUS
<1>1. TableType /\ Len(candles) \in Nat
  BY LenProperties DEF StoreType, TableType
<1> DEFINE n == Len(candles)
           Day1(b, day) == FoldLeft(Submit, Advance(b, day), DecidedOn(day))
           Rule(day, k) == IF day = 0 THEN EmptyBook ELSE Day1(k[day - 1], day)
           Good(f, m) == \A day \in 0 .. m : f[day] = Rule(day, f) /\ UpTo(f[day], day)
           Q == {m \in Nat : \E f : Good(f, m)}
<1>2. \A day \in Nat \ {0} : \A b : UpTo(b, day - 1) => UpTo(Day1(b, day), day)
  BY <1>1, ReplayDay
<1> HIDE DEF Day1
<1>3. 0 \in Q
  <2>1. UpTo(EmptyBook, 0)
    BY EmptyIsBook DEF UpTo
  <2>2. Good([day \in {0} |-> EmptyBook], 0)
    BY <2>1
  <2> QED
    BY <2>2
<1>4. ASSUME NEW m \in Nat, m \in Q PROVE m + 1 \in Q
  <2>1. PICK f : Good(f, m)
    BY <1>4
  <2> DEFINE g == [day \in 0 .. m + 1 |-> IF day = m + 1 THEN Day1(f[m], m + 1) ELSE f[day]]
  <2>2. UpTo(Day1(f[m], m + 1), m + 1)
    <3>1. UpTo(f[m], m) /\ m + 1 \in Nat \ {0} /\ (m + 1) - 1 = m
      BY <2>1
    <3> QED
      BY <1>2, <3>1
  <2>3. ASSUME NEW day \in 0 .. m + 1 PROVE g[day] = Rule(day, g) /\ UpTo(g[day], day)
    <3>1. CASE day = m + 1
      <4>1. g[m] = f[m] /\ (m + 1) - 1 = m /\ day # 0 /\ g[day] = Day1(f[m], m + 1)
        BY <3>1
      <4> HIDE DEF g
      <4> QED
        BY <2>2, <3>1, <4>1
    <3>2. CASE day # m + 1
      <4>1. day \in 0 .. m /\ g[day] = f[day] /\ (day # 0 => g[day - 1] = f[day - 1])
        BY <3>2
      <4> HIDE DEF g
      <4> QED
        BY <2>1, <4>1
    <3> QED
      BY <3>1, <3>2
  <2> HIDE DEF g
  <2>4. Good(g, m + 1)
    BY <2>3
  <2> QED
    BY <2>4
<1>5. n \in Q
  <2> HIDE DEF Q
  <2> QED
    BY <1>1, <1>3, <1>4, SetInduction
<1>6. PICK f : Good(f, n)
  BY <1>5
<1> DEFINE after == CHOOSE k : k = [day \in 0 .. n |-> Rule(day, k)]
           h == [day \in 0 .. n |-> f[day]]
<1>7. h = [day \in 0 .. n |-> Rule(day, h)]
  <2>1. \A day \in 0 .. n : day # 0 => day - 1 \in 0 .. n
    BY <1>1
  <2> QED
    BY <1>6, <2>1
<1>8. after = [day \in 0 .. n |-> Rule(day, after)]
  <2> HIDE DEF Rule, h
  <2> QED
    BY <1>7
<1>9. Replay = after
  BY DEF Replay, Day1
<1> HIDE DEF after
<1>10. DOMAIN Replay = 0 .. n /\ \A day \in 0 .. n : Replay[day] = Rule(day, Replay)
  <2> HIDE DEF Rule
  <2> QED
    BY <1>8, <1>9
<1>11. \A day \in 0 .. n : UpTo(Replay[day], day)
  <2> DEFINE P == {m \in Nat : m <= n => UpTo(Replay[m], m)}
  <2>1. 0 \in P
    <3>1. Replay[0] = EmptyBook
      BY <1>1, <1>10
    <3> QED
      BY <3>1, EmptyIsBook DEF UpTo
  <2>2. ASSUME NEW m \in Nat, m \in P PROVE m + 1 \in P
    <3> SUFFICES ASSUME m + 1 <= n PROVE UpTo(Replay[m + 1], m + 1)
      OBVIOUS
    <3>1. /\ UpTo(Replay[m], m) /\ m + 1 \in Nat \ {0} /\ (m + 1) - 1 = m
          /\ Replay[m + 1] = Day1(Replay[(m + 1) - 1], m + 1)
      BY <1>1, <1>10, <2>2
    <3> QED
      BY <1>2, <3>1
  <2> HIDE DEF P
  <2>3. Nat \subseteq P
    BY <2>1, <2>2, SetInduction
  <2> QED
    BY <1>1, <2>3 DEF P
<1>12. ASSUME NEW day \in 1 .. n
       PROVE  /\ Replay[day] = SubmitAll(Morning(day), Decided(day))
              /\ UpTo(Morning(day), day - 1)
              /\ Fresh(Morning(day), Decided(day))
  <2>1. day \in Nat \ {0} /\ day - 1 \in 0 .. n /\ day \in 0 .. n
    BY <1>1
  <2>2. PICK b : b = Replay[day - 1]
    OBVIOUS
  <2>3. UpTo(b, day - 1) /\ Morning(day) = Advance(b, day)
    BY <1>11, <2>1, <2>2 DEF Morning
  <2>4. Replay[day] = Day1(b, day)
    BY <1>10, <2>1, <2>2
  <2> QED
    BY <1>1, <2>1, <2>3, <2>4, ReplayDay DEF Day1
<1> QED
  BY <1>1, <1>10, <1>11, <1>12 DEF ReplayFacts

-----------------------------------------------------------------------------
(***************************************************************************)
(* What a step leaves of the table                                         *)
(***************************************************************************)
\* What a step leaves of the rows that are there: all but their status.
RowsKept ==
  \A id \in Rows :
    /\ id \in Rows'
    /\ proposals'[id].symbol = proposals[id].symbol
    /\ proposals'[id].side = proposals[id].side
    /\ proposals'[id].stop = proposals[id].stop
    /\ proposals'[id].asOf = proposals[id].asOf
    /\ proposals'[id].createdAt = proposals[id].createdAt

\* UpdateProposalStatus writes the status alone, and no other call changes a row.
LEMMA StepKeepsRows == LifeInv /\ [Next]_vars => RowsKept
<1> SUFFICES ASSUME LifeInv, [Next]_vars PROVE RowsKept
  OBVIOUS
<1>0. StoreType /\ TableType
  BY DEF LifeInv, StoreType, TableType
<1>1. CASE Unwritten
  BY <1>1 DEF Unwritten, RowsKept, Rows
<1>2. ASSUME NEW id \in Ids, proposals[id] # NoProposal, NEW status \in Statuses,
             SetStatus(id, status)
      PROVE  RowsKept
  <2>1. /\ proposals' \in [Ids -> Proposal \union {NoProposal}]
        /\ \A i \in Ids : i # id => proposals'[i] = proposals[i]
        /\ proposals'[id] \in Proposal /\ proposals'[id] # NoProposal
    BY <1>0, <1>2, SetStatusEffect
  <2>2. proposals[id] \in Proposal
    BY <1>0, <1>2 DEF TableType
  <2>3. proposals'[id] = [proposals[id] EXCEPT !.status = status]
    BY <1>0, <1>2 DEF SetStatus, TableType
  <2>4. /\ proposals'[id].symbol = proposals[id].symbol
        /\ proposals'[id].side = proposals[id].side
        /\ proposals'[id].stop = proposals[id].stop
        /\ proposals'[id].asOf = proposals[id].asOf
        /\ proposals'[id].createdAt = proposals[id].createdAt
    BY <2>2, <2>3 DEF Proposal
  <2> QED
    BY <2>1, <2>4 DEF RowsKept, Rows
<1>3. ASSUME NEW id \in Ids, NEW s \in Symbols, NEW side \in {"long", "exit"},
             NEW stop \in BOOLEAN, NEW status \in {"PENDING", "SUBMITTED"},
             NEW expiresAt \in Nat, Insert(id, s, side, stop, status, expiresAt)
      PROVE  RowsKept
  <2>1. status \in Statuses
    BY DEF Statuses
  <2>2. proposals[id] = NoProposal /\ \A i \in Ids : i # id => proposals'[i] = proposals[i]
    BY <1>0, <1>3, <2>1, InsertEffect
  <2> QED
    BY <2>2 DEF RowsKept, Rows
<1> QED
  BY <1>1, <1>2, <1>3, NextWrites DEF Written

(***************************************************************************)
(* A replay depends on the past alone                                      *)
(***************************************************************************)
\* The submissions of a day are the same from the same book.
LEMMA SubmitAllKept ==
  ASSUME TableType, RowsKept, NEW b, NEW ids \in SUBSET Rows, Fresh(b, ids)
  PROVE  SubmitAll(b, ids)' = SubmitAll(b, ids)
<1>1. \A s \in Symbols, side \in {"long", "exit"} : Queued(b, s, side)' = Queued(b, s, side)
  BY DEF Queued, RowsKept, Fresh
<1>2. \A id \in ids : /\ proposals'[id].symbol = proposals[id].symbol
                      /\ proposals'[id].side = proposals[id].side
                      /\ proposals[id].symbol \in Symbols
                      /\ proposals[id].side \in {"long", "exit"}
  BY RowType DEF RowsKept
<1>3. \A id \in ids : Accepts(b, proposals[id].symbol, proposals[id].side)'
                        <=> Accepts(b, proposals[id].symbol, proposals[id].side)
  BY <1>1, <1>2 DEF Accepts
<1>4. \A i, j \in ids : (Rivals(i, j)' <=> Rivals(i, j)) /\ (Earlier(i, j)' <=> Earlier(i, j))
  BY DEF Rivals, Earlier, RowsKept
<1>5. Taken(b, ids)' = Taken(b, ids)
  BY <1>3, <1>4 DEF Taken
<1> QED
  BY <1>5 DEF SubmitAll

\* So are the fills of a day with the same candle.
LEMMA AdvanceKept ==
  ASSUME RowsKept, NEW day, candles'[day] = candles[day], NEW b,
         \A id \in Ids : b.order[id] # "none" => id \in Rows
  PROVE  Advance(b, day)' = Advance(b, day)
<1>1. \A s, side : Queued(b, s, side)' = Queued(b, s, side)
  BY DEF Queued, RowsKept
<1>2. \A id \in Ids : b.order[id] = "PENDING" =>
        proposals'[id].symbol = proposals[id].symbol /\ proposals'[id].stop = proposals[id].stop
  BY DEF RowsKept
<1>3. \A s : \A id \in Queued(b, s, "long") : proposals'[id].stop = proposals[id].stop
  BY <1>2 DEF Queued
<1>4. \A s : (\E id \in Queued(b, s, "long") : ~proposals[id].stop)'
               <=> \E id \in Queued(b, s, "long") : ~proposals[id].stop
  BY <1>1, <1>3
<1>5. Advance(b, day).order' = Advance(b, day).order
  BY <1>2 DEF Advance
<1>6. Advance(b, day).held' = Advance(b, day).held
  BY <1>1 DEF Advance
<1>7. Advance(b, day).bare' = Advance(b, day).bare
  BY <1>1, <1>4 DEF Advance
<1> QED
  BY <1>5, <1>6, <1>7 DEF Advance

\* The days up to which nothing has been decided anew are replayed as before.
LEMMA ReplayKept ==
  ASSUME TableType, RowsKept, ReplayFacts, ReplayFacts',
         NEW n \in Nat, n <= Len(candles), n <= Len(candles'), Len(candles) \in Nat,
         Len(candles') \in Nat,
         \A day \in 1 .. n : candles'[day] = candles[day],
         \A day \in 1 .. n - 1 : Decided(day)' = Decided(day)
  PROVE  /\ \A day \in 0 .. n - 1 : Replay'[day] = Replay[day]
         /\ \A day \in 1 .. n : Morning(day)' = Morning(day)
<1> DEFINE Q == {m \in Nat : m <= n - 1 => Replay'[m] = Replay[m]}
<1>1. 0 \in Q
  BY DEF ReplayFacts, EmptyBook
<1>2. ASSUME NEW day \in 1 .. n, Replay'[day - 1] = Replay[day - 1]
      PROVE  Morning(day)' = Morning(day)
  <2>1. PICK b : b = Replay[day - 1]
    OBVIOUS
  <2>2. UpTo(b, day - 1)
    <3>1. day - 1 \in 0 .. Len(candles)
      OBVIOUS
    <3> QED
      BY <2>1, <3>1 DEF ReplayFacts
  <2>3. Advance(b, day)' = Advance(b, day)
    BY <2>2, AdvanceKept DEF UpTo
  <2>4. Morning(day) = Advance(b, day)
    BY <2>1 DEF Morning
  <2>5. Morning(day)' = Advance(b, day)'
    BY <1>2, <2>1 DEF Morning
  <2> QED
    BY <2>3, <2>4, <2>5
<1>3. ASSUME NEW m \in Nat, m \in Q PROVE m + 1 \in Q
  <2> SUFFICES ASSUME m + 1 <= n - 1 PROVE Replay'[m + 1] = Replay[m + 1]
    OBVIOUS
  <2>0. /\ m + 1 \in 1 .. n /\ m + 1 \in 1 .. n - 1 /\ (m + 1) - 1 = m
        /\ m + 1 \in 1 .. Len(candles) /\ m + 1 \in 1 .. Len(candles')
    OBVIOUS
  <2>1. Morning(m + 1)' = Morning(m + 1)
    BY <1>2, <1>3, <2>0
  <2>2. Decided(m + 1)' = Decided(m + 1)
    BY <2>0
  <2>3. PICK c, ids : c = Morning(m + 1) /\ ids = Decided(m + 1)
    OBVIOUS
  <2>4. ids \in SUBSET Rows /\ Fresh(c, ids) /\ Replay[m + 1] = SubmitAll(c, ids)
    BY <2>0, <2>3, DecidedRows DEF ReplayFacts
  <2>5. Replay'[m + 1] = SubmitAll(c, ids)'
    BY <2>0, <2>1, <2>2, <2>3 DEF ReplayFacts
  <2> QED
    BY <2>4, <2>5, SubmitAllKept
<1> HIDE DEF Q
<1>4. Nat \subseteq Q
  BY <1>1, <1>3, SetInduction
<1>5. \A day \in 0 .. n - 1 : Replay'[day] = Replay[day]
  BY <1>4 DEF Q
<1>6. \A day \in 1 .. n : Morning(day)' = Morning(day)
  <2> SUFFICES ASSUME NEW day \in 1 .. n PROVE Morning(day)' = Morning(day)
    OBVIOUS
  <2>1. day - 1 \in 0 .. n - 1
    OBVIOUS
  <2> QED
    BY <1>2, <1>5, <2>1
<1> QED
  BY <1>5, <1>6

-----------------------------------------------------------------------------
(***************************************************************************)
(* Runs and their rows                                                     *)
(***************************************************************************)
\* What awaitDecisions has approved and the run has not handed over.
Listed == {approved[i] : i \in 1 .. Len(approved)}

\* Rows belong to runs: those of one run are for different symbols.
RowsInv ==
  /\ IsFiniteSet(Rows)
  /\ \A id \in Rows : /\ proposals[id].createdAt <= runNow
                      /\ proposals[id].asOf \in 1 .. asOf
                      /\ proposals[id].createdAt = runNow => proposals[id].asOf = asOf
  /\ \A i, j \in Rows : i # j /\ proposals[i].createdAt = proposals[j].createdAt
                          => proposals[i].symbol # proposals[j].symbol

\* The last run, and what is left of it.
RunInv ==
  /\ loaded = asOf
  /\ caller = "run" => asOf >= 1
  /\ pc \in {"exits", "entries"} =>
       /\ caller = "run"
       /\ \A id \in Rows : proposals[id].createdAt = runNow => proposals[id].symbol \in signalled
  /\ caller = "run" => \A id \in remaining \union Listed : proposals[id].createdAt = runNow
  /\ ~gaveUp => \A id \in WithStatus({"PENDING"}) : proposals[id].asOf = asOf

\* The two actions that make a proposal.
Inserts(id, s) == ProcessExit(id, s) \/ \E stop \in BOOLEAN : ProposeEntry(id, s, stop)

\* What a run inserts.
Inserted(id, s) ==
  /\ Inserts(id, s)
  /\ id \in Ids /\ id \notin Rows /\ Rows' = Rows \union {id}
  /\ \A i \in Rows : proposals'[i] = proposals[i]
  /\ proposals'[id].symbol = s
  /\ proposals'[id].side = IF ProcessExit(id, s) THEN "exit" ELSE "long"
  /\ proposals'[id].createdAt = runNow
  /\ proposals'[id].asOf = asOf
  /\ proposals'[id].status = IF ProcessExit(id, s) THEN "SUBMITTED" ELSE "PENDING"

\* An exit and a proposed entry are such new rows.
LEMMA InsertedRow ==
  ASSUME LifeInv, NEW id \in Ids, NEW s \in Symbols, Inserts(id, s)
  PROVE  Inserted(id, s) /\ OneRow(id, proposals'[id].status) /\ UNCHANGED <<runNow, asOf>>
<1>0. StoreType /\ pc \in {"exits", "entries"} /\ UNCHANGED <<runNow, asOf>>
  BY DEF LifeInv, ProcessExit, ProposeEntry, Inserts
<1>1. PICK side \in {"long", "exit"}, stop \in BOOLEAN, status \in {"PENDING", "SUBMITTED"},
           expiresAt \in Nat :
        /\ Insert(id, s, side, stop, status, expiresAt)
        /\ side = IF ProcessExit(id, s) THEN "exit" ELSE "long"
        /\ status = IF ProcessExit(id, s) THEN "SUBMITTED" ELSE "PENDING"
  <2>1. asOf \in Nat /\ runNow + ApprovalTTL \in Nat
    BY <1>0, ProposalsAssumption DEF StoreType
  <2>2. CASE ProcessExit(id, s)
    BY <2>1, <2>2 DEF ProcessExit
  <2>3. CASE ~ProcessExit(id, s)
    BY <2>1, <2>3 DEF ProposeEntry, Inserts
  <2> QED
    BY <2>2, <2>3
<1>2. status \in Statuses
  BY DEF Statuses
<1>3. /\ proposals[id] = NoProposal
      /\ \A i \in Ids : i # id => proposals'[i] = proposals[i]
      /\ proposals'[id] # NoProposal /\ proposals'[id].status = status
  BY <1>0, <1>1, <1>2, InsertEffect
<1>4. OneRow(id, status)
  BY <1>0, <1>2, <1>3, OneRowChanged
<1>5. proposals'[id] = [symbol |-> s, side |-> side, stop |-> stop, asOf |-> asOf,
                        createdAt |-> runNow, expiresAt |-> expiresAt, status |-> status]
  BY <1>0, <1>1 DEF Insert, StoreType
<1> QED
  BY <1>0, <1>1, <1>3, <1>4, <1>5 DEF Inserted, Rows

\* Any other step leaves the rows as they are, but for a status.
LEMMA OtherRows ==
  ASSUME LifeInv, [Next]_vars,
         ~\E id \in Ids, s \in Symbols : Inserts(id, s)
  PROVE  Rows' = Rows
<1>1. CASE Unwritten
  BY <1>1 DEF Unwritten, Rows
<1>2. CASE \E id \in Ids : proposals[id] # NoProposal /\ \E status \in Statuses : SetStatus(id, status)
  <2>1. PICK id \in Ids, status \in Statuses : proposals[id] # NoProposal /\ SetStatus(id, status)
    BY <1>2
  <2>2. /\ \A i \in Ids : i # id => proposals'[i] = proposals[i]
        /\ proposals'[id] # NoProposal
    BY <2>1, SetStatusEffect DEF LifeInv
  <2> QED
    BY <2>1, <2>2 DEF Rows
<1>3. CASE Tick \/ Operator \/ StartRun \/ ExitsDone \/ EntriesDone \/ Poll \/ AwaitDone
           \/ SyncDone \/ GiveUp \/ Crash \/ Restart \/ UNCHANGED vars
  <2>1. Unwritten
    BY <1>3 DEF Tick, Operator, Tap, StartRun, ExitsDone, EntriesDone, Poll, AwaitDone, SyncDone,
       GiveUp, Crash, Restart, vars, storeVars, Unwritten
  <2> QED
    BY <1>1, <2>1
<1>4. CASE Await \/ Finish
  <2> USE DEF Statuses
  <2>1. CASE TakeDecision
    <3>1. CASE Head(channel).id \in remaining
      BY <1>2, <2>1, <3>1 DEF TakeDecision, LifeInv, AwaitInv, WithStatus
    <3>2. CASE Head(channel).id \notin remaining
      BY <1>1, <2>1, <3>2 DEF TakeDecision, Unwritten
    <3> QED
      BY <3>1, <3>2
  <2>2. ASSUME NEW id \in Ids, ExpireOne(id) PROVE Rows' = Rows
    BY <1>2, <2>2 DEF ExpireOne, LifeInv, AwaitInv, WithStatus
  <2>3. CASE SubmitApproved \/ MarkSubmitted
    <3>1. Head(approved) \in WithStatus({"APPROVED"})
      BY <2>3, NextApproved DEF SubmitApproved, MarkSubmitted
    <3>2. \/ Unwritten
          \/ \E status \in Statuses : SetStatus(Head(approved), status)
      BY <2>3 DEF SubmitApproved, MarkSubmitted, MaybeSetStatus, Unwritten
    <3> QED
      BY <1>1, <1>2, <3>1, <3>2 DEF WithStatus
  <2>4. ASSUME NEW id \in Ids, SyncFill(id) PROVE Rows' = Rows
    BY <1>2, <2>4 DEF SyncFill, Unsynced, WithStatus
  <2> QED
    BY <1>3, <1>4, <2>1, <2>2, <2>3, <2>4 DEF Await, Finish
<1> QED
  BY <1>3, <1>4 DEF Next, Run, Inserts

\* A run makes one proposal for a symbol at most, and no two runs start at one time.
LEMMA RowsInvKept == LifeInv /\ RowsInv /\ RunInv /\ [Next]_vars => RowsInv'
<1> SUFFICES ASSUME LifeInv, RowsInv, RunInv, [Next]_vars PROVE RowsInv'
  OBVIOUS
<1>0. TableType /\ StoreType
  BY DEF LifeInv, StoreType, TableType
<1>1. ASSUME NEW id \in Ids, NEW s \in Symbols, Inserts(id, s)
      PROVE  RowsInv'
  <2>1. Inserted(id, s) /\ UNCHANGED <<runNow, asOf>>
    BY <1>1, InsertedRow
  <2>2. /\ pc \in {"exits", "entries"} /\ s \notin signalled
        /\ \A i \in Rows : proposals[i].createdAt = runNow => proposals[i].symbol \in signalled
        /\ asOf >= 1 /\ asOf \in Nat /\ runNow \in Nat
    <3>1. pc \in {"exits", "entries"} /\ s \notin signalled
      BY <1>1 DEF ProcessExit, ProposeEntry, Inserts
    <3> QED
      BY <1>0, <3>1 DEF RunInv, StoreType
  <2>3. IsFiniteSet(Rows')
    BY <2>1, FS_AddElement DEF Inserted, RowsInv
  <2>4. \A i \in Rows' : /\ proposals'[i].createdAt <= runNow'
                         /\ proposals'[i].asOf \in 1 .. asOf'
                         /\ proposals'[i].createdAt = runNow' => proposals'[i].asOf = asOf'
    BY <2>1, <2>2 DEF Inserted, RowsInv
  <2>5. \A i \in Rows : /\ proposals'[i] = proposals[i]
                        /\ proposals[i].createdAt = runNow => proposals[i].symbol # s
    BY <2>1, <2>2 DEF Inserted
  <2>6. \A i, j \in Rows' : i # j /\ proposals'[i].createdAt = proposals'[j].createdAt
                              => proposals'[i].symbol # proposals'[j].symbol
    <3> SUFFICES ASSUME NEW i \in Rows', NEW j \in Rows', i # j,
                        proposals'[i].createdAt = proposals'[j].createdAt
                 PROVE  proposals'[i].symbol # proposals'[j].symbol
      OBVIOUS
    <3>1. CASE i \in Rows /\ j \in Rows
      BY <2>5, <3>1 DEF RowsInv
    <3>2. CASE i = id /\ j \in Rows
      BY <2>1, <2>5, <3>2 DEF Inserted
    <3>3. CASE i \in Rows /\ j = id
      BY <2>1, <2>5, <3>3 DEF Inserted
    <3> QED
      BY <2>1, <3>1, <3>2, <3>3 DEF Inserted
  <2> QED
    BY <2>3, <2>4, <2>6 DEF RowsInv
<1>2. ASSUME ~\E id \in Ids, s \in Symbols : Inserts(id, s)
      PROVE  RowsInv'
  <2>1. Rows' = Rows /\ RowsKept
    BY <1>2, OtherRows, StepKeepsRows
  <2>2. \A id \in Rows : proposals[id].createdAt \in Nat /\ proposals[id].asOf \in Nat
    BY <1>0, RowType
  <2>3. CASE StartRun
    <3>1. /\ runNow' > runNow /\ runNow \in Nat /\ runNow' \in Nat
          /\ asOf' >= asOf /\ asOf \in Nat /\ asOf' \in Nat
      BY <1>0, <2>3, LenProperties DEF StartRun, StoreType
    <3> QED
      BY <2>1, <2>2, <3>1 DEF RowsInv, RowsKept
  <2>4. CASE ~StartRun
    <3>1. UNCHANGED <<runNow, asOf>>
      BY <1>2, <2>4 DEF Next, Tick, Operator, Run, Inserts, Await, Finish, Tap, ExitsDone, EntriesDone, Poll,
         AwaitDone, GiveUp, Crash, Restart, TakeDecision, ExpireOne, SubmitApproved, MarkSubmitted,
         SyncFill, SyncDone, vars, runVars
    <3> QED
      BY <2>1, <3>1 DEF RowsInv, RowsKept
  <2> QED
    BY <2>3, <2>4
<1> QED
  BY <1>1, <1>2

-----------------------------------------------------------------------------
(***************************************************************************)
(* Which steps decide a proposal                                           *)
(***************************************************************************)
\* The statuses loadDecidedProposalsByDay asks for.
DecidedStatuses == {"APPROVED", "SUBMITTED", "FILLED"}

\* What one changed row does to the proposals decided for a day.
LEMMA DecidedChange ==
  ASSUME LifeInv, NEW id \in Ids, NEW status \in Statuses, OneRow(id, status),
         \A i \in Rows : proposals'[i].asOf = proposals[i].asOf
  PROVE  \A day : Decided(day)' = (Decided(day) \ {id})
                    \union (IF status \in DecidedStatuses /\ proposals'[id].asOf = day
                            THEN {id} ELSE {})
<1>1. DecidedStatuses \in SUBSET Statuses
  BY DEF DecidedStatuses, Statuses
<1>2. WithStatus(DecidedStatuses)' = (WithStatus(DecidedStatuses) \ {id})
                                       \union (IF status \in DecidedStatuses THEN {id} ELSE {})
  BY <1>1 DEF OneRow
<1>3. WithStatus(DecidedStatuses) \subseteq Rows
  BY DEF WithStatus, Rows
<1> QED
  BY <1>2, <1>3 DEF Decided, DecidedStatuses

\* A status update, by whether the proposal was decided before and is afterwards.
LEMMA UpdateChange ==
  ASSUME LifeInv, RowsKept, NEW id \in Rows, NEW status \in Statuses, SetStatus(id, status)
  PROVE  \A day :
           IF status \in DecidedStatuses
           THEN Decided(day)' = Decided(day) \union (IF proposals[id].asOf = day THEN {id} ELSE {})
           ELSE Decided(day)' = Decided(day) \ {id}
<1>1. OneRow(id, status) /\ id \in Ids
  BY SetStatusEffect, OneRowChanged DEF LifeInv, Rows
<1>2. proposals'[id].asOf = proposals[id].asOf
  BY DEF RowsKept
<1>3. \A i \in Rows : proposals'[i].asOf = proposals[i].asOf
  BY DEF RowsKept
<1>4. \A day : id \in Decided(day) => proposals[id].asOf = day
  BY DEF Decided
<1> QED
  BY <1>1, <1>2, <1>3, <1>4, DecidedChange

\* The proposals an update is about.
LEMMA AboutRows ==
  ASSUME LifeInv
  PROVE  /\ remaining \subseteq Rows
         /\ \A id \in remaining : proposals[id].status = "PENDING" /\ \A day : id \notin Decided(day)
         /\ Listed \subseteq Rows
         /\ \A id \in Listed : id \in Decided(proposals[id].asOf) /\ proposals[id].status = "APPROVED"
         /\ approved # <<>> => Head(approved) \in Listed
<1>1. remaining \subseteq Rows
      /\ \A id \in remaining : proposals[id].status = "PENDING" /\ \A day : id \notin Decided(day)
  BY DEF LifeInv, AwaitInv, WithStatus, Decided, Rows
<1>2. \A i \in 1 .. Len(approved) : approved[i] \in WithStatus({"APPROVED"})
  BY ElementOfSeq DEF LifeInv, AwaitInv
<1>3. Listed \subseteq WithStatus({"APPROVED"})
  BY <1>2 DEF Listed
<1>4. Listed \subseteq Rows
      /\ \A id \in Listed : id \in Decided(proposals[id].asOf) /\ proposals[id].status = "APPROVED"
  BY <1>3 DEF WithStatus, Decided, Rows
<1>5. ASSUME approved # <<>> PROVE Head(approved) \in Listed
  <2>1. Len(approved) \in Nat /\ Len(approved) >= 1 /\ Head(approved) = approved[1]
    BY <1>5, HeadTailProperties, LenProperties DEF LifeInv, AwaitInv
  <2> QED
    BY <2>1 DEF Listed
<1> QED
  BY <1>1, <1>4, <1>5

\* What a step does to the proposals decided for a day: an exit and an approval add
\* one, a failure takes one away, and nothing else counts.
DecidedStep ==
  \/ \E id \in Ids, s \in Symbols :
       /\ ProcessExit(id, s)
       /\ \A day : Decided(day)' = Decided(day) \union (IF day = asOf THEN {id} ELSE {})
  \/ /\ TakeDecision
     /\ Head(channel).id \in remaining /\ Head(channel).approved
     /\ \A day : Decided(day)' = Decided(day) \union
                   (IF proposals[Head(channel).id].asOf = day THEN {Head(channel).id} ELSE {})
  \/ /\ SubmitApproved
     /\ SetStatus(Head(approved), "FAILED")
     /\ \A day : Decided(day)' = Decided(day) \ {Head(approved)}
  \/ \A day : Decided(day)' = Decided(day)

\* Every step is one of these.
LEMMA StepDecides == LifeInv /\ [Next]_vars => DecidedStep
<1> SUFFICES ASSUME LifeInv, [Next]_vars PROVE DecidedStep
  OBVIOUS
<1>0. RowsKept
  BY StepKeepsRows
<1>1. CASE Unwritten
  BY <1>1 DEF Unwritten, DecidedStep, Decided, WithStatus
<1>2. ASSUME NEW id \in Ids, NEW s \in Symbols, ProcessExit(id, s) PROVE DecidedStep
  <2>1. /\ Inserted(id, s) /\ OneRow(id, "SUBMITTED") /\ proposals'[id].asOf = asOf
        /\ \A i \in Rows : proposals'[i].asOf = proposals[i].asOf
    BY <1>0, <1>2, InsertedRow DEF Inserted, Inserts, RowsKept
  <2>2. \A day : Decided(day) \subseteq Rows
    BY DecidedRows
  <2>3. "SUBMITTED" \in DecidedStatuses /\ "SUBMITTED" \in Statuses
    BY DEF DecidedStatuses, Statuses
  <2>4. \A day : Decided(day)' = Decided(day) \union (IF day = asOf THEN {id} ELSE {})
    BY <2>1, <2>2, <2>3, DecidedChange DEF Inserted
  <2> QED
    BY <1>2, <2>4 DEF DecidedStep
<1>3. ASSUME NEW id \in Ids, NEW s \in Symbols, NEW stop \in BOOLEAN, ProposeEntry(id, s, stop), ~ProcessExit(id, s)
      PROVE  DecidedStep
  <2>1. /\ Inserted(id, s) /\ OneRow(id, "PENDING")
        /\ \A i \in Rows : proposals'[i].asOf = proposals[i].asOf
    BY <1>0, <1>3, InsertedRow DEF Inserted, Inserts, RowsKept
  <2>2. \A day : id \notin Decided(day)
    BY <2>1, DecidedRows DEF Inserted
  <2>3. "PENDING" \notin DecidedStatuses /\ "PENDING" \in Statuses
    BY DEF DecidedStatuses, Statuses
  <2>4. \A day : Decided(day)' = Decided(day)
    BY <2>1, <2>2, <2>3, DecidedChange
  <2> QED
    BY <2>4 DEF DecidedStep
<1>4. CASE TakeDecision
  <2> DEFINE d == Head(channel)
  <2>1. CASE d.id \notin remaining
    BY <1>1, <1>4, <2>1 DEF TakeDecision, Unwritten
  <2>2. CASE d.id \in remaining /\ d.approved
    <3>1. d.id \in Rows /\ SetStatus(d.id, "APPROVED")
      BY <1>4, <2>2, AboutRows DEF TakeDecision
    <3>2. "APPROVED" \in DecidedStatuses /\ "APPROVED" \in Statuses
      BY DEF DecidedStatuses, Statuses
    <3>3. \A day : Decided(day)' = Decided(day) \union
                     (IF proposals[d.id].asOf = day THEN {d.id} ELSE {})
      BY <1>0, <3>1, <3>2, UpdateChange
    <3> QED
      BY <1>4, <2>2, <3>3 DEF DecidedStep
  <2>3. CASE d.id \in remaining /\ ~d.approved
    <3>1. d.id \in Rows /\ SetStatus(d.id, "REJECTED") /\ \A day : d.id \notin Decided(day)
      BY <1>4, <2>3, AboutRows DEF TakeDecision
    <3>2. "REJECTED" \notin DecidedStatuses /\ "REJECTED" \in Statuses
      BY DEF DecidedStatuses, Statuses
    <3>3. \A day : Decided(day)' = Decided(day)
      BY <1>0, <3>1, <3>2, UpdateChange
    <3> QED
      BY <3>3 DEF DecidedStep
  <2> QED
    BY <2>1, <2>2, <2>3
<1>5. ASSUME NEW id \in Ids, ExpireOne(id) PROVE DecidedStep
  <2>1. id \in Rows /\ SetStatus(id, "EXPIRED") /\ \A day : id \notin Decided(day)
    BY <1>5, AboutRows DEF ExpireOne, LifeInv, AwaitInv
  <2>2. "EXPIRED" \notin DecidedStatuses /\ "EXPIRED" \in Statuses
    BY DEF DecidedStatuses, Statuses
  <2>3. \A day : Decided(day)' = Decided(day)
    BY <1>0, <2>1, <2>2, UpdateChange
  <2> QED
    BY <2>3 DEF DecidedStep
<1>6. ASSUME NEW id \in Rows, NEW status \in {"SUBMITTED", "FILLED"}, SetStatus(id, status),
             proposals[id].status \in DecidedStatuses
      PROVE  \A day : Decided(day)' = Decided(day)
  <2>1. status \in DecidedStatuses /\ status \in Statuses
    BY DEF DecidedStatuses, Statuses
  <2>2. \A day : proposals[id].asOf = day => id \in Decided(day)
    BY <1>6 DEF Decided, WithStatus, DecidedStatuses, Rows
  <2>3. ASSUME NEW day PROVE Decided(day)' = Decided(day)
    <3>1. Decided(day)' = Decided(day) \union (IF proposals[id].asOf = day THEN {id} ELSE {})
      BY <1>0, <1>6, <2>1, UpdateChange
    <3> QED
      BY <2>2, <3>1
  <2> QED
    BY <2>3
<1>7. CASE SubmitApproved
  <2> DEFINE id == Head(approved)
  <2>1. id \in Rows /\ proposals[id].status \in DecidedStatuses
    BY <1>7, AboutRows DEF SubmitApproved, DecidedStatuses
  <2>2. CASE Unwritten
    BY <1>1, <2>2
  <2>3. CASE SetStatus(id, "SUBMITTED")
    BY <1>6, <2>1, <2>3 DEF DecidedStep
  <2>4. CASE SetStatus(id, "FAILED")
    <3>1. "FAILED" \notin DecidedStatuses /\ "FAILED" \in Statuses
      BY DEF DecidedStatuses, Statuses
    <3>2. \A day : Decided(day)' = Decided(day) \ {id}
      BY <1>0, <2>1, <2>4, <3>1, UpdateChange
    <3> QED
      BY <1>7, <2>4, <3>2 DEF DecidedStep
  <2> QED
    <3>1. Unwritten \/ SetStatus(id, "SUBMITTED") \/ SetStatus(id, "FAILED")
      BY <1>7 DEF SubmitApproved, MaybeSetStatus, Unwritten
    <3> QED
      BY <2>2, <2>3, <2>4, <3>1
<1>8. CASE MarkSubmitted
  <2>1. /\ Head(approved) \in Rows /\ proposals[Head(approved)].status \in DecidedStatuses
        /\ SetStatus(Head(approved), "SUBMITTED")
    BY <1>8, AboutRows DEF MarkSubmitted, DecidedStatuses
  <2> QED
    BY <1>6, <2>1 DEF DecidedStep
<1>9. ASSUME NEW id \in Ids, SyncFill(id) PROVE DecidedStep
  <2>1. id \in Rows /\ proposals[id].status \in DecidedStatuses /\ SetStatus(id, "FILLED")
    BY <1>9 DEF SyncFill, Unsynced, WithStatus, Rows, DecidedStatuses
  <2> QED
    BY <1>6, <2>1 DEF DecidedStep
<1>10. CASE Tick \/ Operator \/ StartRun \/ ExitsDone \/ EntriesDone \/ Poll \/ AwaitDone
            \/ SyncDone \/ GiveUp \/ Crash \/ Restart \/ UNCHANGED vars
  <2>1. Unwritten
    BY <1>10 DEF Tick, Operator, Tap, StartRun, ExitsDone, EntriesDone, Poll, AwaitDone, SyncDone,
       GiveUp, Crash, Restart, vars, storeVars, Unwritten
  <2> QED
    BY <1>1, <2>1
<1> QED
  BY <1>2, <1>3, <1>4, <1>5, <1>7, <1>8, <1>9, <1>10 DEF Next, Run, Await, Finish

\* Only the last run's proposals are decided, and only their submission fails, unless
\* a run was given up: so what days before it replay is settled.
LEMMA PastIsDecided ==
  ASSUME LifeInv, RowsInv, RunInv, [Next]_vars, caller = "run" \/ ~gaveUp
  PROVE  \A day : day < asOf => Decided(day)' = Decided(day)
<1> SUFFICES ASSUME NEW day, day < asOf PROVE Decided(day)' = Decided(day)
  OBVIOUS
<1>0. asOf \in Nat
  BY DEF LifeInv, StoreType
<1>1. \A id \in remaining : proposals[id].asOf = asOf
  <2>1. \A id \in remaining : id \in Rows /\ id \in WithStatus({"PENDING"})
    BY AboutRows DEF LifeInv, AwaitInv
  <2> QED
    BY <2>1 DEF RowsInv, RunInv
<1>2. SubmitApproved => Head(approved) \in Rows /\ proposals[Head(approved)].asOf = asOf
  BY AboutRows DEF SubmitApproved, RowsInv, RunInv
<1>3. \A id : id \in Decided(day) => proposals[id].asOf = day
  BY DEF Decided
<1> QED
  BY <1>0, <1>1, <1>2, <1>3, StepDecides DEF DecidedStep

-----------------------------------------------------------------------------
(***************************************************************************)
(* The invariant of a run is kept                                          *)
(***************************************************************************)
\* A run waits for its own proposals and hands over its own approvals.
LEMMA RunInvKept == IInv /\ RowsInv /\ RunInv /\ [Next]_vars => RunInv'
<1> SUFFICES ASSUME IInv, RowsInv, RunInv, [Next]_vars PROVE RunInv'
  OBVIOUS
<1>0. /\ LifeInv /\ StoreType /\ RowsKept
      /\ remaining \subseteq Rows /\ Listed \subseteq Rows
      /\ asOf \in Nat /\ runNow \in Nat /\ clock \in Nat /\ Len(candles) \in Nat
  BY StepKeepsRows, AboutRows, LenProperties DEF IInv, LifeInv, StoreType
    \* What is pending afterwards was pending before or has just been proposed.
<1>1. \A id \in WithStatus({"PENDING"})' :
        \/ id \in WithStatus({"PENDING"}) /\ proposals'[id].asOf = proposals[id].asOf
        \/ proposals'[id].asOf = asOf /\ UNCHANGED <<runNow, asOf, gaveUp>>
  <2>1. CASE Unwritten
    BY <2>1 DEF Unwritten, WithStatus
  <2>2. ASSUME NEW id \in Ids, proposals[id] # NoProposal, NEW status \in Statuses \ {"PENDING"},
               SetStatus(id, status)
        PROVE  \A i \in WithStatus({"PENDING"})' :
                 i \in WithStatus({"PENDING"}) /\ proposals'[i].asOf = proposals[i].asOf
    <3>1. OneRow(id, status)
      BY <1>0, <2>2, SetStatusEffect, OneRowChanged
    <3>2. WithStatus({"PENDING"})' = WithStatus({"PENDING"}) \ {id}
      BY <2>2, <3>1 DEF OneRow, Statuses
    <3> QED
      BY <1>0, <3>2 DEF RowsKept, WithStatus, Rows
  <2>3. ASSUME NEW id \in Ids, NEW s \in Symbols, Inserts(id, s)
        PROVE  \A i \in WithStatus({"PENDING"})' :
                 \/ i \in WithStatus({"PENDING"}) /\ proposals'[i].asOf = proposals[i].asOf
                 \/ proposals'[i].asOf = asOf /\ UNCHANGED <<runNow, asOf, gaveUp>>
    <3>1. Inserted(id, s) /\ UNCHANGED <<runNow, asOf, gaveUp>>
      BY <1>0, <2>3, InsertedRow DEF ProcessExit, ProposeEntry, Inserts, observerVars
    <3>2. WithStatus({"PENDING"})' \subseteq Rows'
      BY DEF WithStatus, Rows
    <3>3. \A i \in Rows : i \in WithStatus({"PENDING"})' => i \in WithStatus({"PENDING"})
      BY <3>1 DEF WithStatus, Inserted, Rows
    <3> QED
      BY <3>1, <3>2, <3>3 DEF Inserted
  <2>4. CASE ~\E id \in Ids, s \in Symbols : Inserts(id, s)
    <3>1. Rows' = Rows
      BY <1>0, <2>4, OtherRows
    <3>2. ~\E id \in Ids, s \in Symbols, side \in {"long", "exit"}, stop \in BOOLEAN,
             status \in {"PENDING", "SUBMITTED"}, expiresAt \in Nat :
             Insert(id, s, side, stop, status, expiresAt)
      <4> SUFFICES ASSUME NEW id \in Ids, NEW s \in Symbols, NEW side \in {"long", "exit"},
                          NEW stop \in BOOLEAN, NEW status \in {"PENDING", "SUBMITTED"},
                          NEW expiresAt \in Nat, Insert(id, s, side, stop, status, expiresAt)
                   PROVE  FALSE
        OBVIOUS
      <4>1. status \in Statuses
        BY DEF Statuses
      <4>2. proposals[id] = NoProposal /\ proposals'[id] # NoProposal
        BY <1>0, <4>1, InsertEffect
      <4> QED
        BY <3>1, <4>2 DEF Rows
    <3> QED
      BY <1>0, <2>1, <2>2, <3>2, NextWrites DEF Written
  <2> QED
    BY <2>3, <2>4
<1>2. ASSUME NEW id \in Ids, NEW s \in Symbols, Inserts(id, s)
      PROVE  RunInv'
  <2>1. /\ Inserted(id, s) /\ UNCHANGED <<runNow, asOf, loaded, caller, pc, gaveUp, approved>>
        /\ pc \in {"exits", "entries"} /\ signalled' = signalled \union {s}
        /\ remaining' = remaining \/ remaining' = remaining \union {id}
    BY <1>0, <1>2, InsertedRow DEF ProcessExit, ProposeEntry, Inserts, observerVars, awaitVars
  <2>2. Listed' = Listed
    BY <2>1 DEF Listed
  <2>3. \A i \in Rows' : proposals'[i].createdAt = runNow' => proposals'[i].symbol \in signalled'
    BY <2>1 DEF Inserted, RunInv
  <2>4. caller' = "run" => \A i \in remaining' \union Listed' : proposals'[i].createdAt = runNow'
    BY <1>0, <2>1, <2>2 DEF Inserted, RunInv
  <2>5. ~gaveUp' => \A i \in WithStatus({"PENDING"})' : proposals'[i].asOf = asOf'
    BY <1>1, <2>1 DEF RunInv
  <2> QED
    BY <2>1, <2>3, <2>4, <2>5 DEF RunInv
<1>3. ASSUME ~\E id \in Ids, s \in Symbols : Inserts(id, s),
             UNCHANGED <<runNow, asOf, loaded, caller>>,
             pc' \in {"exits", "entries"} => pc \in {"exits", "entries"} /\ UNCHANGED signalled,
             gaveUp => gaveUp', remaining' \subseteq remaining, Listed' \subseteq Listed \union remaining
      PROVE  RunInv'
  <2>1. Rows' = Rows
    BY <1>0, <1>3, OtherRows
  <2> QED
    BY <1>0, <1>1, <1>3, <2>1 DEF RunInv, RowsKept
<1>4. CASE StartRun
  <2>1. /\ remaining = {} /\ approved = <<>> /\ Unwritten /\ pc' = "exits" /\ caller' = "run"
        /\ UNCHANGED <<remaining, approved, gaveUp>> /\ pc = "idle"
        /\ asOf' = Len(candles) /\ loaded' = asOf' /\ processed < Len(candles) /\ runNow' = clock
        /\ clock > runNow
    BY <1>0, <1>4 DEF StartRun, LifeInv, QuietInv, Unwritten, awaitVars
  <2>2. Listed' = {}
    BY <2>1, EmptySeq DEF Listed
  <2>3. asOf' >= 1
    BY <1>0, <2>1 DEF StoreType
  <2>4. Rows' = Rows /\ \A id \in Rows : proposals'[id].createdAt # runNow'
    <3>1. \A id \in Rows : proposals[id].createdAt \in Nat /\ proposals[id].createdAt <= runNow
      BY <1>0, RowType DEF RowsInv, TableType, StoreType
    <3> QED
      BY <1>0, <2>1, <3>1 DEF Unwritten, Rows
  <2>5. ~gaveUp => WithStatus({"PENDING"})' = {}
    BY <2>1 DEF IInv, NoProposalForgotten, Unwritten, WithStatus
  <2> QED
    BY <2>1, <2>2, <2>3, <2>4, <2>5 DEF RunInv
<1>5. CASE Restart
  <2>1. /\ UNCHANGED <<proposals, runNow, asOf, loaded, gaveUp>> /\ caller' = "resume" /\ pc' = "await"
    BY <1>5 DEF Restart, storeVars, observerVars
  <2> QED
    BY <1>1, <2>1 DEF RunInv
<1>6. CASE TakeDecision
  <2> DEFINE d == Head(channel)
  <2>1. /\ UNCHANGED <<runNow, asOf, loaded, caller, pc, gaveUp, signalled>>
        /\ remaining' \subseteq remaining /\ pc = "await"
        /\ approved' = approved \/ (d.id \in remaining /\ approved' = Append(approved, d.id))
    BY <1>6 DEF TakeDecision, runVars, observerVars
  <2>2. Listed' \subseteq Listed \union remaining
    <3>1. CASE approved' = approved
      BY <3>1 DEF Listed
    <3>2. CASE d.id \in remaining /\ approved' = Append(approved, d.id)
      <4>1. Len(approved) \in Nat /\ Len(approved') = Len(approved) + 1
            /\ \A i \in 1 .. Len(approved) : approved'[i] = approved[i]
            /\ approved'[Len(approved) + 1] = d.id
        <5>1. approved \in Seq(Ids) /\ d.id \in Ids
          <6>1. WithStatus({"APPROVED"}) \subseteq Ids
            BY DEF WithStatus
          <6> QED
            BY <1>0, <3>2, <6>1, SeqMonotonic DEF LifeInv, AwaitInv, Rows
        <5> QED
          BY <3>2, <5>1, AppendProperties, LenProperties
      <4> QED
        BY <3>2, <4>1 DEF Listed
    <3> QED
      BY <2>1, <3>1, <3>2
  <2> QED
    BY <1>3, <2>1, <2>2 DEF ProcessExit, ProposeEntry, Inserts
<1>7. CASE SubmitApproved \/ MarkSubmitted
  <2>1. /\ UNCHANGED <<runNow, asOf, loaded, caller, pc, gaveUp, signalled, remaining>>
        /\ pc = "settle" /\ approved # <<>> /\ approved' = Tail(approved)
    BY <1>7 DEF SubmitApproved, MarkSubmitted, runVars, observerVars
  <2>2. Listed' \subseteq Listed
    <3>1. /\ Len(approved) \in Nat /\ Len(approved') = Len(approved) - 1
          /\ \A i \in 1 .. Len(approved') : approved'[i] = approved[i + 1]
      BY <1>0, <2>1, HeadTailProperties, LenProperties DEF LifeInv, AwaitInv
    <3> QED
      BY <3>1 DEF Listed
  <2> QED
    BY <1>3, <2>1, <2>2 DEF ProcessExit, ProposeEntry, Inserts
<1>8. CASE GiveUp \/ Crash
  <2>1. /\ UNCHANGED <<runNow, asOf, loaded, caller>> /\ pc' \notin {"exits", "entries"}
        /\ remaining' = {} /\ approved' = <<>> /\ pc' # pc
    BY <1>8 DEF GiveUp, Crash, Settled, runVars, storeVars, observerVars
  <2>2. Len(approved') = 0
    BY <2>1, EmptySeq
  <2>3. Listed' = {}
    BY <2>2 DEF Listed
  <2>4. ~\E id \in Ids, s \in Symbols : Inserts(id, s)
    BY <2>1 DEF ProcessExit, ProposeEntry, Inserts
  <2>5. gaveUp => gaveUp'
    <3>1. gaveUp' = gaveUp \/ gaveUp' = (gaveUp \/ remaining # {})
      BY <1>8 DEF GiveUp, Crash, observerVars
    <3> QED
      BY <3>1
  <2> QED
    BY <1>3, <2>1, <2>3, <2>4, <2>5
<1>9. CASE Tick \/ Operator \/ ExitsDone \/ EntriesDone \/ Poll \/ (\E id \in Ids : ExpireOne(id))
           \/ AwaitDone \/ (\E id \in Ids : SyncFill(id)) \/ SyncDone \/ UNCHANGED vars
  <2> USE DEF Tick, Operator, Tap, ExitsDone, EntriesDone, Poll, ExpireOne, AwaitDone, SyncFill,
          Settled, SyncDone, vars, runVars, awaitVars, storeVars, observerVars
  <2>1. UNCHANGED <<runNow, asOf, loaded, caller, approved, gaveUp>>
    BY <1>9
  <2>2. pc' \in {"exits", "entries"} => pc \in {"exits", "entries"} /\ UNCHANGED signalled
    BY <1>0, <1>9 DEF LifeInv, QuietInv
  <2>3. remaining' \subseteq remaining
    BY <1>9
  <2>4. ASSUME NEW id \in Ids, NEW s \in Symbols, Inserts(id, s) PROVE FALSE
    <3>1. pc' = pc /\ pc \in {"exits", "entries"} /\ s \notin signalled /\ s \in signalled'
      BY <2>4 DEF ProcessExit, ProposeEntry, Inserts
    <3> QED
      BY <1>0, <1>9, <3>1 DEF LifeInv, QuietInv
  <2>5. Listed' = Listed
    BY <2>1 DEF Listed
  <2>6. gaveUp => gaveUp'
    BY <2>1
  <2> QED
    BY <1>3, <2>1, <2>2, <2>3, <2>4, <2>5, <2>6
<1> QED
  BY <1>2, <1>4, <1>5, <1>6, <1>7, <1>8, <1>9 DEF Next, Run, Inserts, Await, Finish

-----------------------------------------------------------------------------
(***************************************************************************)
(* The replay before and after a step                                      *)
(***************************************************************************)
\* What the broker makes of one proposal more, as a formula of one state.
SubmitRules ==
  \A ids \in SUBSET Rows, id \in Rows, b \in Book :
    IsFiniteSet(ids) /\ id \notin ids /\ Fresh(b, ids \union {id}) =>
      IF Accepts(SubmitAll(b, ids), proposals[id].symbol, proposals[id].side)
      THEN SubmitAll(b, ids \union {id}) = [SubmitAll(b, ids) EXCEPT !.order[id] = "PENDING"]
      ELSE (\A j \in ids : Rivals(j, id) => Earlier(j, id))
             => SubmitAll(b, ids \union {id}) = SubmitAll(b, ids)

\* They hold of every table.
LEMMA SubmitRulesHold == TableType => SubmitRules
  BY SubmitAnother, SubmitRefused DEF SubmitRules

\* The submissions of a day fill nothing and close nothing, and what is filled stays so.
DayFacts ==
  \A day \in 1 .. Len(candles) :
    /\ Replay[day].held = Morning(day).held
    /\ \A id \in Ids : /\ Replay[day].order[id] = "FILLED" <=> Morning(day).order[id] = "FILLED"
                       /\ Replay[day - 1].order[id] = "FILLED" => Replay[day].order[id] = "FILLED"

\* They hold of every replay.
LEMMA DayFactsHold == StoreType /\ IsFiniteSet(Rows) => DayFacts
<1> SUFFICES ASSUME StoreType, IsFiniteSet(Rows), NEW day \in 1 .. Len(candles)
             PROVE  /\ Replay[day].held = Morning(day).held
                    /\ \A id \in Ids :
                         /\ Replay[day].order[id] = "FILLED" <=> Morning(day).order[id] = "FILLED"
                         /\ Replay[day - 1].order[id] = "FILLED" => Replay[day].order[id] = "FILLED"
  BY DEF DayFacts
<1>0. day - 1 \in 0 .. Len(candles) /\ day \in Nat
  BY LenProperties DEF StoreType
<1>1. PICK m, ids : m = Morning(day) /\ ids = Decided(day)
  OBVIOUS
<1>2. Replay[day] = SubmitAll(m, ids) /\ m \in Book /\ Fresh(m, ids)
  BY <1>1, ReplayIsTable DEF ReplayFacts, UpTo
<1>3. /\ Replay[day].held = m.held
      /\ \A id \in Ids : Replay[day].order[id] = IF id \in Taken(m, ids) THEN "PENDING" ELSE m.order[id]
  BY <1>2, SubmitAllType
<1>4. \A id \in Taken(m, ids) : m.order[id] = "none"
  BY <1>2 DEF Taken, Fresh
<1>5. \A id \in Ids : Replay[day].order[id] = "FILLED" <=> m.order[id] = "FILLED"
  BY <1>3, <1>4
<1>6. Replay[day - 1] \in Book
  BY <1>0, ReplayIsTable DEF ReplayFacts, UpTo
<1>7. \A id \in Ids : Replay[day - 1].order[id] = "FILLED" => m.order[id] = "FILLED"
  BY <1>0, <1>1, <1>6, AdvanceType DEF Morning
<1> QED
  BY <1>1, <1>3, <1>5, <1>7

\* What the two states of a step are known to satisfy.
LEMMA BothStates ==
  ASSUME IInv, RowsInv, RunInv, [Next]_vars
  PROVE  /\ TableType /\ RowsKept /\ LifeInv /\ StoreType
         /\ ReplayFacts /\ DayFacts /\ SubmitRules
         /\ IInv' /\ RowsInv' /\ RunInv' /\ StoreType' /\ TableType'
         /\ ReplayFacts' /\ DayFacts' /\ SubmitRules'
         /\ Len(candles) \in Nat /\ Len(candles') \in Nat /\ Len(candles) <= Len(candles')
         /\ asOf \in Nat /\ asOf <= Len(candles)
         /\ \A day \in 1 .. Len(candles) : candles'[day] = candles[day]
<1>1. IInv' /\ RowsInv' /\ RunInv'
  BY Inductive, RowsInvKept, RunInvKept DEF IInv
<1>2. StoreType /\ StoreType' /\ TableType /\ TableType' /\ RowsKept /\ LifeInv
  BY <1>1, StepKeepsRows DEF IInv, LifeInv, StoreType, TableType
<1>3. (StoreType /\ IsFiniteSet(Rows) => ReplayFacts)'
  BY ReplayIsTable, PTL
<1>4. (StoreType /\ IsFiniteSet(Rows) => DayFacts)'
  BY DayFactsHold, PTL
<1>5. (TableType => SubmitRules)'
  BY SubmitRulesHold, PTL
<1>6. Len(candles) \in Nat /\ asOf \in Nat /\ asOf <= Len(candles)
  BY <1>2, LenProperties DEF StoreType
<1>7. /\ Len(candles') \in Nat /\ Len(candles) <= Len(candles')
      /\ \A day \in 1 .. Len(candles) : candles'[day] = candles[day]
  <2>1. CASE Tick
    <3>1. CASE UNCHANGED candles
      BY <1>6, <3>1
    <3>2. ASSUME NEW c \in DayCandles, candles' = Append(candles, c)
          PROVE  /\ Len(candles') = Len(candles) + 1
                 /\ \A day \in 1 .. Len(candles) : candles'[day] = candles[day]
      BY <1>2, <3>2, AppendProperties DEF StoreType
    <3> QED
      BY <1>6, <2>1, <3>1, <3>2 DEF Tick
  <2>2. CASE ~Tick
    <3>1. UNCHANGED candles
      BY <2>2 DEF Next, Operator, Run, Await, Finish, Tap, StartRun, ExitsDone, EntriesDone, Poll,
         AwaitDone, SyncDone, GiveUp, Crash, Restart, ProcessExit, ProposeEntry, Inserts, TakeDecision,
         ExpireOne, SubmitApproved, MarkSubmitted, SyncFill, vars
    <3> QED
      BY <1>6, <3>1
  <2> QED
    BY <2>1, <2>2
<1> QED
  BY <1>1, <1>2, <1>3, <1>4, <1>5, <1>6, <1>7, ReplayIsTable, DayFactsHold, SubmitRulesHold
     DEF RowsInv

\* The run's own day starts from the same book as long as the run, or the wait after a
\* restart, goes on.
LEMMA MorningsKept ==
  ASSUME IInv, RowsInv, RunInv, [Next]_vars, caller = "run" \/ ~gaveUp
  PROVE  \A day \in 1 .. asOf : Morning(day)' = Morning(day)
<1>1. \A day \in 1 .. asOf - 1 : Decided(day)' = Decided(day)
  <2>1. \A day \in 1 .. asOf - 1 : day < asOf
    BY BothStates
  <2> QED
    BY <2>1, PastIsDecided DEF IInv
<1>2. \A day \in 1 .. asOf : candles'[day] = candles[day]
  BY BothStates
<1>3. asOf <= Len(candles')
  BY BothStates
<1> QED
  BY <1>1, <1>2, <1>3, BothStates, ReplayKept

\* The whole replay is the same if nothing is decided.
LEMMA WholeReplayKept ==
  ASSUME IInv, RowsInv, RunInv, [Next]_vars, \A day : Decided(day)' = Decided(day)
  PROVE  \A day \in 0 .. Len(candles) : Replay'[day] = Replay[day]
<1> DEFINE n == Len(candles)
<1>0. /\ n \in Nat /\ n <= Len(candles') /\ TableType /\ RowsKept /\ ReplayFacts /\ ReplayFacts'
      /\ \A day \in 1 .. n : candles'[day] = candles[day]
  BY BothStates
<1>1. /\ \A day \in 0 .. n - 1 : Replay'[day] = Replay[day]
      /\ \A day \in 1 .. n : Morning(day)' = Morning(day)
  BY <1>0, ReplayKept, BothStates
<1>2. ASSUME n >= 1 PROVE Replay'[n] = Replay[n]
  <2>0. PICK l \in Nat : l = n
    BY <1>0
  <2>1. l \in 1 .. Len(candles) /\ l \in 1 .. Len(candles')
    BY <1>0, <1>2, <2>0, BothStates
  <2>2. PICK m, ids : m = Morning(l) /\ ids = Decided(l)
    OBVIOUS
  <2>3. Replay[l] = SubmitAll(m, ids) /\ Fresh(m, ids) /\ ids \in SUBSET Rows
    BY <1>0, <2>1, <2>2, DecidedRows DEF ReplayFacts
  <2>4. Morning(l)' = m /\ Decided(l)' = ids
    BY <1>1, <2>0, <2>1, <2>2
  <2>5. Replay'[l] = SubmitAll(m, ids)'
    BY <1>0, <2>1, <2>4 DEF ReplayFacts
  <2>6. SubmitAll(m, ids)' = SubmitAll(m, ids)
    BY <1>0, <2>3, SubmitAllKept
  <2> QED
    BY <2>0, <2>3, <2>5, <2>6
<1>3. ASSUME n = 0 PROVE Replay'[n] = Replay[n]
  BY <1>0, <1>3 DEF ReplayFacts, EmptyBook
<1>4. \A day \in 0 .. n : day \in 0 .. n - 1 \/ day = n
  BY <1>0
<1> QED
  BY <1>0, <1>1, <1>2, <1>3, <1>4

-----------------------------------------------------------------------------
(***************************************************************************)
(* The book of a run: what the run has handed over, on top of the replay   *)
(* of the days before                                                      *)
(***************************************************************************)
\* The proposals of the run whose submission failed: replay skips them, but an entry
\* without a stop was queued before it failed.
Failing == {id \in WithStatus({"FAILED"}) : proposals[id].createdAt = runNow}

\* What the run's broker has been handed, or will be.
Handed == Decided(asOf) \union Failing

\* Only a submission fails.
LEMMA FailingKept ==
  ASSUME LifeInv, [Next]_vars, ~SubmitApproved, UNCHANGED runNow
  PROVE  Failing' = Failing
<1>0. RowsKept /\ StoreType /\ Written
  BY StepKeepsRows, NextWrites DEF LifeInv
<1>1. WithStatus({"FAILED"})' = WithStatus({"FAILED"})
  <2>1. CASE Unwritten
    BY <2>1 DEF Unwritten, WithStatus
  <2>2. ASSUME NEW id \in Ids, proposals[id] # NoProposal, proposals[id].status # "FAILED",
               NEW status \in Statuses, SetStatus(id, status), status # "FAILED"
        PROVE  WithStatus({"FAILED"})' = WithStatus({"FAILED"})
    <3>1. OneRow(id, status) /\ id \notin WithStatus({"FAILED"})
      BY <1>0, <2>2, SetStatusEffect, OneRowChanged DEF WithStatus
    <3> QED
      BY <2>2, <3>1 DEF OneRow, Statuses
  <2>3. ASSUME NEW id \in Ids, NEW s \in Symbols, NEW side \in {"long", "exit"},
               NEW stop \in BOOLEAN, NEW status \in {"PENDING", "SUBMITTED"},
               NEW expiresAt \in Nat, Insert(id, s, side, stop, status, expiresAt)
        PROVE  WithStatus({"FAILED"})' = WithStatus({"FAILED"})
    <3>1. status \in Statuses
      BY DEF Statuses
    <3>2. OneRow(id, status) /\ id \notin WithStatus({"FAILED"})
      BY <1>0, <2>3, <3>1, InsertEffect, OneRowChanged DEF WithStatus
    <3> QED
      BY <3>2 DEF OneRow, Statuses
  <2> QED
    BY <1>0, <2>1, <2>2, <2>3 DEF Written
<1>2. \A id \in WithStatus({"FAILED"}) : proposals'[id].createdAt = proposals[id].createdAt
  BY <1>0 DEF RowsKept, WithStatus, Rows
<1> QED
  BY <1>1, <1>2 DEF Failing

\* The book of the morning has no orders of what is handed over today.
LEMMA HandedFresh ==
  RowsInv /\ ReplayFacts /\ asOf \in Nat /\ asOf \in 1 .. Len(candles)
    => Handed \in SUBSET Rows /\ Fresh(Morning(asOf), Handed)
<1> SUFFICES ASSUME RowsInv, ReplayFacts, asOf \in Nat, asOf \in 1 .. Len(candles)
             PROVE  Handed \in SUBSET Rows /\ Fresh(Morning(asOf), Handed)
  OBVIOUS
<1>1. Handed \in SUBSET Rows
  BY DecidedRows DEF Handed, Failing, WithStatus, Rows
<1>2. PICK m : m = Morning(asOf)
  OBVIOUS
<1>3. Fresh(m, Decided(asOf)) /\ UpTo(m, asOf - 1)
  BY <1>2 DEF ReplayFacts
<1>4. ASSUME NEW id \in Failing PROVE m.order[id] = "none"
  <2>1. id \in Rows /\ id \in Ids /\ proposals[id].asOf = asOf
    BY <1>4 DEF Failing, WithStatus, Rows, RowsInv
  <2> QED
    BY <1>3, <2>1 DEF UpTo
<1> QED
  BY <1>1, <1>2, <1>3, <1>4 DEF Fresh, Handed

\* A submission moves a proposal from the decided to the failed ones at most.
LEMMA SubmitHands ==
  ASSUME IInv, RowsInv, RunInv, [Next]_vars, SubmitApproved
  PROVE  Handed' = Handed
<1> DEFINE h == Head(approved)
<1>0. LifeInv /\ StoreType /\ RowsKept /\ UNCHANGED <<asOf, runNow>>
  BY StepKeepsRows DEF IInv, LifeInv, SubmitApproved, runVars
<1>1. /\ h \in Rows /\ h \in Ids /\ proposals[h] # NoProposal /\ proposals[h].status = "APPROVED"
      /\ proposals[h].createdAt = runNow /\ proposals[h].asOf = asOf /\ h \in Decided(asOf)
  BY <1>0, AboutRows DEF SubmitApproved, RunInv, RowsInv, Rows
<1>2. Unwritten \/ SetStatus(h, "SUBMITTED") \/ SetStatus(h, "FAILED")
  BY DEF SubmitApproved, MaybeSetStatus, Unwritten
<1> HIDE DEF h
<1>3. PICK l : l = asOf
  OBVIOUS
<1>4. \A id \in WithStatus({"FAILED"}) : proposals'[id].createdAt = proposals[id].createdAt
  BY <1>0 DEF RowsKept, WithStatus, Rows
<1>5. h \notin WithStatus({"FAILED"})
  BY <1>1 DEF WithStatus
<1>6. CASE Unwritten
  BY <1>0, <1>6 DEF Unwritten, Handed, Failing, Decided, WithStatus
<1>7. CASE SetStatus(h, "SUBMITTED")
  <2>1. "SUBMITTED" \in Statuses /\ "SUBMITTED" \in DecidedStatuses
    BY DEF Statuses, DecidedStatuses
  <2>2. Decided(l)' = Decided(l)
    BY <1>0, <1>1, <1>3, <1>7, <2>1, UpdateChange
  <2>3. OneRow(h, "SUBMITTED")
    BY <1>0, <1>1, <1>7, <2>1, SetStatusEffect, OneRowChanged
  <2>4. WithStatus({"FAILED"})' = WithStatus({"FAILED"})
    BY <1>5, <2>3 DEF OneRow, Statuses
  <2>5. Failing' = Failing
    BY <1>0, <1>4, <2>4 DEF Failing
  <2> QED
    BY <1>0, <1>3, <2>2, <2>5 DEF Handed
<1>8. CASE SetStatus(h, "FAILED")
  <2>1. "FAILED" \in Statuses /\ "FAILED" \notin DecidedStatuses
    BY DEF Statuses, DecidedStatuses
  <2>2. Decided(l)' = Decided(l) \ {h}
    BY <1>0, <1>1, <1>8, <2>1, UpdateChange
  <2>3. OneRow(h, "FAILED")
    BY <1>0, <1>1, <1>8, <2>1, SetStatusEffect, OneRowChanged
  <2>4. WithStatus({"FAILED"})' = WithStatus({"FAILED"}) \union {h}
    BY <1>5, <2>3 DEF OneRow, Statuses
  <2>5. proposals'[h].createdAt = runNow
    BY <1>0, <1>1 DEF RowsKept
  <2>6. Failing' = Failing \union {h}
    BY <1>0, <1>4, <2>4, <2>5 DEF Failing
  <2> QED
    BY <1>0, <1>1, <1>3, <2>2, <2>6 DEF Handed
<1> QED
  BY <1>2, <1>6, <1>7, <1>8

\* A daily run is under way.
InRun == caller = "run" /\ pc \in {"exits", "entries", "await", "settle"}

\* The run's broker has what was handed over, which is all but the approvals listed.
RunBook ==
  /\ book \in Book
  /\ InRun => book = SubmitAll(Morning(asOf), Handed \ Listed)
  /\ caller = "resume" /\ pc = "settle" => book = Replay[loaded]

\* The run's book and the day's submissions, before and after a step of the run.
LEMMA RunStep ==
  ASSUME IInv, RowsInv, RunInv, RunBook, [Next]_vars, InRun, UNCHANGED <<caller, asOf>>
  PROVE  \E m, d :
           /\ m = Morning(asOf) /\ d = Handed
           /\ Morning(asOf)' = m
           /\ m \in Book /\ Fresh(m, d) /\ d \in SUBSET Rows /\ IsFiniteSet(d)
           /\ Fresh(m, Handed)'
           /\ book = SubmitAll(m, d \ Listed)
           /\ \A ids \in SUBSET d : SubmitAll(m, ids)' = SubmitAll(m, ids)
<1>0. asOf \in 1 .. Len(candles) /\ asOf \in 1 .. Len(candles') /\ caller = "run"
  BY BothStates DEF InRun, RunInv
<1>1. PICK m, d : m = Morning(asOf) /\ d = Handed
  OBVIOUS
<1>2. Morning(asOf)' = m
  <2>1. PICK l \in Nat : l = asOf
    BY <1>0
  <2>2. Morning(l)' = Morning(l)
    BY <1>0, <2>1, MorningsKept
  <2> QED
    BY <1>1, <2>1, <2>2
<1>3. m \in Book /\ Fresh(m, d) /\ d \in SUBSET Rows
  BY <1>0, <1>1, BothStates, HandedFresh DEF Fresh
<1>4. IsFiniteSet(d)
  BY <1>3, FS_Subset DEF RowsInv
<1>5. Fresh(m, Handed)'
  <2>1. /\ RowsInv' /\ ReplayFacts' /\ asOf' \in 1 .. Len(candles')
        /\ asOf' \in Nat
    BY <1>0, BothStates
  <2>2. (RowsInv /\ ReplayFacts /\ asOf \in Nat /\ asOf \in 1 .. Len(candles)
           => Handed \in SUBSET Rows /\ Fresh(Morning(asOf), Handed))'
    BY HandedFresh, PTL
  <2> QED
    BY <1>2, <2>1, <2>2
<1>6. book = SubmitAll(m, d \ Listed)
  BY <1>1 DEF RunBook
<1>7. ASSUME NEW ids \in SUBSET d PROVE SubmitAll(m, ids)' = SubmitAll(m, ids)
  <2>1. Fresh(m, ids) /\ ids \in SUBSET Rows
    BY <1>3, <1>4 DEF Fresh
  <2> QED
    BY <2>1, BothStates, SubmitAllKept
<1> QED
  BY <1>1, <1>2, <1>3, <1>4, <1>5, <1>6, <1>7

\* An exit goes to the broker and into the table at once.
LEMMA ExitKeepsBook ==
  ASSUME IInv, RowsInv, RunInv, RunBook, [Next]_vars,
         NEW id \in Ids, NEW s \in Symbols, ProcessExit(id, s)
  PROVE  RunBook'
<1>1. /\ InRun /\ pc = "exits" /\ UNCHANGED <<caller, asOf, runNow, approved, pc>>
      /\ Accepts(book, s, "exit") /\ book' = [book EXCEPT !.order[id] = "PENDING"]
  BY DEF ProcessExit, InRun, RunInv, awaitVars
<1>2. Listed = {} /\ Listed' = {}
  BY <1>1, EmptySeq DEF IInv, LifeInv, QuietInv, Listed
<1>3. PICK m, d :
           /\ m = Morning(asOf) /\ d = Handed
           /\ Morning(asOf)' = m
           /\ m \in Book /\ Fresh(m, d) /\ d \in SUBSET Rows /\ IsFiniteSet(d)
           /\ Fresh(m, Handed)'
           /\ book = SubmitAll(m, d \ Listed)
           /\ \A ids \in SUBSET d : SubmitAll(m, ids)' = SubmitAll(m, ids)
  BY <1>1, RunStep
<1>4. Inserted(id, s) /\ id \notin Rows /\ id \in Rows'
      /\ proposals'[id].symbol = s /\ proposals'[id].side = "exit"
  BY <1>1, InsertedRow DEF Inserted, Inserts, IInv
<1>5. Handed' = d \union {id}
  <2>1. \A day : Decided(day)' = Decided(day) \union (IF day = asOf THEN {id} ELSE {})
    <3>1. "SUBMITTED" \in DecidedStatuses /\ "SUBMITTED" \in Statuses
      BY DEF DecidedStatuses, Statuses
    <3>2. OneRow(id, "SUBMITTED") /\ proposals'[id].asOf = asOf
      BY <1>4, InsertedRow DEF Inserted, Inserts, IInv
    <3>3. \A i \in Rows : proposals'[i].asOf = proposals[i].asOf
      BY BothStates DEF RowsKept
    <3>4. \A day : id \notin Decided(day)
      BY <1>4, DecidedRows
    <3> QED
      BY <3>1, <3>2, <3>3, <3>4, DecidedChange DEF IInv
  <2>2. PICK l : l = asOf
    OBVIOUS
  <2>3. Decided(l)' = Decided(l) \union {id}
    BY <2>1, <2>2
  <2>4. Failing' = Failing
    BY <1>1, FailingKept DEF SubmitApproved, IInv
  <2> QED
    BY <1>1, <1>3, <2>2, <2>3, <2>4 DEF Handed
<1>6. book = SubmitAll(m, d) /\ SubmitAll(m, d)' = book /\ book \in Book
  BY <1>2, <1>3, SubmitAllType
<1>7. \A i \in Ids : book.order[i] # "none" => i \in Rows
  <2>1. \A i \in Ids : book.order[i] = IF i \in Taken(m, d) THEN "PENDING" ELSE m.order[i]
    BY <1>3, <1>6, SubmitAllType
  <2> QED
    BY <1>3, <2>1 DEF Taken, Fresh
<1>8. PICK b : b = book
  OBVIOUS
<1>9. Accepts(SubmitAll(m, d), proposals[id].symbol, proposals[id].side)'
  <2>1. Queued(b, s, "exit") = {} /\ b.held[s] # 0
    BY <1>1, <1>8 DEF Accepts
  <2>2. \A i \in Ids : b.order[i] = "PENDING" => i \in Rows
    BY <1>7, <1>8
  <2>3. Queued(b, s, "exit")' = {}
    BY <2>1, <2>2, BothStates DEF Queued, RowsKept
  <2>4. SubmitAll(m, d)' = b
    BY <1>6, <1>8
  <2> QED
    BY <1>4, <2>1, <2>3, <2>4 DEF Accepts, Queued
<1>10. book' = SubmitAll(m, d \union {id})'
  <2>1. Fresh(m, d \union {id})' /\ d \in SUBSET Rows' /\ id \in Rows' /\ id \notin d
    BY <1>3, <1>4, <1>5 DEF Fresh, Inserted
  <2>2. SubmitAll(m, d \union {id})' = [SubmitAll(m, d)' EXCEPT !.order[id] = "PENDING"]
    BY <1>3, <1>9, <2>1, BothStates DEF SubmitRules
  <2> QED
    BY <1>1, <1>6, <2>2
<1>11. (Handed \ Listed)' = d \union {id}
  BY <1>2, <1>5
<1>12. book' \in Book
  BY <1>1, <1>6 DEF Book
<1> QED
  BY <1>1, <1>3, <1>10, <1>11, <1>12 DEF RunBook, InRun

\* An approved proposal comes off the list and goes to the broker, which takes it or
\* refuses it as replay will.
LEMMA SubmitKeepsBook ==
  ASSUME IInv, RowsInv, RunInv, RunBook, [Next]_vars, SubmitApproved
  PROVE  RunBook'
<1> DEFINE h == Head(approved)
<1>1. /\ InRun /\ pc = "settle" /\ UNCHANGED <<caller, asOf, pc>>
      /\ approved # <<>> /\ approved' = Tail(approved) /\ book' = Submit(book, h)
      /\ caller = "run"
  BY DEF SubmitApproved, InRun, runVars
<1>2. PICK m, d :
           /\ m = Morning(asOf) /\ d = Handed
           /\ Morning(asOf)' = m
           /\ m \in Book /\ Fresh(m, d) /\ d \in SUBSET Rows /\ IsFiniteSet(d)
           /\ Fresh(m, Handed)'
           /\ book = SubmitAll(m, d \ Listed)
           /\ \A ids \in SUBSET d : SubmitAll(m, ids)' = SubmitAll(m, ids)
  BY <1>1, RunStep
<1>3. /\ h \in Listed /\ h \in d /\ h \in Rows /\ h \in Ids
      /\ proposals[h].createdAt = runNow
  BY <1>1, <1>2, AboutRows DEF IInv, RunInv, RowsInv, Rows, Handed
<1>4. Listed' = Listed \ {h}
  <2>1. /\ Len(approved) \in Nat /\ Len(approved) >= 1 /\ h = approved[1]
        /\ Len(approved') = Len(approved) - 1
        /\ \A i \in 1 .. Len(approved') : approved'[i] = approved[i + 1]
    BY <1>1, HeadTailProperties, LenProperties DEF IInv, LifeInv, AwaitInv
  <2>2. \A i, j \in 1 .. Len(approved) : approved[i] = approved[j] => i = j
    BY DEF IInv, LifeInv, AwaitInv
  <2> HIDE DEF h
  <2>3. \A i \in 1 .. Len(approved') : approved'[i] \in Listed \ {h}
    BY <2>1, <2>2 DEF Listed
  <2>4. ASSUME NEW i \in 1 .. Len(approved), approved[i] # h PROVE approved[i] \in Listed'
    <3>1. i - 1 \in 1 .. Len(approved') /\ approved'[i - 1] = approved[i]
      BY <2>1, <2>4
    <3> QED
      BY <3>1 DEF Listed
  <2> QED
    BY <2>3, <2>4 DEF Listed
<1> HIDE DEF h
<1>5. PICK x : x = d \ Listed
  OBVIOUS
<1>6. /\ x \in SUBSET Rows /\ x \in SUBSET d /\ IsFiniteSet(x) /\ h \notin x
      /\ x \union {h} \in SUBSET d /\ Fresh(m, x \union {h})
  BY <1>2, <1>3, <1>5, FS_Subset DEF Fresh
<1>7. book = SubmitAll(m, x) /\ book \in Book /\ book.order[h] = "none"
  <2>1. book = SubmitAll(m, x)
    BY <1>2, <1>5
  <2> QED
    BY <1>2, <1>3, <1>6, <2>1, SubmitAllType DEF Taken, Fresh
<1>8. Handed' = d
  BY <1>2, SubmitHands
<1>9. SubmitRules
  BY BothStates
<1>10. IF Accepts(SubmitAll(m, x), proposals[h].symbol, proposals[h].side)
       THEN SubmitAll(m, x \union {h}) = [SubmitAll(m, x) EXCEPT !.order[h] = "PENDING"]
       ELSE (\A j \in x : Rivals(j, h) => Earlier(j, h))
              => SubmitAll(m, x \union {h}) = SubmitAll(m, x)
  BY <1>2, <1>3, <1>6, <1>9 DEF SubmitRules
<1>11. \A ids \in SUBSET d : SubmitAll(m, ids)' = SubmitAll(m, ids) /\ SubmitAll(m, ids) \in Book
  <2>1. \A ids \in SUBSET d : SubmitAll(m, ids)' = SubmitAll(m, ids)
    BY <1>2
  <2>2. \A ids : SubmitAll(m, ids) \in Book
    BY <1>2, SubmitAllType
  <2> QED
    BY <2>1, <2>2
<1>12. PICK z : z = x \union {h}
  OBVIOUS
<1>13. x \in SUBSET d /\ z \in SUBSET d
  BY <1>6, <1>12
<1>14. SubmitAll(m, x)' = SubmitAll(m, x) /\ SubmitAll(m, z)' = SubmitAll(m, z)
       /\ SubmitAll(m, x) \in Book /\ SubmitAll(m, z) \in Book
  BY <1>11, <1>13
<1>15. (Handed \ Listed)' = z
  BY <1>3, <1>4, <1>5, <1>8, <1>12
<1>16. CASE Accepts(book, proposals[h].symbol, proposals[h].side)
  <2>1. book' = [book EXCEPT !.order[h] = "PENDING"]
    BY <1>1, <1>7, <1>16 DEF Submit
  <2>2. book' = SubmitAll(m, z)
    BY <1>7, <1>16, <1>10, <1>12, <2>1
  <2>3. book' = SubmitAll(m, z)' /\ book' \in Book
    BY <1>14, <2>2
  <2> QED
    BY <1>1, <1>2, <1>15, <2>3 DEF RunBook, InRun
<1>17. CASE ~Accepts(book, proposals[h].symbol, proposals[h].side)
  <2>1. book' = book
    BY <1>1, <1>17 DEF Submit
  <2>2. \A j \in x : Rivals(j, h) => Earlier(j, h)
    <3> SUFFICES ASSUME NEW j \in x, Rivals(j, h) PROVE Earlier(j, h)
      OBVIOUS
    <3>1. j \in Rows /\ j # h /\ proposals[j].symbol = proposals[h].symbol
      BY <1>6 DEF Rivals
    <3>2. proposals[j].createdAt # proposals[h].createdAt /\ proposals[j].createdAt <= runNow
      BY <1>3, <3>1 DEF RowsInv
    <3>3. proposals[j].createdAt \in Nat /\ runNow \in Nat
      BY <3>1, RowType, BothStates DEF StoreType
    <3> QED
      BY <1>3, <3>2, <3>3 DEF Earlier
  <2>3. SubmitAll(m, z) = book
    BY <1>7, <1>17, <1>10, <1>12, <2>2
  <2>4. book' = SubmitAll(m, z)' /\ book' \in Book
    BY <1>7, <1>14, <2>1, <2>3
  <2> QED
    BY <1>1, <1>2, <1>15, <2>4 DEF RunBook, InRun
<1> QED
  BY <1>16, <1>17

\* A step of a run that leaves its book and what was handed over.
LEMMA SameHandedOver ==
  ASSUME IInv, RowsInv, RunInv, RunBook, [Next]_vars, UNCHANGED <<caller, asOf, book>>,
         InRun, (Handed \ Listed)' = Handed \ Listed
  PROVE  RunBook'
<1>1. PICK m, d :
           /\ m = Morning(asOf) /\ d = Handed
           /\ Morning(asOf)' = m
           /\ m \in Book /\ Fresh(m, d) /\ d \in SUBSET Rows /\ IsFiniteSet(d)
           /\ Fresh(m, Handed)'
           /\ book = SubmitAll(m, d \ Listed)
           /\ \A ids \in SUBSET d : SubmitAll(m, ids)' = SubmitAll(m, ids)
  BY RunStep
<1>2. PICK x : x = d \ Listed
  OBVIOUS
<1>3. book' = SubmitAll(m, x)' /\ book' \in Book
  BY <1>1, <1>2 DEF RunBook
<1>4. (Handed \ Listed)' = x
  BY <1>1, <1>2
<1> QED
  BY <1>1, <1>3, <1>4 DEF RunBook, InRun

\* Whatever is neither an exit nor an approval nor a failure decides nothing.
LEMMA QuietDecides ==
  ASSUME LifeInv, [Next]_vars,
         \/ Unwritten
         \/ \E id \in Ids, s \in Symbols, stop \in BOOLEAN : ProposeEntry(id, s, stop)
         \/ \E id \in Ids : ExpireOne(id)
         \/ MarkSubmitted
         \/ \E id \in Ids : SyncFill(id)
  PROVE  \A day : Decided(day)' = Decided(day)
<1>1. CASE Unwritten
  BY <1>1 DEF Unwritten, Decided, WithStatus
<1>2. ASSUME ~\E id \in Ids, s \in Symbols : ProcessExit(id, s), ~TakeDecision, ~SubmitApproved
      PROVE  \A day : Decided(day)' = Decided(day)
  BY <1>2, StepDecides DEF DecidedStep
<1>3. CASE \E id \in Ids, s \in Symbols, stop \in BOOLEAN : ProposeEntry(id, s, stop)
  BY <1>2, <1>3 DEF ProposeEntry, Inserts, ProcessExit, TakeDecision, SubmitApproved
<1>4. CASE \E id \in Ids : ExpireOne(id)
  <2>1. pc = "await" /\ polling # {}
    BY <1>4 DEF ExpireOne, LifeInv, QuietInv
  <2> QED
    BY <1>2, <2>1 DEF ProcessExit, TakeDecision, SubmitApproved
<1>5. CASE MarkSubmitted \/ \E id \in Ids : SyncFill(id)
  BY <1>2, <1>5 DEF MarkSubmitted, SyncFill, Settled, ProcessExit, TakeDecision, SubmitApproved
<1> QED
  BY <1>1, <1>3, <1>4, <1>5

\* It hands nothing over.
LEMMA QuietHands ==
  ASSUME LifeInv, [Next]_vars, UNCHANGED <<asOf, runNow>>,
         \/ Unwritten
         \/ \E id \in Ids, s \in Symbols, stop \in BOOLEAN : ProposeEntry(id, s, stop)
         \/ \E id \in Ids : ExpireOne(id)
         \/ MarkSubmitted
         \/ \E id \in Ids : SyncFill(id)
  PROVE  Handed' = Handed
<1>1. PICK l : l = asOf
  OBVIOUS
<1>2. Decided(l)' = Decided(l)
  BY QuietDecides
<1>3. Failing' = Failing
  <2>1. CASE Unwritten
    BY <2>1 DEF Unwritten, Failing, WithStatus
  <2>2. CASE \E id \in Ids, s \in Symbols, stop \in BOOLEAN : ProposeEntry(id, s, stop)
    BY <2>2, FailingKept DEF ProposeEntry, SubmitApproved
  <2>3. CASE \E id \in Ids : ExpireOne(id)
    <3>1. pc = "await"
      BY <2>3 DEF ExpireOne, LifeInv, QuietInv
    <3> QED
      BY <3>1, FailingKept DEF SubmitApproved
  <2>4. CASE MarkSubmitted \/ \E id \in Ids : SyncFill(id)
    BY <2>4, FailingKept DEF MarkSubmitted, SyncFill, Settled, SubmitApproved
  <2> QED
    BY <2>1, <2>2, <2>3, <2>4
<1> QED
  BY <1>1, <1>2, <1>3 DEF Handed

\* A new run's broker is the replay's.
LEMMA StartHasBook ==
  ASSUME IInv, RowsInv, RunInv, RunBook, [Next]_vars, StartRun
  PROVE  RunBook'
<1>1. /\ Unwritten /\ UNCHANGED <<candles, approved>> /\ approved = <<>> /\ caller' = "run"
      /\ asOf' = Len(candles) /\ book' = Replay[Len(candles)] /\ processed < Len(candles)
      /\ processed \in Nat /\ runNow' = clock /\ clock > runNow /\ clock \in Nat /\ runNow \in Nat
  BY DEF StartRun, Unwritten, awaitVars, IInv, LifeInv, QuietInv, StoreType
<1>2. PICK l : l = Len(candles)
  OBVIOUS
<1>3. l \in 1 .. Len(candles) /\ l \in 0 .. Len(candles) /\ l \in 1 .. Len(candles') /\ asOf' = l
  BY <1>1, <1>2, BothStates
<1>4. Replay'[l] = Replay[l]
  BY <1>1, <1>3, QuietDecides, WholeReplayKept DEF IInv
<1>5. Replay'[l] = SubmitAll(Morning(l), Decided(l))' /\ Replay[l] \in Book
  BY <1>3, BothStates DEF ReplayFacts, UpTo
<1>6. Listed' = {}
  BY <1>1, EmptySeq DEF Listed
<1>7. (Handed \ Listed)' = Decided(l)'
  <2>1. \A id \in Rows : proposals[id].createdAt \in Nat /\ proposals[id].createdAt <= runNow
    BY RowType, BothStates DEF RowsInv
  <2>2. \A id \in Rows : proposals'[id].createdAt # runNow'
    BY <1>1, <2>1 DEF Unwritten
  <2>3. WithStatus({"FAILED"})' \subseteq Rows
    BY <1>1 DEF Unwritten, WithStatus, Rows
  <2>4. Failing' = {}
    BY <2>2, <2>3 DEF Failing
  <2> QED
    BY <1>3, <1>6, <2>4 DEF Handed
<1>8. PICK y : y = Decided(l)'
  OBVIOUS
<1>9. book' = SubmitAll(Morning(l), y)'
  BY <1>1, <1>2, <1>4, <1>5, <1>8
<1> QED
  BY <1>1, <1>2, <1>3, <1>5, <1>7, <1>8, <1>9 DEF RunBook, InRun

\* Every step of the engine keeps the run's book and the replay in agreement.
LEMMA RunBookKept ==
  ASSUME IInv, RowsInv, RunInv, RunBook, [Next]_vars
  PROVE  RunBook'
<1>0. LifeInv
  BY DEF IInv
<1>1. ASSUME UNCHANGED <<caller, asOf, book, approved, loaded>>, pc' = "settle" => pc = "settle",
             InRun' => InRun, \A day : Decided(day)' = Decided(day), Handed' = Handed
      PROVE  RunBook'
  <2>1. Listed' = Listed
    BY <1>1 DEF Listed
  <2>2. (Handed \ Listed)' = Handed \ Listed
    BY <1>1, <2>1
  <2>3. CASE InRun
    BY <1>1, <2>2, <2>3, SameHandedOver
  <2>4. CASE ~InRun
    <3>1. ASSUME caller = "resume", pc = "settle" PROVE book' = Replay'[loaded']
      <4>1. loaded \in 0 .. Len(candles)
        BY <1>0 DEF LifeInv, StoreType
      <4>2. Replay'[loaded] = Replay[loaded]
        BY <1>1, <4>1, WholeReplayKept
      <4> QED
        BY <1>1, <3>1, <4>2 DEF RunBook
    <3> QED
      BY <1>1, <2>4, <3>1 DEF RunBook
  <2> QED
    BY <2>3, <2>4
<1>2. CASE Tick \/ Operator \/ ExitsDone \/ EntriesDone \/ Poll \/ UNCHANGED vars
  <2> USE DEF Tick, Operator, Tap, ExitsDone, EntriesDone, Poll, vars, runVars, awaitVars, storeVars
  <2>1. Unwritten
    BY <1>2 DEF Unwritten
  <2>2. UNCHANGED <<caller, asOf, runNow, book, approved, loaded>>
    BY <1>2
  <2>3. (pc' = "settle" => pc = "settle") /\ (InRun' => InRun)
    BY <1>2 DEF InRun
  <2> QED
    BY <1>0, <1>1, <2>1, <2>2, <2>3, QuietDecides, QuietHands
<1>3. ASSUME NEW id \in Ids, NEW s \in Symbols, NEW stop \in BOOLEAN, ProposeEntry(id, s, stop) PROVE RunBook'
  <2>1. UNCHANGED <<caller, asOf, runNow, book, approved, loaded, pc>>
    BY <1>3 DEF ProposeEntry, Inserts
  <2> QED
    BY <1>0, <1>1, <1>3, <2>1, QuietDecides, QuietHands DEF InRun
<1>4. ASSUME NEW id \in Ids, ExpireOne(id) \/ SyncFill(id) PROVE RunBook'
  <2>1. UNCHANGED <<caller, asOf, runNow, book, approved, loaded, pc>>
    BY <1>4 DEF ExpireOne, SyncFill, runVars, awaitVars
  <2> QED
    BY <1>0, <1>1, <1>4, <2>1, QuietDecides, QuietHands DEF InRun
<1>5. CASE MarkSubmitted
  <2>1. UNCHANGED <<caller, asOf, book, loaded, pc>> /\ caller = "resume" /\ pc = "settle"
    BY <1>5 DEF MarkSubmitted, runVars
  <2>2. loaded \in 0 .. Len(candles)
    BY <1>0 DEF LifeInv, StoreType
  <2>3. Replay'[loaded] = Replay[loaded]
    BY <1>0, <1>5, <2>2, WholeReplayKept, QuietDecides
  <2> QED
    BY <2>1, <2>3 DEF RunBook, InRun
<1>6. CASE TakeDecision
  <2> DEFINE d == Head(channel)
  <2>1. UNCHANGED <<caller, asOf, runNow, book, pc>> /\ pc = "await"
    BY <1>6 DEF TakeDecision, runVars
  <2>5. Failing' = Failing
    BY <1>0, <2>1, FailingKept DEF SubmitApproved
  <2>2. CASE caller # "run"
    BY <2>1, <2>2 DEF RunBook, InRun
  <2>3. CASE caller = "run" /\ d.id \in remaining
    <3>0. d.id \in Rows /\ proposals[d.id].asOf = asOf /\ \A day : d.id \notin Decided(day)
      BY <1>0, <2>3, AboutRows DEF RunInv, RowsInv
    <3>1. PICK l : l = asOf
      OBVIOUS
    <3>4. d.id \notin Handed
      BY <1>0, <2>3, <3>0, AboutRows DEF Handed, Failing, WithStatus
    <3>2. CASE d.approved
      <4>1. SetStatus(d.id, "APPROVED") /\ approved' = Append(approved, d.id)
        BY <1>6, <2>3, <3>2 DEF TakeDecision
      <4>2. "APPROVED" \in DecidedStatuses /\ "APPROVED" \in Statuses
        BY DEF DecidedStatuses, Statuses
      <4>3. Decided(l)' = Decided(l) \union {d.id}
        BY <1>0, <3>0, <3>1, <4>1, <4>2, UpdateChange, StepKeepsRows
      <4>4. Listed' = Listed \union {d.id}
        <5>1. approved \in Seq(Ids) /\ d.id \in Ids
          <6>1. WithStatus({"APPROVED"}) \subseteq Ids
            BY DEF WithStatus
          <6> QED
            BY <1>0, <3>0, <6>1, SeqMonotonic DEF LifeInv, AwaitInv, Rows
        <5> HIDE DEF d
        <5>2. /\ Len(approved) \in Nat /\ Len(approved') = Len(approved) + 1
              /\ \A i \in 1 .. Len(approved) : approved'[i] = approved[i]
              /\ approved'[Len(approved) + 1] = d.id
          BY <4>1, <5>1, AppendProperties, LenProperties
        <5>3. 1 .. Len(approved') = (1 .. Len(approved)) \union {Len(approved) + 1}
          BY <5>2
        <5> QED
          BY <5>2, <5>3 DEF Listed
      <4>5. (Handed \ Listed)' = Handed \ Listed
        BY <2>1, <2>5, <3>1, <3>4, <4>3, <4>4 DEF Handed
      <4> QED
        BY <2>1, <2>3, <4>5, SameHandedOver DEF InRun
    <3>3. CASE ~d.approved
      <4>1. SetStatus(d.id, "REJECTED") /\ approved' = approved
        BY <1>6, <2>3, <3>3 DEF TakeDecision
      <4>2. "REJECTED" \notin DecidedStatuses /\ "REJECTED" \in Statuses
        BY DEF DecidedStatuses, Statuses
      <4>3. Decided(l)' = Decided(l)
        BY <1>0, <3>0, <4>1, <4>2, UpdateChange, StepKeepsRows
      <4>4. Listed' = Listed
        BY <4>1 DEF Listed
      <4>5. (Handed \ Listed)' = Handed \ Listed
        BY <2>1, <2>5, <3>1, <4>3, <4>4 DEF Handed
      <4> QED
        BY <2>1, <2>3, <4>5, SameHandedOver DEF InRun
    <3> QED
      BY <3>2, <3>3
  <2>4. CASE d.id \notin remaining
    <3>1. Unwritten /\ UNCHANGED <<approved, loaded>>
      BY <1>6, <2>4 DEF TakeDecision, Unwritten
    <3> QED
      BY <1>0, <1>1, <2>1, <3>1, QuietDecides, QuietHands DEF InRun
  <2> QED
    BY <2>2, <2>3, <2>4
<1>7. CASE AwaitDone
  <2>1. /\ Unwritten /\ UNCHANGED <<caller, asOf, runNow, approved, loaded>> /\ pc = "await" /\ pc' = "settle"
        /\ book' = IF caller = "run" THEN book ELSE Replay[loaded]
    BY <1>7 DEF AwaitDone, Unwritten, storeVars, runVars, awaitVars
  <2>2. CASE caller = "run"
    <3>1. Listed' = Listed
      BY <2>1 DEF Listed
    <3>2. Handed' = Handed
      BY <1>0, <2>1, QuietHands
    <3> QED
      BY <2>1, <2>2, <3>1, <3>2, SameHandedOver DEF InRun
  <2>3. CASE caller # "run"
    <3>1. loaded \in 0 .. Len(candles)
      BY <1>0 DEF LifeInv, StoreType
    <3>2. Replay'[loaded] = Replay[loaded]
      BY <1>0, <2>1, <3>1, WholeReplayKept, QuietDecides
    <3>3. Replay[loaded] \in Book
      BY <3>1, BothStates DEF ReplayFacts, UpTo
    <3> QED
      BY <2>1, <2>3, <3>2, <3>3 DEF RunBook, InRun
  <2> QED
    BY <2>2, <2>3
<1>8. CASE SyncDone \/ GiveUp \/ Crash
  <2>1. book' = EmptyBook /\ pc' \in {"idle", "down"}
    BY <1>8 DEF SyncDone, GiveUp, Crash
  <2> QED
    BY <2>1, EmptyIsBook DEF RunBook, InRun
<1>9. CASE Restart
  BY <1>9 DEF Restart, RunBook, InRun
<1> QED
  BY <1>2, <1>3, <1>4, <1>5, <1>6, <1>7, <1>8, <1>9, StartHasBook, ExitKeepsBook, SubmitKeepsBook
     DEF Next, Run, Await, Finish

-----------------------------------------------------------------------------
(***************************************************************************)
(* What the days of a replay and the statuses say of each other            *)
(***************************************************************************)
\* The last run has seen every day up to its own.
SeenInv ==
  /\ seen \in Seq([Symbols -> Nat])
  /\ Len(seen) = asOf

\* A run notes what it replays for each day of the candles it has loaded.
LEMMA SeenInvKept ==
  ASSUME IInv, RowsInv, RunInv, SeenInv, [Next]_vars
  PROVE  SeenInv'
<1>1. CASE StartRun
  <2>1. seen' = [day \in 1 .. Len(candles) |-> Replay[day].held] /\ asOf' = Len(candles)
    BY <1>1 DEF StartRun
  <2>2. ASSUME NEW day \in 1 .. Len(candles) PROVE Replay[day].held \in [Symbols -> Nat]
    <3>1. day \in 0 .. Len(candles)
      BY BothStates
    <3>2. Replay[day] \in Book
      BY <3>1, BothStates DEF ReplayFacts, UpTo
    <3> QED
      BY <3>2, BookFields
  <2>3. PICK l \in Nat : l = Len(candles)
    BY BothStates
  <2>4. seen' \in [1 .. l -> [Symbols -> Nat]]
    BY <2>1, <2>2, <2>3
  <2>5. seen' \in Seq([Symbols -> Nat]) /\ DOMAIN seen' = 1 .. l
    BY <2>4, SeqDef
  <2>6. Len(seen') = l
    BY <2>5, LenProperties
  <2> QED
    BY <2>1, <2>3, <2>5, <2>6 DEF SeenInv
<1>2. CASE ~StartRun
  <2>1. UNCHANGED <<seen, asOf>>
    BY <1>2 DEF Next, Tick, Operator, Run, Await, Finish, Tap, ExitsDone, EntriesDone, Poll,
       AwaitDone, GiveUp, Crash, Restart, ProcessExit, ProposeEntry, Inserts, TakeDecision, ExpireOne,
       SubmitApproved, MarkSubmitted, SyncFill, SyncDone, vars, runVars, observerVars
  <2> QED
    BY <2>1 DEF SeenInv
<1> QED
  BY <1>1, <1>2

\* Once a run was given up, one has been.
LEMMA GivenUpStays ==
  ASSUME IInv, [Next]_vars, ~gaveUp'
  PROVE  ~gaveUp
<1>1. CASE GiveUp
  <2>1. gaveUp' = (gaveUp \/ remaining # {})
    BY <1>1 DEF GiveUp
  <2> QED
    BY <2>1
<1>2. CASE ~GiveUp
  <2>1. gaveUp' = gaveUp
    BY <1>2 DEF Next, Tick, Operator, Run, Await, Finish, Tap, StartRun, ExitsDone, EntriesDone, Poll,
       AwaitDone, Crash, Restart, ProcessExit, ProposeEntry, Inserts, TakeDecision, ExpireOne,
       SubmitApproved, MarkSubmitted, SyncFill, SyncDone, vars, observerVars
  <2> QED
    BY <2>1
<1> QED
  BY <1>1, <1>2

\* Stated day by day.
LEMMA StableByDay ==
  SeenInv => (ReplayIsStable <=> (~gaveUp => \A day \in 1 .. asOf : seen[day] = Replay[day].held))
<1> SUFFICES ASSUME SeenInv
             PROVE  ReplayIsStable <=> (~gaveUp => \A day \in 1 .. asOf : seen[day] = Replay[day].held)
  OBVIOUS
<1>1. DOMAIN seen = 1 .. asOf /\ seen = [day \in 1 .. asOf |-> seen[day]]
  BY LenProperties DEF SeenInv
<1>2. ReplayIsStable <=> (~gaveUp => seen = [day \in 1 .. asOf |-> Replay[day].held])
  BY <1>1 DEF ReplayIsStable
<1> QED
  BY <1>1, <1>2

\* What an earlier run replayed is replayed by later ones: nothing is decided, and
\* nothing decided is withdrawn, for a day before the last run's.
LEMMA StableKept ==
  ASSUME IInv, RowsInv, RunInv, SeenInv, ReplayIsStable, [Next]_vars
  PROVE  ReplayIsStable'
<1>0. SeenInv'
  BY SeenInvKept
<1>1. (SeenInv => (ReplayIsStable <=> (~gaveUp => \A day \in 1 .. asOf : seen[day] = Replay[day].held)))'
  BY StableByDay, PTL
<1> SUFFICES ASSUME ~gaveUp' PROVE \A day \in 1 .. asOf' : seen'[day] = Replay'[day].held
  BY <1>0, <1>1
<1>2. ~gaveUp /\ \A day \in 1 .. asOf : seen[day] = Replay[day].held
  BY GivenUpStays, StableByDay
<1>3. CASE StartRun
  <2>1. /\ Unwritten /\ asOf' = Len(candles)
        /\ seen' = [day \in 1 .. Len(candles) |-> Replay[day].held]
    BY <1>3 DEF StartRun, Unwritten
  <2>2. \A day \in 1 .. Len(candles) : Replay'[day] = Replay[day]
    BY <2>1, QuietDecides, WholeReplayKept, BothStates
  <2> QED
    BY <2>1, <2>2
<1>4. CASE ~StartRun
  <2>1. UNCHANGED <<seen, asOf>>
    BY <1>4 DEF Next, Tick, Operator, Run, Await, Finish, Tap, ExitsDone, EntriesDone, Poll,
       AwaitDone, GiveUp, Crash, Restart, ProcessExit, ProposeEntry, Inserts, TakeDecision, ExpireOne,
       SubmitApproved, MarkSubmitted, SyncFill, SyncDone, vars, runVars, observerVars
  <2>2. ASSUME NEW day \in 1 .. asOf PROVE seen'[day] = Replay'[day].held
    <3>1. day \in 1 .. Len(candles) /\ day \in 1 .. Len(candles')
      BY BothStates
    <3>2. Morning(day)' = Morning(day)
      BY <1>2, MorningsKept
    <3>3. Replay[day].held = Morning(day).held /\ Replay'[day].held = Morning(day)'.held
      BY <3>1, BothStates DEF DayFacts
    <3> QED
      BY <1>2, <2>1, <3>2, <3>3
  <2> QED
    BY <2>1, <2>2
<1> QED
  BY <1>3, <1>4

\* Only the synchronisation after a wait writes FILLED.
LEMMA FilledStep ==
  ASSUME IInv, [Next]_vars
  PROVE  \A id \in WithStatus({"FILLED"})' : id \in WithStatus({"FILLED"}) \/ SyncFill(id)
<1>0. LifeInv /\ StoreType
  BY DEF IInv, LifeInv
<1>1. CASE Unwritten
  BY <1>1 DEF Unwritten, WithStatus
<1>2. ASSUME NEW id \in Rows, NEW status \in Statuses \ {"FILLED"}, SetStatus(id, status)
      PROVE  WithStatus({"FILLED"})' \subseteq WithStatus({"FILLED"})
  <2>1. OneRow(id, status)
    BY <1>0, <1>2, SetStatusEffect, OneRowChanged DEF Rows
  <2> QED
    BY <2>1 DEF OneRow, Statuses
<1>3. ASSUME NEW id \in Ids, NEW s \in Symbols, Inserts(id, s)
      PROVE  WithStatus({"FILLED"})' \subseteq WithStatus({"FILLED"})
  <2>1. Inserted(id, s) /\ OneRow(id, proposals'[id].status) /\ proposals'[id].status # "FILLED"
    BY <1>0, <1>3, InsertedRow DEF Inserted
  <2> QED
    BY <2>1 DEF OneRow, Statuses
<1>4. CASE TakeDecision
  <2>1. CASE Head(channel).id \in remaining
    <3>1. Head(channel).id \in Rows
      BY <1>0, <2>1, AboutRows
    <3> QED
      BY <1>2, <1>4, <2>1, <3>1 DEF TakeDecision, Statuses
  <2>2. CASE Head(channel).id \notin remaining
    BY <1>1, <1>4, <2>2 DEF TakeDecision, Unwritten
  <2> QED
    BY <2>1, <2>2
<1>5. ASSUME NEW id \in Ids, ExpireOne(id) PROVE WithStatus({"FILLED"})' \subseteq WithStatus({"FILLED"})
  <2>1. id \in Rows /\ SetStatus(id, "EXPIRED")
    BY <1>0, <1>5, AboutRows DEF ExpireOne, LifeInv, AwaitInv
  <2> QED
    BY <1>2, <2>1 DEF Statuses
<1>6. CASE SubmitApproved \/ MarkSubmitted
  <2>1. Head(approved) \in Rows
    BY <1>0, <1>6, AboutRows DEF SubmitApproved, MarkSubmitted
  <2>2. Unwritten \/ SetStatus(Head(approved), "SUBMITTED") \/ SetStatus(Head(approved), "FAILED")
    BY <1>6 DEF SubmitApproved, MarkSubmitted, MaybeSetStatus, Unwritten
  <2>3. "SUBMITTED" \in Statuses \ {"FILLED"} /\ "FAILED" \in Statuses \ {"FILLED"}
    BY DEF Statuses
  <2> QED
    BY <1>1, <1>2, <2>1, <2>2, <2>3
<1>7. ASSUME NEW id \in Ids, SyncFill(id)
      PROVE  \A i \in WithStatus({"FILLED"})' : i \in WithStatus({"FILLED"}) \/ SyncFill(i)
  <2>1. SetStatus(id, "FILLED") /\ proposals[id] # NoProposal
    BY <1>7 DEF SyncFill, Unsynced, WithStatus
  <2>2. OneRow(id, "FILLED")
    BY <1>0, <2>1, SetStatusEffect, OneRowChanged DEF Statuses
  <2> QED
    BY <1>7, <2>2 DEF OneRow, Statuses
<1>8. CASE Tick \/ Operator \/ StartRun \/ ExitsDone \/ EntriesDone \/ Poll \/ AwaitDone
           \/ SyncDone \/ GiveUp \/ Crash \/ Restart \/ UNCHANGED vars
  <2>1. Unwritten
    BY <1>8 DEF Tick, Operator, Tap, StartRun, ExitsDone, EntriesDone, Poll, AwaitDone, SyncDone,
       GiveUp, Crash, Restart, vars, storeVars, Unwritten
  <2> QED
    BY <1>1, <2>1
<1> QED
  BY <1>3, <1>4, <1>5, <1>6, <1>7, <1>8 DEF Next, Run, Inserts, Await, Finish

\* What fills in the run's broker or in the one a restart builds, replay fills.
LEMMA SyncedIsFilled ==
  ASSUME IInv, RowsInv, RunInv, RunBook, NEW id \in Ids, SyncFill(id), [Next]_vars
  PROVE  Replay[loaded].order[id] = "FILLED"
<1>1. pc = "settle" /\ book.order[id] = "FILLED" /\ caller \in {"resume", "run"} /\ UNCHANGED <<caller, asOf>>
  BY DEF SyncFill, Settled, Unsynced, IInv, LifeInv, EngineType, runVars
<1>2. CASE caller = "resume"
  BY <1>1, <1>2 DEF RunBook
<1>3. CASE caller = "run"
  <2>1. InRun /\ asOf \in 1 .. Len(candles) /\ loaded = asOf
    BY <1>1, <1>3, BothStates DEF InRun, RunInv
  <2>2. PICK m, d :
           /\ m = Morning(asOf) /\ d = Handed
           /\ Morning(asOf)' = m
           /\ m \in Book /\ Fresh(m, d) /\ d \in SUBSET Rows /\ IsFiniteSet(d)
           /\ Fresh(m, Handed)'
           /\ book = SubmitAll(m, d \ Listed)
           /\ \A ids \in SUBSET d : SubmitAll(m, ids)' = SubmitAll(m, ids)
    BY <1>1, <2>1, RunStep
  <2>3. book.order[id] = IF id \in Taken(m, d \ Listed) THEN "PENDING" ELSE m.order[id]
    BY <2>2, SubmitAllType
  <2>4. m.order[id] = "FILLED"
    BY <1>1, <2>3
  <2>5. Replay[asOf].order[id] = "FILLED" <=> Morning(asOf).order[id] = "FILLED"
    BY <2>1, BothStates DEF DayFacts
  <2> QED
    BY <2>1, <2>2, <2>4, <2>5
<1> QED
  BY <1>1, <1>2, <1>3

\* Filled up to a day, filled up to any later one.
LEMMA FilledStays ==
  ASSUME DayFacts, Len(candles) \in Nat, NEW id \in Ids, NEW from \in Nat, from <= Len(candles),
         Replay[from].order[id] = "FILLED"
  PROVE  \A day \in from .. Len(candles) : Replay[day].order[id] = "FILLED"
<1> DEFINE Q == {n \in Nat : from + n <= Len(candles) => Replay[from + n].order[id] = "FILLED"}
<1>1. 0 \in Q
  OBVIOUS
<1>2. ASSUME NEW n \in Nat, n \in Q PROVE n + 1 \in Q
  <2> SUFFICES ASSUME from + (n + 1) <= Len(candles)
               PROVE  Replay[from + (n + 1)].order[id] = "FILLED"
    OBVIOUS
  <2>1. PICK day : day = from + (n + 1)
    OBVIOUS
  <2>2. day \in 1 .. Len(candles) /\ day - 1 = from + n /\ from + n <= Len(candles)
    BY <2>1
  <2>3. Replay[day - 1].order[id] = "FILLED"
    BY <1>2, <2>2
  <2> QED
    BY <2>1, <2>2, <2>3 DEF DayFacts
<1> HIDE DEF Q
<1>3. Nat \subseteq Q
  BY <1>1, <1>2, SetInduction
<1> SUFFICES ASSUME NEW day \in from .. Len(candles) PROVE Replay[day].order[id] = "FILLED"
  OBVIOUS
<1>4. day - from \in Nat /\ from + (day - from) = day /\ day <= Len(candles)
  OBVIOUS
<1> QED
  BY <1>3, <1>4 DEF Q

\* What the table calls filled is filled in the replay, if no run was given up.
FilledByID == ~gaveUp => \A id \in WithStatus({"FILLED"}) : Replay[loaded].order[id] = "FILLED"

\* FilledMeansFilled, proposal by proposal.
LEMMA FilledIsByID == FilledMeansFilled <=> FilledByID
  BY DEF FilledMeansFilled, FilledByID

\* The synchronisation writes FILLED for what replay fills, and replay goes on
\* filling it: later decisions cannot undo a fill of an earlier day.
LEMMA FilledKept ==
  ASSUME IInv, RowsInv, RunInv, RunBook, FilledByID, [Next]_vars
  PROVE  FilledByID'
<1> SUFFICES ASSUME ~gaveUp', NEW id \in WithStatus({"FILLED"})'
             PROVE  Replay'[loaded'].order[id] = "FILLED"
  BY DEF FilledByID
<1>0. ~gaveUp /\ id \in Ids /\ loaded \in 0 .. Len(candles) /\ loaded = asOf
  BY GivenUpStays DEF WithStatus, IInv, LifeInv, StoreType, RunInv
<1>1. CASE SyncFill(id)
  <2>1. UNCHANGED loaded /\ Replay'[loaded] = Replay[loaded]
    BY <1>0, <1>1, WholeReplayKept, QuietDecides DEF SyncFill, IInv
  <2> QED
    BY <1>0, <1>1, <2>1, SyncedIsFilled
<1>2. CASE ~SyncFill(id)
  <2>1. Replay[loaded].order[id] = "FILLED"
    BY <1>0, <1>2, FilledStep DEF FilledByID
  <2>2. CASE StartRun
    <3>1. Unwritten /\ loaded' = Len(candles)
      BY <2>2 DEF StartRun, Unwritten
    <3>2. PICK l, k : l = Len(candles) /\ k = loaded
      OBVIOUS
    <3>3. l \in k .. Len(candles) /\ l \in 0 .. Len(candles) /\ k \in Nat /\ k <= Len(candles)
      BY <1>0, <3>2, BothStates
    <3>4. Replay[l].order[id] = "FILLED"
      BY <1>0, <2>1, <3>2, <3>3, BothStates, FilledStays
    <3>5. Replay'[l] = Replay[l]
      BY <3>1, <3>3, WholeReplayKept, QuietDecides DEF IInv
    <3> QED
      BY <3>1, <3>2, <3>4, <3>5
  <2>3. CASE ~StartRun
    <3>1. loaded' = asOf' /\ asOf' = asOf
      <4>1. UNCHANGED asOf
        BY <2>3 DEF Next, Tick, Operator, Run, Await, Finish, Tap, ExitsDone, EntriesDone, Poll,
           AwaitDone, GiveUp, Crash, Restart, ProcessExit, ProposeEntry, Inserts, TakeDecision, ExpireOne,
           SubmitApproved, MarkSubmitted, SyncFill, SyncDone, vars, runVars
      <4> QED
        BY <4>1, BothStates DEF RunInv
    <3>2. asOf # 0
      <4>1. asOf = 0 => Replay[loaded] = EmptyBook
        BY <1>0, BothStates DEF ReplayFacts
      <4> QED
        BY <1>0, <2>1, <4>1, EmptyIsBook
    <3>3. PICK l : l = asOf
      OBVIOUS
    <3>4. l \in 1 .. Len(candles) /\ l \in 1 .. Len(candles') /\ l \in 1 .. asOf
      BY <1>0, <3>2, <3>3, BothStates
    <3>5. Morning(l)' = Morning(l)
      BY <1>0, <3>4, MorningsKept
    <3>6. /\ Replay[l].order[id] = "FILLED" <=> Morning(l).order[id] = "FILLED"
          /\ Replay'[l].order[id] = "FILLED" <=> Morning(l)'.order[id] = "FILLED"
      BY <1>0, <3>4, BothStates DEF DayFacts
    <3> QED
      BY <1>0, <2>1, <3>1, <3>3, <3>5, <3>6
  <2> QED
    BY <2>2, <2>3
<1> QED
  BY <1>1, <1>2

\* The invariant of the replay, on top of the one of the life.
ReplayInv ==
  /\ IInv
  /\ RowsInv /\ RunInv /\ RunBook
  /\ SeenInv /\ ReplayIsStable /\ FilledByID

\* An empty table and a replay without candles.
LEMMA InitReplay == Init => ReplayInv
<1> SUFFICES ASSUME Init PROVE ReplayInv
  OBVIOUS
<1>1. IInv
  BY InitLife
<1>2. Rows = {} /\ Len(approved) = 0 /\ Listed = {}
  BY EmptySeq DEF Init, Rows, Listed
<1>3. RowsInv
  BY <1>2, FS_EmptySet DEF RowsInv
<1>4. RunInv
  BY <1>2 DEF Init, RunInv, WithStatus
<1>5. RunBook
  BY EmptyIsBook DEF Init, RunBook, InRun
<1>6. SeenInv
  BY EmptySeq DEF Init, SeenInv
<1>7. ReplayIsStable
  <2>1. \A day \in 1 .. asOf : FALSE
    BY DEF Init
  <2> QED
    BY <1>6, <2>1, StableByDay
<1>8. FilledByID
  BY DEF Init, FilledByID, WithStatus
<1> QED
  BY <1>1, <1>3, <1>4, <1>5, <1>6, <1>7, <1>8 DEF ReplayInv

\* The stronger invariant, for the properties that are about the broker.
THEOREM ReplayInductive == Spec => []ReplayInv
<1>1. ReplayInv /\ [Next]_vars => ReplayInv'
  BY Inductive, RowsInvKept, RunInvKept, RunBookKept, SeenInvKept, StableKept, FilledKept
     DEF ReplayInv, IInv
<1> QED
  BY InitReplay, <1>1, PTL DEF Spec

\* Every variable keeps its type: above all, the book of a run, which Submit and
\* the replays of StartRun and AwaitDone write, is a book.
THEOREM TypeCorrect == Spec => []TypeOK
<1>1. ReplayInv => TypeOK
  BY DEF ReplayInv, IInv, LifeInv, StoreType, ChannelType, EngineType, AwaitInv, RunBook, SeenInv, TypeOK
<1> QED
  BY ReplayInductive, <1>1, PTL

\* What a failed proposal has in the run's broker takes nothing from the others: the
\* broker takes of what is decided the same with it and without it.
LEMMA FailedTakesNothing ==
  ASSUME StoreType, RowsInv, NEW b, NEW id \in Decided(asOf)
  PROVE  id \in Taken(b, Decided(asOf)) <=> id \in Taken(b, Handed)
<1>1. ASSUME NEW j \in Failing, Rivals(j, id), Earlier(j, id) PROVE FALSE
  <2>1. /\ j \in Rows /\ id \in Rows /\ j # id
        /\ proposals[j].createdAt = runNow /\ proposals[id].createdAt <= runNow
    BY <1>1, DecidedRows DEF Failing, Decided, WithStatus, Rows, RowsInv
  <2>2. proposals[j].createdAt \in Nat /\ proposals[id].createdAt \in Nat
    BY <2>1, RowType DEF StoreType, TableType
  <2>3. proposals[id].createdAt = runNow
    BY <1>1, <2>1, <2>2 DEF Earlier
  <2> QED
    BY <1>1, <2>1, <2>3 DEF RowsInv, Rivals
<1> QED
  BY <1>1 DEF Taken, Handed

\* When a run is about to finish, the broker it worked with is the one that a
\* restart would rebuild from the statuses in the table (reconstruct), except for
\* the orders of what failed: no other order of the run exists in memory only, and
\* none is replayed that the run did not place, whatever the run's submissions and
\* status writes met.
THEOREM BookIsReplayed == Spec => []BookSurvivesRestart
<1>1. ReplayInv => BookSurvivesRestart
  <2> DEFINE failed == WithStatus({"FAILED"})
             kept(b) == [b EXCEPT !.order = [id \in Ids |-> IF id \in failed THEN "none" ELSE @[id]]]
  <2> SUFFICES ASSUME ReplayInv, Settled, caller = "run" PROVE Replay[asOf] = kept(book)
    BY DEF BookSurvivesRestart
  <2>1. TableType /\ StoreType /\ RowsInv /\ IsFiniteSet(Rows) /\ Len(candles) \in Nat
    BY LenProperties DEF ReplayInv, IInv, LifeInv, StoreType, TableType, RowsInv
  <2>2. asOf \in 1 .. Len(candles) /\ asOf \in Nat
    BY <2>1 DEF ReplayInv, RunInv, StoreType
  <2>3. InRun /\ Listed = {}
    BY EmptySeq DEF Settled, InRun, Listed
  <2>4. ReplayFacts
    BY <2>1, ReplayIsTable
  <2>5. PICK m, d : m = Morning(asOf) /\ d = Decided(asOf)
    OBVIOUS
  <2>6. book = SubmitAll(m, Handed)
    <3>1. Handed \ Listed = Handed
      BY <2>3
    <3> QED
      BY <2>3, <2>5, <3>1 DEF ReplayInv, RunBook
  <2>7. /\ Replay[asOf] = SubmitAll(m, d) /\ m \in Book /\ UpTo(m, asOf - 1)
    BY <2>2, <2>4, <2>5 DEF ReplayFacts, UpTo
  <2>8. PICK r : r = Replay[asOf]
    OBVIOUS
  <2>9. /\ r \in Book /\ book \in Book
        /\ r.held = m.held /\ r.bare = m.bare /\ book.held = m.held /\ book.bare = m.bare
        /\ \A id \in Ids : /\ r.order[id] = IF id \in Taken(m, d) THEN "PENDING" ELSE m.order[id]
                           /\ book.order[id] = IF id \in Taken(m, Handed) THEN "PENDING"
                                               ELSE m.order[id]
    BY <2>6, <2>7, <2>8, SubmitAllType
  <2>10. /\ kept(book) \in Book /\ kept(book).held = book.held /\ kept(book).bare = book.bare
         /\ \A id \in Ids : kept(book).order[id] = IF id \in failed THEN "none" ELSE book.order[id]
    BY <2>9, BookFields DEF Book
  <2>11. ASSUME NEW id \in Ids PROVE r.order[id] = kept(book).order[id]
    <3>1. CASE id \in failed
      <4>1. \A day : id \notin Decided(day)
        BY <3>1 DEF Decided, WithStatus
      <4>2. m.order[id] = "none" /\ id \notin Taken(m, d)
        BY <2>5, <2>7, <4>1 DEF UpTo, Taken
      <4> QED
        BY <2>9, <2>10, <3>1, <4>2
    <3>2. CASE id \notin failed
      <4>1. id \in Handed <=> id \in d
        BY <2>5, <3>2 DEF Handed, Failing
      <4>2. id \in Taken(m, d) <=> id \in Taken(m, Handed)
        <5>1. CASE id \in d
          BY <2>1, <2>5, <5>1, FailedTakesNothing
        <5>2. CASE id \notin d
          BY <4>1, <5>2 DEF Taken
        <5> QED
          BY <5>1, <5>2
      <4> HIDE DEF failed, kept
      <4> QED
        BY <2>9, <2>10, <3>2, <4>2
    <3> QED
      BY <3>1, <3>2
  <2> HIDE DEF kept
  <2>12. r = kept(book)
    BY <2>9, <2>10, <2>11, SameBook
  <2> QED
    BY <2>8, <2>12
<1> QED
  BY ReplayInductive, <1>1, PTL

\* What a run replayed for a day, every later run replays for it too, as long as no
\* run was given up with proposals still pending: a late decision on an old day
\* would rewrite the positions of all days since.
THEOREM SeenDaysAreStable == Spec => []ReplayIsStable
<1>1. ReplayInv => ReplayIsStable
  BY DEF ReplayInv
<1> QED
  BY ReplayInductive, <1>1, PTL

\* A proposal marked FILLED by syncProposalFills is filled in the replay of every
\* later run, whichever broker, the run's own or a restart's, the mark came from.
THEOREM FilledIsFilled == Spec => []FilledMeansFilled
<1>1. ReplayInv => FilledMeansFilled
  BY FilledIsByID DEF ReplayInv
<1> QED
  BY ReplayInductive, <1>1, PTL

=============================================================================
