------------------------ MODULE OrderPlacementProofs -------------------------
(***************************************************************************)
(* Proofs about OrderPlacement and the RateLimiter under it, for any set   *)
(* of client order IDs, any number of retries and calls, and any bucket.   *)
(***************************************************************************)
EXTENDS OrderPlacement, TLAPS

(***************************************************************************)
(* The rate limiter                                                        *)
(***************************************************************************)
\* Min of the community modules, for the pairs the limiter takes it of.
LEMMA MinOfTwo ==
  ASSUME NEW a \in Int, NEW b \in Int
  PROVE  Min({a, b}) = IF a <= b THEN a ELSE b
<1>1. \E m \in {a, b} : \A y \in {a, b} : m <= y
  OBVIOUS
<1> QED
  BY <1>1 DEF Min

\* The size of the bucket, and what is in it when somebody looks.
LevelFacts ==
  /\ Full \in Nat /\ Full >= Parts /\ Full * Refill >= Full
  /\ Refilled \in Nat /\ Refilled <= Full
  /\ Refilled = IF Full <= level + elapsed * Refill THEN Full ELSE level + elapsed * Refill

\* The lazily refilled level is the capped sum the code computes.
LEMMA LevelType == LimiterType => LevelFacts
<1> SUFFICES ASSUME LimiterType PROVE LevelFacts
  OBVIOUS
<1>1. Full \in Nat /\ Full >= Parts
  BY LimiterAssumption DEF Full
<1>2. Full * Refill >= Full
  BY <1>1, LimiterAssumption
<1>3. level \in Nat /\ elapsed \in Nat /\ elapsed * Refill \in Nat
  BY <1>1, LimiterAssumption DEF LimiterType
<1>4. Refilled = IF Full <= level + elapsed * Refill THEN Full ELSE level + elapsed * Refill
  BY <1>1, <1>3, MinOfTwo DEF Refilled
<1> QED
  BY <1>1, <1>2, <1>3, <1>4 DEF LevelFacts

\* The invariant behind the budget: what was sent since a tick and what is in
\* the bucket now are together no more than a full bucket and the refill.
Budget == \A k \in 0 .. Window : sent[k] * Parts + Refilled <= Full + k * Refill

\* A caller's step at the limiter: it takes a token, or leaves the bucket alone.
LimiterStep == TakeToken \/ TimePasses \/ UNCHANGED limiterVars

\* The bucket stays well typed.
LEMMA LimiterTypeKept == LimiterType /\ LimiterStep => LimiterType'
<1> SUFFICES ASSUME LimiterType, LimiterStep PROVE LimiterType'
  OBVIOUS
<1>1. Full \in Nat /\ Full' = Full
  BY LevelType DEF LevelFacts, Full
<1>2. CASE TakeToken
  BY <1>1, <1>2, LevelType, LimiterAssumption DEF LevelFacts, TakeToken, LimiterType
<1>3. CASE TimePasses
  <2>1. elapsed + 1 \in Int /\ elapsed \in 0 .. Full
    BY <1>1 DEF LimiterType
  <2>2. elapsed' \in 0 .. Full
    BY <1>1, <1>3, <2>1, MinOfTwo DEF TimePasses
  <2>3. sent' \in [0 .. Window -> Nat]
    BY <1>3, LimiterAssumption DEF TimePasses, LimiterType
  <2> QED
    BY <1>1, <1>3, <2>2, <2>3 DEF TimePasses, LimiterType
<1>4. CASE UNCHANGED limiterVars
  BY <1>1, <1>4 DEF limiterVars, LimiterType
<1> QED
  BY <1>2, <1>3, <1>4 DEF LimiterStep

\* Taking a token moves one from the bucket to the requests; a tick adds at most
\* Refill to the bucket, also after a wait that has long filled it.
LEMMA BudgetKept == LimiterType /\ Budget /\ LimiterStep => Budget'
<1> SUFFICES ASSUME LimiterType, Budget, LimiterStep,
                    NEW k \in 0 .. Window
             PROVE  sent'[k] * Parts + Refilled' <= Full' + k * Refill
  BY DEF Budget
<1>0. LimiterType' /\ Full' = Full /\ Full \in Nat /\ Parts \in Nat /\ Refill \in Nat /\ Window \in Nat
  BY LimiterTypeKept, LevelType, LimiterAssumption DEF LevelFacts, Full
<1>1. /\ Refilled' \in Nat /\ Refilled' <= Full
      /\ Refilled' <= level' + elapsed' * Refill
  <2>1. LevelFacts'
    BY <1>0, LevelType, PTL
  <2>2. level' \in Int /\ elapsed' * Refill \in Int
    BY <1>0 DEF LimiterType
  <2> QED
    BY <1>0, <2>1, <2>2 DEF LevelFacts
<1>2. k * Refill \in Nat /\ sent[k] \in Nat /\ sent[k] * Parts + Refilled <= Full + k * Refill
  BY <1>0 DEF Budget, LimiterType
<1>3. CASE TakeToken
  <2>1. sent'[k] = sent[k] + 1 /\ level' = Refilled - Parts /\ elapsed' = 0 /\ Refilled \in Nat
    BY <1>3, LevelType DEF LevelFacts, TakeToken
  <2>2. sent'[k] * Parts = sent[k] * Parts + Parts
    BY <1>0, <1>2, <2>1
  <2>3. Refilled' <= Refilled - Parts
    BY <1>0, <1>1, <2>1
  <2> QED
    BY <1>0, <1>1, <1>2, <2>1, <2>2, <2>3
<1>4. CASE TimePasses
  <2>1. CASE k = 0
    <3>1. sent'[k] * Parts = 0 /\ k * Refill = 0
      BY <1>0, <1>4, <2>1 DEF TimePasses
    <3> QED
      BY <1>0, <1>1, <3>1
  <2>2. CASE k # 0
    <3>1. k - 1 \in 0 .. Window /\ sent'[k] = sent[k - 1]
      BY <1>0, <1>4, <2>2 DEF TimePasses
    <3>2. sent[k - 1] * Parts + Refilled <= Full + (k - 1) * Refill
      BY <3>1 DEF Budget
    <3>3. (k - 1) * Refill = k * Refill - Refill
      BY <1>0
    <3>4. Refilled' <= Refilled + Refill
      <4>1. /\ Refilled \in Nat
            /\ Refilled = IF Full <= level + elapsed * Refill THEN Full ELSE level + elapsed * Refill
        BY LevelType DEF LevelFacts
      <4>2. level' = level /\ level \in Nat /\ elapsed \in 0 .. Full
        BY <1>0, <1>4 DEF TimePasses, LimiterType
      <4>3. elapsed' = elapsed + 1 \/ elapsed' = elapsed
        BY <1>0, <1>4, <4>2, MinOfTwo DEF TimePasses
      <4>4. elapsed' * Refill <= elapsed * Refill + Refill /\ elapsed * Refill \in Nat
        BY <1>0, <4>2, <4>3
      <4>5. elapsed' * Refill \in Nat
        BY <1>0, <4>2, <4>3
      <4> QED
        BY <1>0, <1>1, <4>1, <4>2, <4>4, <4>5
    <3>5. sent[k - 1] * Parts \in Nat /\ Refilled \in Nat
      BY <1>0, <3>1, LevelType DEF LevelFacts, LimiterType
    <3> QED
      BY <1>0, <1>1, <1>2, <3>1, <3>2, <3>3, <3>4, <3>5
  <2> QED
    BY <2>1, <2>2
<1>5. CASE UNCHANGED limiterVars
  BY <1>0, <1>2, <1>5 DEF limiterVars, Refilled
<1> QED
  BY <1>3, <1>4, <1>5 DEF LimiterStep

\* Every step of the callers, the exchange and the clock is a limiter step.
LEMMA NextIsLimiterStep == [Next]_vars => LimiterStep
  BY DEF Next, vars, LimiterStep, Call, CancelContext, CreateOrder, Post, PostCancelled, Receive,
     Ambiguous, Lookup, LookupCancelled, Backoff, Deliver, Crash, Tick

\* Over every stretch of time the requests of all callers together stay within
\* one full bucket and what has been refilled meanwhile.
THEOREM BudgetIsRespected == Spec => []BudgetRespected
<1>1. Init => LimiterType /\ Budget
  <2> SUFFICES ASSUME Init PROVE LimiterType /\ Budget
    OBVIOUS
  <2>1. Full \in Nat
    BY LimiterAssumption DEF Full
  <2>2. LimiterType
    BY <2>1 DEF Init, LimiterInit, LimiterType
  <2>3. \A k \in 0 .. Window : sent[k] * Parts = 0 /\ k * Refill \in Nat
    BY LimiterAssumption DEF Init, LimiterInit
  <2>4. Refilled \in Nat /\ Refilled <= Full
    BY <2>2, LevelType DEF LevelFacts
  <2> QED
    BY <2>1, <2>2, <2>3, <2>4 DEF Budget
<1>2. LimiterType /\ Budget /\ [Next]_vars => LimiterType' /\ Budget'
  BY NextIsLimiterStep, LimiterTypeKept, BudgetKept
<1>3. LimiterType /\ Budget => BudgetRespected
  <2> SUFFICES ASSUME LimiterType, Budget, NEW k \in 0 .. Window
               PROVE  sent[k] * Parts <= Full + k * Refill
    BY DEF BudgetRespected
  <2>1. sent[k] * Parts \in Nat /\ Full \in Nat /\ k * Refill \in Nat /\ Refilled \in Nat
    BY LevelType, LimiterAssumption DEF LevelFacts, LimiterType
  <2> QED
    BY <2>1 DEF Budget
<1> QED
  BY <1>1, <1>2, <1>3, PTL DEF Spec

-----------------------------------------------------------------------------
(***************************************************************************)
(* Placing orders                                                          *)
(***************************************************************************)
\* What the caller's locals say of the call it is in, and what the exchange has
\* answered to it.
CallInv(o) ==
  /\ pc[o] # "idle" => calls[o] > 0 /\ answer[o] = "none" /\ attempt[o] > 0
  /\ reply[o] # "none" => pc[o] = "sent"
  /\ reply[o] = "ok" => book[o] > 0

\* Requests under way for the ID.
OnTheWay(o) == {r \in travelling : r.order = o}

\* What the promptness of an exchange that does not know client IDs is for: there
\* is one call, a request under way is the only one and nothing is placed yet,
\* and nothing is under way or placed when the next one is prepared or a refusal
\* is believed.
PromptInv(o) ==
  /\ calls[o] <= 1
  /\ calls[o] = 0 => book[o] = 0 /\ OnTheWay(o) = {}
  /\ \A r \in OnTheWay(o) : book[o] = 0 /\ OnTheWay(o) = {r} /\ (pc[o] = "sent" => Mine(r))
  /\ pc[o] \in {"post", "lookup", "backoff"} => OnTheWay(o) = {}
  /\ pc[o] \in {"post", "backoff"} => book[o] = 0
  /\ reply[o] = "refused" \/ answer[o] \in {"refused", "invalid"} =>
       book[o] = 0 /\ OnTheWay(o) = {}

IInv ==
  /\ TypeOK
  /\ AtMostOneOrder
  /\ \A o \in Orders : CallInv(o)
  /\ ~strict => \A o \in Orders : PromptInv(o)

\* CreateOrder starts from nothing.
LEMMA InitInv == Init => IInv
<1> SUFFICES ASSUME Init PROVE IInv
  OBVIOUS
<1>1. LimiterType
  <2>1. Full \in Nat
    BY LimiterAssumption DEF Full
  <2> QED
    BY <2>1 DEF Init, LimiterInit, LimiterType
<1>2. MaxAttempts \in Nat
  BY PlacementAssumption DEF MaxAttempts
<1> QED
  BY <1>1, <1>2 DEF Init, IInv, TypeOK, AtMostOneOrder, CallInv, PromptInv, OnTheWay

\* What the ways out of a step of CreateOrder leave in the caller's variables.
CallerType ==
  /\ pc \in [Orders -> {"idle", "post", "sent", "lookup", "backoff", "confirm"}]
  /\ attempt \in [Orders -> 0 .. MaxAttempts]
  /\ tries \in [Orders -> 0 .. MaxAttempts]
  /\ calls \in [Orders -> Nat]
  /\ alive \in [Orders -> BOOLEAN]
  /\ answer \in [Orders -> {"none", "ok"} \union Failures]

\* A caller's step keeps the types of its own variables.
LEMMA CallerTypeKept ==
  ASSUME IInv, NEW o \in Orders, Call(o) \/ CancelContext(o) \/ CreateOrder(o)
  PROVE  CallerType'
<1>0. CallerType /\ CallInv(o) /\ MaxAttempts \in Nat /\ 1 <= MaxAttempts
  BY PlacementAssumption DEF IInv, TypeOK, CallerType, MaxAttempts
<1>1. ASSUME AfterAmbiguous(o), UNCHANGED calls, pc[o] # "idle" PROVE CallerType'
  <2>1. attempt[o] < MaxAttempts => attempt[o] + 1 \in 0 .. MaxAttempts
    BY <1>0 DEF CallerType
  <2>2. CASE attempt[o] = MaxAttempts /\ Return(o, "gave_up")
    BY <1>0, <1>1, <2>2 DEF Return, CallerType, Failures
  <2>3. CASE ~(attempt[o] = MaxAttempts /\ Return(o, "gave_up"))
    BY <1>0, <1>1, <2>1, <2>3 DEF AfterAmbiguous, CallerType
  <2> QED
    BY <2>2, <2>3
<1>2. ASSUME NEW what \in {"ok"} \union Failures, Return(o, what), calls' \in [Orders -> Nat] PROVE CallerType'
  BY <1>0, <1>2 DEF Return, CallerType
<1>3. CASE Call(o)
  BY <1>0, <1>2, <1>3 DEF Call, CallerType, Failures
<1>4. CASE CancelContext(o)
  BY <1>0, <1>4 DEF CancelContext, CallerType
<1>5. CASE Post(o)
  BY <1>0, <1>5 DEF Post, Goto, CallerType
<1>6. CASE PostCancelled(o) \/ Ambiguous(o)
  <2>1. AfterAmbiguous(o) /\ UNCHANGED calls /\ pc[o] # "idle"
    BY <1>6 DEF PostCancelled, Ambiguous
  <2> QED
    BY <1>1, <2>1
<1>7. CASE Receive(o)
  BY <1>0, <1>2, <1>7 DEF Receive, Goto, CallerType, Failures
<1>8. CASE Lookup(o)
  BY <1>0, <1>2, <1>8 DEF Lookup, NotFound, LookupFailed, Goto, CallerType, Failures
<1>9. CASE LookupCancelled(o)
  BY <1>0, <1>2, <1>9 DEF LookupCancelled, LookupFailed, CallerType, Failures
<1>10. CASE Backoff(o)
  BY <1>0, <1>2, <1>10 DEF Backoff, Goto, CallerType, Failures
<1> QED
  BY <1>3, <1>4, <1>5, <1>6, <1>7, <1>8, <1>9, <1>10 DEF CreateOrder

\* Every step keeps the types.
LEMMA TypeKept == IInv /\ [Next]_vars => TypeOK'
<1> SUFFICES ASSUME IInv, [Next]_vars PROVE TypeOK'
  OBVIOUS
<1>0. LimiterType'
  BY NextIsLimiterStep, LimiterTypeKept DEF IInv, TypeOK
<1>1. ASSUME NEW o \in Orders, Call(o) \/ CancelContext(o) \/ CreateOrder(o) PROVE TypeOK'
  <2>1. CallerType'
    BY <1>1, CallerTypeKept
  <2>2. strict' \in BOOLEAN /\ book' \in [Orders -> Nat]
        /\ reply' \in [Orders -> {"none", "ok", "refused", "duplicate"}]
    BY <1>1 DEF IInv, TypeOK, exchangeVars, Call, CancelContext, CreateOrder, Post, PostCancelled, Receive,
       Ambiguous, Lookup, LookupCancelled, Backoff
  <2>3. travelling' \subseteq Request
    <3>1. CASE Post(o)
      <4>1. [order |-> o, call |-> calls[o], attempt |-> attempt[o]] \in Request
        BY <3>1, PlacementAssumption DEF IInv, TypeOK, CallInv, Post, Request, MaxAttempts
      <4> QED
        BY <3>1, <4>1 DEF Post, IInv, TypeOK
    <3>2. CASE ~Post(o)
      BY <1>1, <3>2 DEF IInv, TypeOK, exchangeVars, Call, CancelContext, CreateOrder, PostCancelled, Receive,
         Ambiguous, Lookup, LookupCancelled, Backoff
    <3> QED
      BY <3>1, <3>2
  <2> QED
    BY <1>0, <2>1, <2>2, <2>3 DEF TypeOK, CallerType
<1>2. ASSUME NEW r \in travelling, Deliver(r) PROVE TypeOK'
  <2>1. r.order \in Orders
    BY DEF IInv, TypeOK, Request
  <2> QED
    BY <1>0, <1>2, <2>1 DEF Deliver, Answer, IInv, TypeOK, callerVars
<1>3. CASE Crash
  BY <1>0, <1>3, PlacementAssumption DEF Crash, IInv, TypeOK, MaxAttempts
<1>4. CASE Tick \/ UNCHANGED vars
  BY <1>0, <1>4 DEF Tick, IInv, TypeOK, vars, exchangeVars, callerVars
<1> QED
  BY <1>1, <1>2, <1>3, <1>4 DEF Next

-----------------------------------------------------------------------------
\* What a step of the caller of o leaves alone for every other ID.
LEMMA OthersUntouched ==
  ASSUME IInv, NEW o \in Orders, Call(o) \/ CancelContext(o) \/ CreateOrder(o),
         NEW p \in Orders, p # o
  PROVE  /\ OnTheWay(p)' = OnTheWay(p)
         /\ pc'[p] = pc[p] /\ attempt'[p] = attempt[p] /\ calls'[p] = calls[p]
         /\ answer'[p] = answer[p] /\ reply'[p] = reply[p] /\ book'[p] = book[p]
<1> USE DEF IInv, TypeOK
<1>1. CASE Call(o) \/ CancelContext(o)
  BY <1>1 DEF Call, CancelContext, Return, exchangeVars, OnTheWay
<1>2. CASE Post(o)
  BY <1>2 DEF Post, Goto, OnTheWay
<1>3. CASE PostCancelled(o)
  BY <1>3 DEF PostCancelled, AfterAmbiguous, Return, exchangeVars, OnTheWay
<1>4. CASE Receive(o)
  BY <1>4 DEF Receive, Goto, Return, OnTheWay
<1>5. CASE Ambiguous(o)
  BY <1>5 DEF Ambiguous, AfterAmbiguous, Return, OnTheWay
<1>6. CASE Lookup(o)
  BY <1>6 DEF Lookup, NotFound, LookupFailed, Goto, Return, exchangeVars, OnTheWay
<1>7. CASE LookupCancelled(o)
  BY <1>7 DEF LookupCancelled, LookupFailed, Return, exchangeVars, OnTheWay
<1>8. CASE Backoff(o)
  BY <1>8 DEF Backoff, Goto, Return, exchangeVars, OnTheWay
<1> QED
  BY <1>1, <1>2, <1>3, <1>4, <1>5, <1>6, <1>7, <1>8 DEF CreateOrder

\* A step of the caller of o keeps what is known of its call.
LEMMA CallInvOfCaller ==
  ASSUME IInv, NEW o \in Orders, Call(o) \/ CancelContext(o) \/ CreateOrder(o)
  PROVE  CallInv(o)'
<1>0. CallInv(o) /\ CallerType /\ reply \in [Orders -> {"none", "ok", "refused", "duplicate"}]
      /\ book \in [Orders -> Nat]
  BY DEF IInv, TypeOK, CallerType
<1> USE DEF CallInv, CallerType
<1>1. CASE Call(o)
  BY <1>0, <1>1 DEF Call, MayCall, Return, exchangeVars
<1>2. CASE CancelContext(o)
  BY <1>0, <1>2 DEF CancelContext, exchangeVars
<1>3. CASE Post(o)
  BY <1>0, <1>3 DEF Post, Goto
<1>4. CASE PostCancelled(o)
  BY <1>0, <1>4 DEF PostCancelled, AfterAmbiguous, Return, exchangeVars
<1>5. CASE Receive(o)
  BY <1>0, <1>5 DEF Receive, Goto, Return
<1>6. CASE Ambiguous(o)
  BY <1>0, <1>6 DEF Ambiguous, AfterAmbiguous, Return
<1>7. CASE Lookup(o)
  BY <1>0, <1>7 DEF Lookup, NotFound, LookupFailed, Goto, Return, exchangeVars
<1>8. CASE LookupCancelled(o)
  BY <1>0, <1>8 DEF LookupCancelled, LookupFailed, Return, exchangeVars
<1>9. CASE Backoff(o)
  BY <1>0, <1>9 DEF Backoff, Goto, Return, exchangeVars
<1> QED
  BY <1>1, <1>2, <1>3, <1>4, <1>5, <1>6, <1>7, <1>8, <1>9 DEF CreateOrder

\* A step of the caller of o keeps what a prompt exchange allows it to conclude:
\* it stops waiting only for a request that will not arrive any more, and sends
\* again only what the look-up has not found.
LEMMA PromptInvOfCaller ==
  ASSUME IInv, ~strict, NEW o \in Orders, Call(o) \/ CancelContext(o) \/ CreateOrder(o)
  PROVE  PromptInv(o)'
<1>0. CallInv(o) /\ PromptInv(o) /\ CallerType /\ book \in [Orders -> Nat]
      /\ reply \in [Orders -> {"none", "ok", "refused", "duplicate"}]
  BY DEF IInv, TypeOK, CallerType
<1> USE DEF CallInv, PromptInv, CallerType
<1>1. CASE Call(o)
  BY <1>0, <1>1 DEF Call, MayCall, Return, exchangeVars, OnTheWay
<1>2. CASE CancelContext(o)
  BY <1>0, <1>2 DEF CancelContext, exchangeVars, OnTheWay, Mine
<1>3. CASE Post(o)
  <2> DEFINE r == [order |-> o, call |-> calls[o], attempt |-> attempt[o]]
  <2>1. OnTheWay(o)' = {r} /\ Mine(r)' /\ book'[o] = 0
    BY <1>0, <1>3 DEF Post, Goto, OnTheWay, Mine
  <2> QED
    BY <1>0, <1>3, <2>1 DEF Post, Goto
<1>4. CASE PostCancelled(o)
  BY <1>0, <1>4 DEF PostCancelled, AfterAmbiguous, Return, exchangeVars, OnTheWay
<1>5. CASE Receive(o)
  BY <1>0, <1>5 DEF Receive, Goto, Return, OnTheWay
<1>6. CASE Ambiguous(o)
  <2>1. OnTheWay(o)' = {}
    BY <1>0, <1>6 DEF Ambiguous, OnTheWay
  <2> QED
    BY <1>0, <1>6, <2>1 DEF Ambiguous, AfterAmbiguous, Return
<1>7. CASE Lookup(o)
  BY <1>0, <1>7 DEF Lookup, NotFound, LookupFailed, Goto, Return, exchangeVars, OnTheWay
<1>8. CASE LookupCancelled(o)
  BY <1>0, <1>8 DEF LookupCancelled, LookupFailed, Return, exchangeVars, OnTheWay
<1>9. CASE Backoff(o)
  BY <1>0, <1>9 DEF Backoff, Goto, Return, exchangeVars, OnTheWay
<1> QED
  BY <1>1, <1>2, <1>3, <1>4, <1>5, <1>6, <1>7, <1>8, <1>9 DEF CreateOrder

\* The whole invariant is kept by a step of a caller: it changes no order on the
\* exchange, and nothing of the other IDs.
LEMMA IInvOfCaller ==
  ASSUME IInv, NEW o \in Orders, Call(o) \/ CancelContext(o) \/ CreateOrder(o), TypeOK'
  PROVE  IInv' /\ UNCHANGED book
<1>1. UNCHANGED <<book, strict>>
  BY DEF exchangeVars, Call, CancelContext, CreateOrder, Post, PostCancelled, Receive,
     Ambiguous, Lookup, LookupCancelled, Backoff
<1>2. ASSUME NEW p \in Orders, p # o
      PROVE  /\ CallInv(p)'
             /\ ~strict => PromptInv(p)'
  <2>1. /\ OnTheWay(p)' = OnTheWay(p)
        /\ pc'[p] = pc[p] /\ attempt'[p] = attempt[p] /\ calls'[p] = calls[p]
        /\ answer'[p] = answer[p] /\ reply'[p] = reply[p] /\ book'[p] = book[p]
    BY <1>2, OthersUntouched
  <2>2. \A r \in OnTheWay(p) : r.order = p
    BY DEF OnTheWay
  <2>3. \A r \in OnTheWay(p) : Mine(r)' <=> Mine(r)
    BY <2>1, <2>2 DEF Mine
  <2> QED
    BY <2>1, <2>3 DEF IInv, CallInv, PromptInv
<1>3. \A p \in Orders : CallInv(p)' /\ (~strict => PromptInv(p)')
  BY <1>2, CallInvOfCaller, PromptInvOfCaller
<1> QED
  BY <1>1, <1>3 DEF IInv, AtMostOneOrder

\* The invariant is kept when the exchange takes a request: a strict one because
\* it knows the ID, a prompt one because nothing is placed when a request is
\* under way.
LEMMA IInvOfDeliver ==
  ASSUME IInv, NEW r \in travelling, Deliver(r), TypeOK'
  PROVE  IInv'
<1> DEFINE o == r.order
<1>0. o \in Orders /\ book \in [Orders -> Nat] /\ travelling \subseteq Request
      /\ reply \in [Orders -> {"none", "ok", "refused", "duplicate"}]
  BY DEF IInv, TypeOK, Request
<1>1. UNCHANGED <<strict, pc, attempt, calls, answer>> /\ travelling' = travelling \ {r}
  BY DEF Deliver, callerVars
<1>2. \A p \in Orders : p # o => /\ book'[p] = book[p] /\ reply'[p] = reply[p]
                               /\ OnTheWay(p)' = OnTheWay(p)
  BY <1>0, <1>1 DEF Deliver, Answer, OnTheWay
<1>3. book'[o] <= 1
  BY <1>0 DEF Deliver, IInv, AtMostOneOrder, PromptInv, OnTheWay
<1>4. AtMostOneOrder'
  BY <1>2, <1>3 DEF AtMostOneOrder, IInv
<1>5. CallInv(o)'
  BY <1>0, <1>1 DEF Deliver, Answer, Mine, CallInv, IInv
<1>6. ASSUME ~strict PROVE PromptInv(o)'
  <2>1. PromptInv(o) /\ r \in OnTheWay(o)
    BY <1>0, <1>6 DEF IInv, OnTheWay
  <2>2. OnTheWay(o)' = {} /\ book[o] = 0 /\ calls[o] # 0 /\ pc[o] \notin {"post", "lookup", "backoff"}
        /\ answer[o] \notin {"refused", "invalid"} /\ reply[o] # "refused"
    BY <1>1, <2>1 DEF PromptInv, OnTheWay
  <2>3. reply'[o] = "refused" => book'[o] = 0
    BY <1>0, <2>2 DEF Deliver, Answer
  <2> QED
    BY <1>1, <2>1, <2>2, <2>3 DEF PromptInv
<1>7. ASSUME NEW p \in Orders, p # o
      PROVE  /\ CallInv(p)'
             /\ ~strict => PromptInv(p)'
  <2>1. \A q \in OnTheWay(p) : Mine(q)' <=> Mine(q)
    BY <1>1 DEF Mine
  <2> QED
    BY <1>1, <1>2, <1>7, <2>1 DEF IInv, CallInv, PromptInv
<1> QED
  BY <1>1, <1>4, <1>5, <1>6, <1>7 DEF IInv

\* The invariant is inductive. After a crash nobody waits, so what is under way
\* can only be placed once.
THEOREM Inductive == IInv /\ [Next]_vars => IInv'
<1> SUFFICES ASSUME IInv, [Next]_vars PROVE IInv'
  OBVIOUS
<1>0. TypeOK'
  BY TypeKept
<1>1. ASSUME NEW o \in Orders, Call(o) \/ CancelContext(o) \/ CreateOrder(o) PROVE IInv'
  BY <1>0, <1>1, IInvOfCaller
<1>2. ASSUME NEW r \in travelling, Deliver(r) PROVE IInv'
  BY <1>0, <1>2, IInvOfDeliver
<1>3. CASE Crash
  <2>1. \A p \in Orders : OnTheWay(p)' = OnTheWay(p)
    BY <1>3 DEF Crash, OnTheWay
  <2> QED
    BY <1>0, <1>3, <2>1 DEF Crash, IInv, TypeOK, AtMostOneOrder, CallInv, PromptInv
<1>4. CASE Tick \/ UNCHANGED vars
  BY <1>0, <1>4 DEF Tick, vars, exchangeVars, callerVars,
     IInv, AtMostOneOrder, CallInv, PromptInv, OnTheWay, Mine
<1> QED
  BY <1>1, <1>2, <1>3, <1>4 DEF Next

\* The variables keep their types: attempts and look-ups stay within their bound.
THEOREM TypeCorrect == Spec => []TypeOK
<1>1. IInv => TypeOK
  BY DEF IInv
<1> QED
  BY InitInv, Inductive, <1>1, PTL DEF Spec

\* No client order ID ever stands for two orders, whatever is lost, repeated,
\* answered late or called again, for either kind of exchange.
THEOREM OneOrderPerID == Spec => []AtMostOneOrder
<1>1. IInv => AtMostOneOrder
  BY DEF IInv
<1> QED
  BY InitInv, Inductive, <1>1, PTL DEF Spec

\* A refusal of a prompt exchange is final, also after ambiguous attempts.
THEOREM RefusalIsFinal == Spec => []RefusedMeansAbsent
<1>1. IInv => RefusedMeansAbsent
  BY DEF IInv, PromptInv, RefusedMeansAbsent
<1> QED
  BY InitInv, Inductive, <1>1, PTL DEF Spec

-----------------------------------------------------------------------------
(***************************************************************************)
(* CreateOrder implements IdempotentOrder                                  *)
(***************************************************************************)
\* What one more answer does to what the callers have been told.
LEMMA ToldAfterAnswer ==
  ASSUME TypeOK, NEW o \in Orders, NEW what, answer' = [answer EXCEPT ![o] = what]
  PROVE  told' = [told EXCEPT ![o] = IF what = "none" THEN "nothing"
                                       ELSE IF what = "ok" THEN "ok" ELSE "failed"]
<1>1. answer'[o] = what /\ \A p \in Orders : p # o => answer'[p] = answer[p]
  BY DEF TypeOK
<1> QED
  BY <1>1 DEF told

\* What a caller has been told follows from its answer.
LEMMA ToldOfAnswer ==
  ASSUME NEW o \in Orders
  PROVE  /\ answer[o] = "none" => told[o] = "nothing"
         /\ answer[o] = "ok" => told[o] = "ok"
         /\ answer[o] \notin {"none", "ok"} => told[o] = "failed"
  BY DEF told

\* When a call returns, the caller is told what it did not know; "ok" only if the
\* exchange holds the order.
LEMMA ReturnIsAbstract ==
  ASSUME IInv, NEW o \in Orders, pc[o] # "idle", NEW what \in {"ok"} \union Failures,
         answer' = [answer EXCEPT ![o] = what], what = "ok" => book[o] > 0, UNCHANGED book
  PROVE  IdempotentOrderOf!Next
<1>1. told[o] = "nothing"
  BY ToldOfAnswer DEF IInv, CallInv
<1>2. CASE what = "ok"
  <2>1. book[o] = 1
    BY <1>2 DEF IInv, TypeOK, AtMostOneOrder
  <2>2. told' = [told EXCEPT ![o] = "ok"]
    BY <1>2, ToldAfterAnswer DEF IInv
  <2> QED
    BY <1>1, <2>1, <2>2 DEF IdempotentOrderOf!Next, IdempotentOrderOf!Confirm
<1>3. CASE what # "ok"
  <2>1. told' = [told EXCEPT ![o] = "failed"]
    BY <1>3, ToldAfterAnswer DEF IInv, Failures
  <2> QED
    BY <1>1, <2>1 DEF IdempotentOrderOf!Next, IdempotentOrderOf!Fail
<1> QED
  BY <1>2, <1>3

\* A call asks again after a failure, or is refused on the spot.
LEMMA CallIsAbstract ==
  ASSUME IInv, NEW o \in Orders, Call(o)
  PROVE  [IdempotentOrderOf!Next]_IdempotentOrderOf!vars
<1>1. UNCHANGED book /\ answer[o] # "ok" /\ answer \in [Orders -> {"none", "ok"} \union Failures]
  BY DEF Call, MayCall, exchangeVars, IInv, TypeOK
<1>2. CASE answer' = [answer EXCEPT ![o] = "none"]
  <2>1. told' = [told EXCEPT ![o] = "nothing"]
    BY <1>2, ToldAfterAnswer DEF IInv
  <2>2. CASE answer[o] = "none"
    <3>1. told' = told
      BY <1>1, <1>2, <2>2 DEF told
    <3> QED
      BY <1>1, <3>1 DEF IdempotentOrderOf!vars
  <2>3. CASE answer[o] # "none"
    <3>1. told[o] = "failed"
      BY <1>1, <2>3, ToldOfAnswer
    <3> QED
      BY <1>1, <2>1, <3>1 DEF IdempotentOrderOf!Next, IdempotentOrderOf!Retry
  <2> QED
    BY <2>2, <2>3
<1>3. CASE answer' = [answer EXCEPT ![o] = "invalid"]
  <2>1. told' = [told EXCEPT ![o] = "failed"]
    <3>1. told' = [told EXCEPT ![o] = IF "invalid" = "none" THEN "nothing"
                                      ELSE IF "invalid" = "ok" THEN "ok" ELSE "failed"]
      BY <1>3, ToldAfterAnswer DEF IInv
    <3> QED
      BY <3>1
  <2>2. CASE answer[o] = "none"
    <3>1. told[o] = "nothing"
      BY <2>2, ToldOfAnswer
    <3> QED
      BY <1>1, <2>1, <3>1 DEF IdempotentOrderOf!Next, IdempotentOrderOf!Fail
  <2>3. CASE answer[o] # "none"
    <3>1. told[o] = "failed"
      BY <1>1, <2>3, ToldOfAnswer
    <3>2. told' = told
      BY <2>1, <3>1 DEF told
    <3> QED
      BY <1>1, <3>2 DEF IdempotentOrderOf!vars
  <2> QED
    BY <2>2, <2>3
<1> QED
  BY <1>2, <1>3 DEF Call, Return

\* A step of CreateOrder tells the caller the outcome, or nothing.
LEMMA CreateOrderIsAbstract ==
  ASSUME IInv, NEW o \in Orders, CreateOrder(o)
  PROVE  [IdempotentOrderOf!Next]_IdempotentOrderOf!vars
<1>1. UNCHANGED book
  BY DEF exchangeVars, CreateOrder, Post, PostCancelled, Receive,
     Ambiguous, Lookup, LookupCancelled, Backoff
<1>2. pc[o] # "idle"
  BY DEF CreateOrder, Post, PostCancelled, Receive, Ambiguous, Lookup, LookupCancelled, Backoff
<1>3. \/ UNCHANGED answer
      \/ \E what \in {"ok"} \union Failures :
           answer' = [answer EXCEPT ![o] = what] /\ (what = "ok" => book[o] > 0)
  <2> USE DEF Failures
  <2>1. CASE Post(o)
    BY <2>1 DEF Post, Goto
  <2>2. CASE PostCancelled(o) \/ Ambiguous(o)
    BY <2>2 DEF PostCancelled, Ambiguous, AfterAmbiguous, Return
  <2>3. CASE Receive(o)
    BY <2>3 DEF Receive, Goto, Return, IInv, CallInv
  <2>4. CASE Lookup(o)
    BY <2>4 DEF Lookup, NotFound, LookupFailed, Goto, Return
  <2>5. CASE LookupCancelled(o)
    <3>1. \/ answer' = [answer EXCEPT ![o] = "unverified"]
          \/ answer' = [answer EXCEPT ![o] = "unconfirmed"]
      BY <2>5 DEF LookupCancelled, LookupFailed, Return
    <3> QED
      BY <3>1
  <2>6. CASE Backoff(o)
    BY <2>6 DEF Backoff, Goto, Return
  <2> QED
    BY <2>1, <2>2, <2>3, <2>4, <2>5, <2>6 DEF CreateOrder
<1>4. CASE UNCHANGED answer
  BY <1>1, <1>4 DEF IdempotentOrderOf!vars, told
<1> QED
  BY <1>1, <1>2, <1>3, <1>4, ReturnIsAbstract

\* The exchange places the order, or does nothing a caller learns of.
LEMMA DeliverIsAbstract ==
  ASSUME IInv, NEW r \in travelling, Deliver(r)
  PROVE  [IdempotentOrderOf!Next]_IdempotentOrderOf!vars
<1>1. r.order \in Orders /\ book \in [Orders -> Nat]
  BY DEF IInv, TypeOK, Request
<1>2. told' = told
  BY DEF Deliver, callerVars, told
<1>3. CASE UNCHANGED book
  BY <1>2, <1>3 DEF IdempotentOrderOf!vars
<1>4. CASE book' = [book EXCEPT ![r.order] = @ + 1] /\ ~(strict /\ book[r.order] > 0)
  <2>1. book[r.order] = 0
    BY <1>1, <1>4 DEF IInv, PromptInv, OnTheWay
  <2>2. book' = [book EXCEPT ![r.order] = 1]
    BY <1>1, <1>4, <2>1
  <2> QED
    BY <1>1, <1>2, <2>1, <2>2 DEF IdempotentOrderOf!Next, IdempotentOrderOf!Place
<1> QED
  BY <1>3, <1>4 DEF Deliver

\* CreateOrder implements the idempotent submission its interface promises: every
\* step of callers and exchange is one of IdempotentOrder's or changes nothing
\* there.
THEOREM OrderPlacementImplementsIdempotentOrder == Spec => ImplementsIdempotentOrder
<1>1. Init => IdempotentOrderOf!Init
  BY DEF Init, IdempotentOrderOf!Init, told
<1>2. IInv /\ [Next]_vars => [IdempotentOrderOf!Next]_IdempotentOrderOf!vars
  <2> SUFFICES ASSUME IInv, [Next]_vars PROVE [IdempotentOrderOf!Next]_IdempotentOrderOf!vars
    OBVIOUS
  <2>1. CASE (\E o \in Orders : CancelContext(o)) \/ Crash \/ Tick \/ UNCHANGED vars
    BY <2>1 DEF CancelContext, Crash, Tick, vars, exchangeVars, callerVars,
       IdempotentOrderOf!vars, told
  <2> QED
    BY <2>1, CallIsAbstract, CreateOrderIsAbstract, DeliverIsAbstract DEF Next
<1> QED
  BY InitInv, Inductive, <1>1, <1>2, PTL DEF Spec, ImplementsIdempotentOrder, IdempotentOrderOf!Spec

=============================================================================
