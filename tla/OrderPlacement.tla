--------------------------- MODULE OrderPlacement ----------------------------
(***************************************************************************)
(* Placing orders over an unreliable connection: CreateOrder, FetchOrder   *)
(* and the request plumbing of src/internal/exchange/ccxt.go, for callers  *)
(* in one process that share a rate limiter.                               *)
(*                                                                         *)
(* A POST that brings no usable answer (a timeout, an unreadable body,     *)
(* 429, 418 or a 5xx) is ambiguous: it may have placed the order.          *)
(* CreateOrder looks the order up by its client ID before it sends again,  *)
(* and gives up when it cannot.                                            *)
(*                                                                         *)
(* The exchange is external.  The code relies on one of two things, and    *)
(* both are modelled: a strict exchange refuses a client ID it has seen,   *)
(* however late a request arrives; a prompt one does not, but nothing      *)
(* arrives after the client has stopped waiting for it.                    *)
(***************************************************************************)
EXTENDS RateLimiter, FiniteSets

CONSTANTS
  Orders,      \* client order IDs, each placed by a caller of its own
  MaxRetries,  \* BackoffPolicy.MaxRetries
  MaxCalls     \* bound: MaxCalls[o] calls of CreateOrder for the ID

ASSUME PlacementAssumption ==
  /\ MaxRetries \in Nat
  /\ MaxCalls \in [Orders -> Nat]

MaxAttempts == MaxRetries + 1

VARIABLES
  strict,      \* which kind of exchange this is
  book,        \* book[o]: orders the exchange holds under the ID
  travelling,  \* POSTs under way to the exchange
  reply,       \* what the exchange answered the POST the caller waits for
  pc,          \* where CreateOrder is
  attempt,     \* its loop variable
  tries,       \* doRequestWithRetry's, inside FetchOrder
  calls,       \* calls of CreateOrder for the ID so far
  alive,       \* whether the caller's context is alive
  answer       \* what CreateOrder returned

exchangeVars == <<strict, book, travelling, reply>>
callerVars == <<pc, attempt, tries, calls, alive, answer>>
vars == <<limiterVars, exchangeVars, callerVars>>

Request == [order : Orders, call : Nat, attempt : 1 .. MaxAttempts]

Failures == {"invalid", "refused", "unverified", "unconfirmed", "cancelled", "gave_up", "unreadable"}

Init ==
  /\ LimiterInit
  /\ strict \in BOOLEAN
  /\ book = [o \in Orders |-> 0]
  /\ travelling = {}
  /\ reply = [o \in Orders |-> "none"]
  /\ pc = [o \in Orders |-> "idle"]
  /\ attempt = [o \in Orders |-> 0]
  /\ tries = [o \in Orders |-> 0]
  /\ calls = [o \in Orders |-> 0]
  /\ alive = [o \in Orders |-> TRUE]
  /\ answer = [o \in Orders |-> "none"]

\* Stay in the call with the same attempt.
Goto(o, where) ==
  /\ pc' = [pc EXCEPT ![o] = where]
  /\ UNCHANGED <<attempt, alive, answer>>

\* The locals of a call go with it.
Return(o, what) ==
  /\ pc' = [pc EXCEPT ![o] = "idle"]
  /\ attempt' = [attempt EXCEPT ![o] = 0]
  /\ tries' = [tries EXCEPT ![o] = 0]
  /\ alive' = [alive EXCEPT ![o] = TRUE]
  /\ answer' = [answer EXCEPT ![o] = what]

-----------------------------------------------------------------------------
(***************************************************************************)
(* The caller                                                              *)
(***************************************************************************)
\* A caller that got no answer, or an error, may call again with the same ID,
\* also after a restart; that this is safe is the strict exchange's doing.
MayCall(o) ==
  /\ pc[o] = "idle"
  /\ answer[o] # "ok"
  /\ calls[o] < MaxCalls[o]
  /\ calls[o] = 0 \/ strict

\* An order without a client ID, a positive quantity or a known side and type is
\* refused on the spot.
Call(o) ==
  /\ MayCall(o)
  /\ calls' = [calls EXCEPT ![o] = @ + 1]
  /\ \/ /\ pc' = [pc EXCEPT ![o] = "post"]
        /\ attempt' = [attempt EXCEPT ![o] = 1]
        /\ answer' = [answer EXCEPT ![o] = "none"]
        /\ UNCHANGED <<tries, alive>>
     \/ Return(o, "invalid")
  /\ UNCHANGED <<limiterVars, exchangeVars>>

CancelContext(o) ==
  /\ pc[o] # "idle"
  /\ alive[o]
  /\ alive' = [alive EXCEPT ![o] = FALSE]
  /\ UNCHANGED <<limiterVars, exchangeVars, pc, attempt, tries, calls, answer>>

\* The process dies: nobody waits any more, but what is under way stays so.
Crash ==
  /\ \E o \in Orders : pc[o] # "idle"
  /\ pc' = [o \in Orders |-> "idle"]
  /\ reply' = [o \in Orders |-> "none"]
  /\ attempt' = [o \in Orders |-> 0]
  /\ tries' = [o \in Orders |-> 0]
  /\ alive' = [o \in Orders |-> TRUE]
  /\ UNCHANGED <<limiterVars, strict, book, travelling, calls, answer>>

-----------------------------------------------------------------------------
(***************************************************************************)
(* CreateOrder                                                             *)
(***************************************************************************)
\* Mutant: the order is sent again without looking it up.
AfterAmbiguousBlindly(o) ==
  \/ /\ attempt[o] < MaxAttempts
     /\ pc' = [pc EXCEPT ![o] = "backoff"]
     /\ attempt' = [attempt EXCEPT ![o] = @ + 1]
     /\ UNCHANGED <<tries, alive, answer>>
  \/ attempt[o] = MaxAttempts /\ Return(o, "gave_up")

\* Mutant: the bound on the attempts is off by one.
AfterAmbiguousOnceMore(o) ==
  \/ /\ attempt[o] <= MaxAttempts
     /\ pc' = [pc EXCEPT ![o] = "lookup"]
     /\ attempt' = [attempt EXCEPT ![o] = @ + 1]
     /\ tries' = [tries EXCEPT ![o] = 1]
     /\ UNCHANGED <<alive, answer>>
  \/ attempt[o] > MaxAttempts /\ Return(o, "gave_up")

\* Mutant: the attempts are not counted.
AfterAmbiguousForever(o) ==
  /\ pc' = [pc EXCEPT ![o] = "lookup"]
  /\ tries' = [tries EXCEPT ![o] = 1]
  /\ UNCHANGED <<attempt, alive, answer>>

\* An ambiguous attempt is followed by a look-up, the last one by an error.
AfterAmbiguous(o) ==
  \/ /\ attempt[o] < MaxAttempts
     /\ pc' = [pc EXCEPT ![o] = "lookup"]
     /\ attempt' = [attempt EXCEPT ![o] = @ + 1]
     /\ tries' = [tries EXCEPT ![o] = 1]
     /\ UNCHANGED <<alive, answer>>
  \/ attempt[o] = MaxAttempts /\ Return(o, "gave_up")

Post(o) ==
  /\ pc[o] = "post"
  /\ alive[o]
  /\ TakeToken
  /\ travelling' = travelling \union
       {[order |-> o, call |-> calls[o], attempt |-> attempt[o]]}
  /\ Goto(o, "sent")
  /\ UNCHANGED <<strict, book, reply, tries, calls>>

\* A dead context fails the attempt before anything is sent, with or without a
\* token spent for it.
PostCancelled(o) ==
  /\ pc[o] = "post"
  /\ ~alive[o]
  /\ TakeToken \/ (Refilled < Parts /\ UNCHANGED limiterVars)
  /\ AfterAmbiguous(o)
  /\ UNCHANGED <<exchangeVars, calls>>

Mine(r) ==
  /\ pc[r.order] = "sent"
  /\ r.call = calls[r.order]
  /\ r.attempt = attempt[r.order]

Receive(o) ==
  /\ pc[o] = "sent"
  /\ reply' = [reply EXCEPT ![o] = "none"]
  /\ \/ reply[o] \in {"ok", "refused"} /\ Return(o, reply[o])
     \/ reply[o] = "ok" /\ Return(o, "unreadable")
     \/ /\ reply[o] = "duplicate"
        /\ Goto(o, "confirm")
        /\ tries' = [tries EXCEPT ![o] = 1]
  /\ UNCHANGED <<limiterVars, strict, book, travelling, calls>>

\* No usable answer, whether or not the exchange has received the request.
Ambiguous(o) ==
  /\ pc[o] = "sent"
  /\ reply' = [reply EXCEPT ![o] = "none"]
  /\ travelling' = IF strict THEN travelling ELSE {r \in travelling : ~(r.order = o /\ Mine(r))}
  /\ AfterAmbiguous(o)
  /\ UNCHANGED <<limiterVars, strict, book, calls>>

(***************************************************************************)
(* FetchOrder, before a retry ("lookup") or after the exchange has called  *)
(* the order a duplicate ("confirm").  It is a read and retried freely.    *)
(***************************************************************************)
\* Mutant: a look-up that fails counts as not found.
LookupFailedAsAbsent(o) ==
  \/ pc[o] = "lookup" /\ Goto(o, "backoff") /\ UNCHANGED tries
  \/ pc[o] = "confirm" /\ Return(o, "unconfirmed")

LookupFailed(o) == Return(o, IF pc[o] = "lookup" THEN "unverified" ELSE "unconfirmed")

NotFound(o) ==
  \/ pc[o] = "lookup" /\ Goto(o, "backoff") /\ UNCHANGED tries
  \/ pc[o] = "confirm" /\ Return(o, "unconfirmed")

Lookup(o) ==
  /\ pc[o] \in {"lookup", "confirm"}
  /\ alive[o]
  /\ TakeToken
  /\ \/ book[o] > 0 /\ Return(o, "ok")
     \/ book[o] = 0 /\ NotFound(o)
     \/ LookupFailed(o)
     \/ /\ tries[o] < MaxAttempts
        /\ tries' = [tries EXCEPT ![o] = @ + 1]
        /\ UNCHANGED <<pc, attempt, alive, answer>>
  /\ UNCHANGED <<exchangeVars, calls>>

LookupCancelled(o) ==
  /\ pc[o] \in {"lookup", "confirm"}
  /\ ~alive[o]
  /\ TakeToken \/ UNCHANGED limiterVars
  /\ LookupFailed(o)
  /\ UNCHANGED <<exchangeVars, calls>>

Backoff(o) ==
  /\ pc[o] = "backoff"
  /\ \/ Goto(o, "post") /\ UNCHANGED tries
     \/ ~alive[o] /\ Return(o, "cancelled")
  /\ UNCHANGED <<limiterVars, exchangeVars, calls>>

-----------------------------------------------------------------------------
(***************************************************************************)
(* The exchange and the clock                                              *)
(***************************************************************************)
Answer(r, what) ==
  reply' = IF Mine(r) THEN [reply EXCEPT ![r.order] = what] ELSE reply

\* A request that is never delivered is a lost one.
Deliver(r) ==
  /\ travelling' = travelling \ {r}
  /\ \/ /\ strict /\ book[r.order] > 0
        /\ Answer(r, "duplicate")
        /\ UNCHANGED book
     \/ /\ ~(strict /\ book[r.order] > 0)
        /\ \/ /\ book' = [book EXCEPT ![r.order] = @ + 1]
              /\ Answer(r, "ok")
           \/ /\ Answer(r, "refused")
              /\ UNCHANGED book
  /\ UNCHANGED <<limiterVars, strict, callerVars>>

Tick ==
  /\ TimePasses
  /\ UNCHANGED <<exchangeVars, callerVars>>

-----------------------------------------------------------------------------
CreateOrder(o) ==
  \/ Post(o) \/ PostCancelled(o) \/ Receive(o) \/ Ambiguous(o)
  \/ Lookup(o) \/ LookupCancelled(o) \/ Backoff(o)

Next ==
  \/ \E o \in Orders : Call(o) \/ CancelContext(o) \/ CreateOrder(o)
  \/ \E r \in travelling : Deliver(r)
  \/ Crash
  \/ Tick

Spec == Init /\ [][Next]_vars

\* Requests time out, sleeps end, and the bucket is refilled.
FairSpec == Spec /\ WF_vars(Tick) /\ \A o \in Orders : WF_vars(CreateOrder(o))

-----------------------------------------------------------------------------
(***************************************************************************)
(* Properties                                                              *)
(***************************************************************************)
TypeOK ==
  /\ LimiterType
  /\ strict \in BOOLEAN
  /\ book \in [Orders -> Nat]
  /\ travelling \subseteq Request
  /\ reply \in [Orders -> {"none", "ok", "refused", "duplicate"}]
  /\ pc \in [Orders -> {"idle", "post", "sent", "lookup", "backoff", "confirm"}]
  /\ attempt \in [Orders -> 0 .. MaxAttempts]
  /\ tries \in [Orders -> 0 .. MaxAttempts]
  /\ calls \in [Orders -> Nat]
  /\ alive \in [Orders -> BOOLEAN]
  /\ answer \in [Orders -> {"none", "ok"} \union Failures]

\* The promise of the interface: no client order ID ever stands for two orders,
\* over timeouts, retries, crashes and callers that call again.
AtMostOneOrder == \A o \in Orders : book[o] <= 1

\* A refusal is final: if CreateOrder returns one, the order is not on the
\* exchange, also when earlier attempts of the call were ambiguous.  Only an
\* earlier request that arrives after its client stopped waiting breaks it.
RefusedMeansAbsent ==
  \A o \in Orders : answer[o] \in {"refused", "invalid"} /\ ~strict => book[o] = 0

told == [o \in Orders |->
           CASE answer[o] = "none" -> "nothing"
             [] answer[o] = "ok" -> "ok"
             [] OTHER -> "failed"]

IdempotentOrderOf == INSTANCE IdempotentOrder WITH placed <- book

\* CreateOrder implements the idempotent submission its interface promises.
ImplementsIdempotentOrder == IdempotentOrderOf!Spec

\* Every call returns, with an answer or an error, unless the process dies: the
\* loops over attempts and look-ups end, and waiting for a token does too.
CallReturns == \A o \in Orders : pc[o] # "idle" ~> pc[o] = "idle"

=============================================================================
