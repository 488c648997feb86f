----------------------------- MODULE RateLimiter -----------------------------
(***************************************************************************)
(* The token bucket of src/internal/exchange/ratelimit.go.  Its level is a *)
(* float64 refilled in proportion to the time since the last refill; here  *)
(* a token has Parts parts and a tick is worth Refill of them.  The bucket *)
(* is refilled lazily, by the caller who asks for a token.                 *)
(***************************************************************************)
EXTENDS Naturals, FiniteSetsExt

CONSTANTS
  Capacity,   \* tokens in a full bucket
  Parts,      \* parts of a token
  Refill,     \* parts a tick adds
  Window      \* how many ticks back the requests are remembered

ASSUME LimiterAssumption ==
  /\ Capacity \in Nat \ {0}
  /\ Parts \in Nat \ {0}
  /\ Refill \in Nat \ {0}
  /\ Window \in Nat

VARIABLES
  level,    \* parts in the bucket at the last refill
  elapsed,  \* ticks since then; no more than fill the bucket anyway
  sent      \* sent[k]: tokens spent since k ticks ago (observer)

limiterVars == <<level, elapsed, sent>>

Full == Capacity * Parts

LimiterType ==
  /\ level \in 0 .. Full
  /\ elapsed \in 0 .. Full
  /\ sent \in [0 .. Window -> Nat]

LimiterInit ==
  /\ level = Full
  /\ elapsed = 0
  /\ sent = [k \in 0 .. Window |-> 0]

\* Mutant: the bucket is not capped.
RefilledUncapped == level + elapsed * Refill

Refilled == Min({Full, level + elapsed * Refill})

\* One token, taken under the mutex; Wait polls until this is enabled.
TakeToken ==
  /\ Refilled >= Parts
  /\ level' = Refilled - Parts
  /\ elapsed' = 0
  /\ sent' = [k \in 0 .. Window |-> sent[k] + 1]

TimePasses ==
  /\ elapsed' = Min({elapsed + 1, Full})
  /\ sent' = [k \in 0 .. Window |-> IF k = 0 THEN 0 ELSE sent[k - 1]]
  /\ UNCHANGED level

\* Over every stretch of time the requests stay within one full bucket and what
\* has been refilled meanwhile, whoever the callers are and however long the
\* bucket was left alone before.
BudgetRespected ==
  \A k \in 0 .. Window : sent[k] * Parts <= Full + k * Refill

=============================================================================
