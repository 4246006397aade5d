------------------------------ MODULE HttpStack ------------------------------
(***************************************************************************)
(* internal/resilience: the HTTP client of one venue, shared by all its    *)
(* concurrent requests -- retry around circuit breaker around rate limiter *)
(* around the wire (NewHTTPClient).                                        *)
(*                                                                         *)
(* The policies are the repository's (ReadyToTrip, IsSuccessful, the 5xx   *)
(* marker, CheckRetry, the order of the layers); the machinery they plug   *)
(* into is gobreaker, retryablehttp and x/time/rate, modelled from what    *)
(* their callbacks and errors are used for here.                           *)
(***************************************************************************)
EXTENDS Integers, FiniteSets

CONSTANTS
  Reqs,         \* slots for concurrent requests: a finished one is reused
  RetryMax,     \* RetryConfig.MaxRetries
  Burst,        \* RateLimitBurst
  MinRequests,  \* BreakerConfig.MinRequests
  RatioPct,     \* BreakerConfig.FailureRatio, in percent
  MaxSample     \* bound of the model: requests one breaker generation admits

ASSUME Parameters ==
  /\ RetryMax \in Nat /\ Burst \in Nat
  /\ MinRequests \in Nat /\ RatioPct \in Int
  /\ MaxSample \in Nat \ {0}

VARIABLES
  breaker,    \* "closed", "open" or "halfopen"
  counts,     \* of the breaker's current generation: see Zero
  counted,    \* requests in flight admitted by the current generation
  tokens,     \* the limiter's bucket
  pc,         \* where each request is: see Places
  attempt,    \* retries made so far
  expired,    \* the deadline of the request's context has passed
  cancelled   \* the process is shutting down: every context is cancelled

vars == <<breaker, counts, counted, tokens, pc, attempt, expired, cancelled>>

\* "gate": about to enter the breaker; "limiter": in Wait; "wire": in the real
\* transport; "backoff": between attempts; "ok" / "failed": returned.
Places == {"idle", "gate", "limiter", "wire", "backoff", "ok", "failed"}

\* gobreaker.Counts, as far as ReadyToTrip reads it, and a history:
\* how many outcomes the generation has observed.
Zero == [requests |-> 0, failures |-> 0, observed |-> 0]

Init ==
  /\ breaker = "closed" /\ counts = Zero /\ counted = {}
  /\ tokens = Burst
  /\ pc = [r \in Reqs |-> "idle"]
  /\ attempt = [r \in Reqs |-> 0]
  /\ expired = [r \in Reqs |-> FALSE]
  /\ cancelled = FALSE

CtxDone(r) == expired[r] \/ cancelled

\* The error a done context gives: Canceled only if it was not expired before.
Canceled(r) == cancelled /\ ~expired[r]

\* The request returns; its slot is free for the next.
Ended == {"idle", "ok", "failed"}

Ends(r, place) ==
  /\ pc' = [pc EXCEPT ![r] = place]
  /\ attempt' = [attempt EXCEPT ![r] = 0]
  /\ expired' = [expired EXCEPT ![r] = FALSE]

-----------------------------------------------------------------------------
(* The breaker. *)

\* NewCircuitBreaker's ReadyToTrip.
ReadyToTrip(c) ==
  /\ c.requests >= MinRequests
  /\ c.failures * 100 > c.requests * RatioPct

\* gobreaker changes state or clears its window: counters restart, and what
\* was admitted before no longer counts.
NewGeneration(b) == breaker' = b /\ counts' = Zero /\ counted' = {}

\* A closed breaker counts an outcome, and a failure may open it.
CountOutcome(r, success) ==
  LET c == [counts EXCEPT !.observed = @ + 1,
                          !.failures = IF success THEN @ ELSE @ + 1]
  IN IF ~success /\ ReadyToTrip(c) THEN NewGeneration("open")
     ELSE counts' = c /\ counted' = counted \ {r} /\ UNCHANGED breaker

\* Plausible bug: an outcome counts in whatever generation it arrives.
ObserveLate(r, success) ==
  CASE breaker = "open"     -> UNCHANGED <<breaker, counts, counted>>
    [] breaker = "halfopen" -> NewGeneration(IF success THEN "closed" ELSE "open")
    [] breaker = "closed"   -> CountOutcome(r, success)

\* Plausible bug: a failed probe leaves the breaker half-open.
ObserveNoReopen(r, success) ==
  IF r \notin counted THEN UNCHANGED <<breaker, counts, counted>>
  ELSE IF breaker = "closed" THEN CountOutcome(r, success)
  ELSE IF success THEN NewGeneration("closed")
  ELSE counted' = counted \ {r} /\ UNCHANGED <<breaker, counts>>

\* gobreaker's afterRequest, with NewCircuitBreaker's policies, for the
\* outcome of an attempt.
Observe(r, success) ==
  IF r \notin counted THEN UNCHANGED <<breaker, counts, counted>>
  ELSE IF breaker = "halfopen"
       THEN NewGeneration(IF success THEN "closed" ELSE "open")
       ELSE CountOutcome(r, success)

\* Plausible bug: Settings.MaxRequests of 2.
AdmitsTwo == breaker = "closed" \/ (breaker = "halfopen" /\ counts.requests < 2)

\* NewCircuitBreaker leaves MaxRequests out of its settings: a half-open
\* breaker lets one probe through.
Admits == breaker = "closed" \/ (breaker = "halfopen" /\ counts.requests = 0)

Admit(r) ==
  /\ pc[r] = "gate"
  /\ Admits
  /\ counts.requests < MaxSample
  /\ counts' = [counts EXCEPT !.requests = @ + 1]
  /\ counted' = counted \cup {r}
  /\ pc' = [pc EXCEPT ![r] = "limiter"]
  /\ UNCHANGED <<breaker, tokens, attempt, expired, cancelled>>

\* ErrOpenState or ErrTooManyRequests: CheckRetry does not retry.
Reject(r) ==
  /\ pc[r] = "gate"
  /\ ~Admits
  /\ Ends(r, "failed")
  /\ UNCHANGED <<breaker, counts, counted, tokens, cancelled>>

\* Interval clears the closed window, Cooldown opens the way to a probe.
WindowEnds ==
  /\ breaker = "closed" /\ counts # Zero
  /\ NewGeneration("closed")
  /\ UNCHANGED <<tokens, pc, attempt, expired, cancelled>>

CooldownEnds ==
  /\ breaker = "open"
  /\ NewGeneration("halfopen")
  /\ UNCHANGED <<tokens, pc, attempt, expired, cancelled>>

-----------------------------------------------------------------------------
(* Retry, rate limiter and wire. *)

\* Plausible bug: a good answer is returned although the context is done.
RetryLateAnswer(r, good) ==
  IF good THEN Ends(r, "ok")
  ELSE IF CtxDone(r) \/ attempt[r] >= RetryMax THEN Ends(r, "failed")
  ELSE pc' = [pc EXCEPT ![r] = "backoff"] /\ UNCHANGED <<attempt, expired>>

\* Plausible bug: MaxRetries is exceeded by one.
RetryOnceMore(r, good) ==
  IF good /\ ~CtxDone(r) THEN Ends(r, "ok")
  ELSE IF CtxDone(r) \/ attempt[r] > RetryMax THEN Ends(r, "failed")
  ELSE pc' = [pc EXCEPT ![r] = "backoff"] /\ UNCHANGED <<attempt, expired>>

\* CheckRetry after an attempt: a done context ends the request even if the
\* answer is good, a good answer returns it, anything else is retried while
\* the budget lasts.
Retry(r, good) ==
  IF good /\ ~CtxDone(r) THEN Ends(r, "ok")
  ELSE IF CtxDone(r) \/ attempt[r] >= RetryMax THEN Ends(r, "failed")
  ELSE pc' = [pc EXCEPT ![r] = "backoff"] /\ UNCHANGED <<attempt, expired>>

\* Nothing looks at the context before the limiter does.
Start(r) ==
  /\ pc[r] \in Ended
  /\ pc' = [pc EXCEPT ![r] = "gate"]
  /\ UNCHANGED <<breaker, counts, counted, tokens, attempt, expired, cancelled>>

\* rateLimitTransport: Wait grants a token ...
TakeToken(r) ==
  /\ pc[r] = "limiter"
  /\ tokens > 0 /\ ~CtxDone(r)
  /\ tokens' = tokens - 1
  /\ pc' = [pc EXCEPT ![r] = "wire"]
  /\ UNCHANGED <<breaker, counts, counted, attempt, expired, cancelled>>

\* Plausible bug: the wait ignores the deadline.
WaitForToken(r) ==
  /\ pc[r] = "limiter"
  /\ cancelled
  /\ Observe(r, Canceled(r))
  /\ Retry(r, FALSE)
  /\ UNCHANGED <<tokens, cancelled>>

\* ... or fails: the context is done, or no token can come before its
\* deadline.  The breaker sees the error like one of the provider's.
LimiterFails(r) ==
  /\ pc[r] = "limiter"
  /\ CtxDone(r) \/ tokens = 0
  /\ Observe(r, Canceled(r))
  /\ Retry(r, FALSE)
  /\ UNCHANGED <<tokens, cancelled>>

\* circuitBreakerTransport: a 5xx is a failure for the breaker and an answer
\* for the retry layer, which retries it like a transport error ("error": the
\* per-attempt timeout too), unless it is "permanent": a 501, a certificate or
\* a redirect.  A 429 is retried but is the breaker's success.
WireOutcome(r, o) ==
  /\ pc[r] = "wire"
  /\ o = "canceled" => Canceled(r)
  /\ Observe(r, o \in {"answer", "throttled", "canceled"})
  /\ IF o = "permanent" THEN Ends(r, "failed") ELSE Retry(r, o = "answer")
  /\ UNCHANGED <<tokens, cancelled>>

Outcomes == {"answer", "throttled", "server", "error", "permanent", "canceled"}

BackoffEnds(r) ==
  /\ pc[r] = "backoff" /\ ~CtxDone(r)
  /\ attempt' = [attempt EXCEPT ![r] = @ + 1]
  /\ pc' = [pc EXCEPT ![r] = "gate"]
  /\ UNCHANGED <<breaker, counts, counted, tokens, expired, cancelled>>

BackoffCut(r) ==
  /\ pc[r] = "backoff" /\ CtxDone(r)
  /\ Ends(r, "failed")
  /\ UNCHANGED <<breaker, counts, counted, tokens, cancelled>>

\* The Dispatcher's deadline for the call passes.
Expire(r) ==
  /\ pc[r] \notin Ended /\ ~CtxDone(r)
  /\ expired' = [expired EXCEPT ![r] = TRUE]
  /\ UNCHANGED <<breaker, counts, counted, tokens, pc, attempt, cancelled>>

Refill ==
  /\ tokens < Burst
  /\ tokens' = tokens + 1
  /\ UNCHANGED <<breaker, counts, counted, pc, attempt, expired, cancelled>>

Shutdown ==
  /\ ~cancelled
  /\ cancelled' = TRUE
  /\ UNCHANGED <<breaker, counts, counted, tokens, pc, attempt, expired>>

\* A step the request's own goroutine takes once it is under way.
Proceed(r) ==
  \/ Admit(r) \/ Reject(r) \/ TakeToken(r) \/ LimiterFails(r)
  \/ (\E o \in Outcomes : WireOutcome(r, o))
  \/ BackoffEnds(r) \/ BackoffCut(r)

Next ==
  \/ \E r \in Reqs : Start(r) \/ Proceed(r) \/ Expire(r)
  \/ WindowEnds \/ CooldownEnds \/ Refill \/ Shutdown

Spec == Init /\ [][Next]_vars

-----------------------------------------------------------------------------
(* Properties. *)

TypeOK ==
  /\ breaker \in {"closed", "open", "halfopen"}
  /\ counts \in [requests : 0 .. MaxSample, failures : 0 .. MaxSample,
                 observed : 0 .. MaxSample]
  /\ counted \subseteq {r \in Reqs : pc[r] \in {"limiter", "wire"}}
  /\ tokens \in 0 .. Burst
  /\ pc \in [Reqs -> Places]
  /\ attempt \in [Reqs -> 0 .. RetryMax]
  /\ expired \in [Reqs -> BOOLEAN]
  /\ cancelled \in BOOLEAN

\* The window's bookkeeping survives concurrency: every admitted request of
\* the generation is in flight or observed, none is counted twice, and what
\* opened the breaker is forgotten: it opens with nothing in its counters.
CountsConsistent ==
  /\ counts.requests = counts.observed + Cardinality(counted)
  /\ counts.failures <= counts.observed
  /\ breaker = "open" => counts = Zero

\* While half-open, one probe at most is in flight for the breaker, even with
\* requests admitted before it opened still on the wire.
SingleProbe == breaker = "halfopen" => Cardinality(counted) <= 1

\* A probe always resolves the half-open state, which rejects every other
\* request meanwhile and has no clock of its own to leave it.
ProbeResolves == breaker = "halfopen" /\ counts.requests > 0 ~> breaker # "halfopen"

\* The comment of NewCircuitBreaker: the breaker opens only after at least
\* MinRequests calls have been observed in the window.
TripsOnObserved ==
  [][breaker = "closed" /\ breaker' = "open" => counts.observed + 1 >= MinRequests]_vars
=============================================================================
