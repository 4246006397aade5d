-------------------------- MODULE HttpStackProofs --------------------------
(***************************************************************************)
(* Proofs about HttpStack for any number of concurrent requests and all    *)
(* the parameters of its layers.                                           *)
(*                                                                         *)
(* The counters are consistent only together: counted is finite (requests  *)
(* join it one by one), a half-open generation admits one request, and a   *)
(* request that waits to retry has retries left.                           *)
(***************************************************************************)
EXTENDS HttpStack, FiniteSetTheorems, TLAPS

\* A half-open generation admits one request at most, whatever became of it.
HalfOpenOne == breaker = "halfopen" => counts.requests <= 1

\* Only a request with retries left waits for one.
RetriesLeft == \A r \in Reqs : pc[r] = "backoff" => attempt[r] < RetryMax

\* What the breaker contributes to Inv.
Counts ==
  /\ breaker \in {"closed", "open", "halfopen"}
  /\ counts \in [requests : 0 .. MaxSample, failures : 0 .. MaxSample,
                 observed : 0 .. MaxSample]
  /\ IsFiniteSet(counted) /\ CountsConsistent /\ HalfOpenOne

\* The place, retries and context of each request.
Flights ==
  /\ counted \subseteq {r \in Reqs : pc[r] \in {"limiter", "wire"}}
  /\ tokens \in 0 .. Burst
  /\ pc \in [Reqs -> Places]
  /\ attempt \in [Reqs -> 0 .. RetryMax]
  /\ expired \in [Reqs -> BOOLEAN]
  /\ cancelled \in BOOLEAN
  /\ RetriesLeft

Inv == Counts /\ Flights

-----------------------------------------------------------------------------
(* The breaker. *)

\* A generation starts with nothing counted (gobreaker's toNewGeneration).
LEMMA FreshGeneration ==
  ASSUME NEW b \in {"closed", "open", "halfopen"}, NewGeneration(b)
  PROVE  Counts' /\ counted' = {}
<1>1. /\ breaker' = b /\ counted' = {}
      /\ counts' = [requests |-> 0, failures |-> 0, observed |-> 0]
  BY DEF NewGeneration, Zero
<1>2. IsFiniteSet(counted') /\ Cardinality(counted') = 0
  BY <1>1, FS_EmptySet
<1>3. CountsConsistent' /\ HalfOpenOne'
  BY <1>1, <1>2 DEF CountsConsistent, HalfOpenOne, Zero
<1>4. counts' \in [requests : 0 .. MaxSample, failures : 0 .. MaxSample,
                   observed : 0 .. MaxSample]
  BY <1>1, Parameters
<1> QED BY <1>1, <1>2, <1>3, <1>4 DEF Counts

\* afterRequest: the outcome of an attempt keeps the books, and the request is
\* no longer counted.
LEMMA ObserveKeepsCounts ==
  ASSUME Counts, NEW r, NEW success \in BOOLEAN, Observe(r, success)
  PROVE  Counts' /\ counted' \subseteq counted \ {r}
<1>1. CASE r \notin counted
  <2>1. UNCHANGED <<breaker, counts, counted>>
    BY <1>1 DEF Observe
  <2> QED BY <1>1, <2>1 DEF Counts, CountsConsistent, HalfOpenOne
<1>2. CASE r \in counted /\ breaker = "halfopen"
  <2>1. NewGeneration("closed") \/ NewGeneration("open")
    BY <1>2 DEF Observe
  <2> QED BY <2>1, FreshGeneration
<1>3. CASE r \in counted /\ breaker # "halfopen"
  <2> DEFINE c == [counts EXCEPT !.observed = @ + 1,
                                 !.failures = IF success THEN @ ELSE @ + 1]
  <2>1. CountOutcome(r, success)
    BY <1>3 DEF Observe
  <2>2. CASE ~success /\ ReadyToTrip(c)
    <3>1. NewGeneration("open")
      BY <2>1, <2>2 DEF CountOutcome
    <3> QED BY <3>1, FreshGeneration
  <2>3. CASE ~(~success /\ ReadyToTrip(c))
    <3>1. counts' = c /\ counted' = counted \ {r} /\ breaker' = breaker
      BY <2>1, <2>3 DEF CountOutcome
    <3>2. /\ IsFiniteSet(counted') /\ Cardinality(counted') = Cardinality(counted) - 1
          /\ Cardinality(counted) \in Nat /\ Cardinality(counted') \in Nat
      BY <1>3, <3>1, FS_RemoveElement, FS_CardinalityType DEF Counts
    <3>3. /\ c.requests = counts.requests /\ c.observed = counts.observed + 1
          /\ c.failures \in {counts.failures, counts.failures + 1}
          /\ counts.requests \in 0 .. MaxSample /\ counts.failures \in 0 .. MaxSample
          /\ counts.observed \in 0 .. MaxSample
      BY DEF Counts
    <3>4. /\ counts.requests = counts.observed + Cardinality(counted)
          /\ counts.failures <= counts.observed
      BY DEF Counts, CountsConsistent
    <3>5. c \in [requests : 0 .. MaxSample, failures : 0 .. MaxSample,
                 observed : 0 .. MaxSample]
      <4>1. counts.observed + 1 \in 0 .. MaxSample
        BY <3>2, <3>3, <3>4, Parameters
      <4>2. c.failures \in 0 .. MaxSample
        BY <3>3, <3>4, <4>1, Parameters
      <4> QED BY <3>3, <4>1, <4>2 DEF Counts
    <3>6. breaker # "open"
      <4>1. breaker = "open" => counts.requests = 0 /\ counts.observed = 0
        BY DEF Counts, CountsConsistent, Zero
      <4> QED BY <3>2, <3>4, <4>1
    <3>7. CountsConsistent'
      <4>1. counts'.requests = counts'.observed + Cardinality(counted')
        BY <3>1, <3>2, <3>3, <3>4
      <4>2. counts'.failures <= counts'.observed
        BY <3>1, <3>3, <3>4
      <4> QED BY <3>1, <3>6, <4>1, <4>2 DEF CountsConsistent
    <3>8. HalfOpenOne'
      BY <1>3, <3>1 DEF HalfOpenOne
    <3> QED BY <3>1, <3>2, <3>5, <3>7, <3>8 DEF Counts
  <2> QED BY <2>2, <2>3
<1> QED BY <1>1, <1>2, <1>3

-----------------------------------------------------------------------------
(* The requests. *)

\* A request that moves keeps the type of what is known of the requests, and
\* waits to retry only if it may.
LEMMA MoveKeepsFlights ==
  ASSUME Flights, NEW r \in Reqs, NEW place \in Places,
         pc' = [pc EXCEPT ![r] = place],
         \/ counted' \subseteq counted \ {r}
         \/ counted' \subseteq counted \cup {r} /\ place \in {"limiter", "wire"},
         NEW n \in 0 .. RetryMax, attempt' = [attempt EXCEPT ![r] = n],
         place = "backoff" => n < RetryMax,
         NEW e \in BOOLEAN, expired' = [expired EXCEPT ![r] = e],
         tokens' \in 0 .. Burst, cancelled' = cancelled
  PROVE  Flights'
<1>1. /\ counted \subseteq {q \in Reqs : pc[q] \in {"limiter", "wire"}}
      /\ pc \in [Reqs -> Places] /\ attempt \in [Reqs -> 0 .. RetryMax]
      /\ expired \in [Reqs -> BOOLEAN] /\ cancelled \in BOOLEAN
  BY DEF Flights
<1>2. /\ pc' \in [Reqs -> Places] /\ attempt' \in [Reqs -> 0 .. RetryMax]
      /\ expired' \in [Reqs -> BOOLEAN] /\ cancelled' \in BOOLEAN
  BY <1>1
<1>3. counted' \subseteq {q \in Reqs : pc'[q] \in {"limiter", "wire"}}
  BY <1>1
<1>4. RetriesLeft'
  BY <1>1 DEF Flights, RetriesLeft
<1> QED BY <1>2, <1>3, <1>4 DEF Flights

-----------------------------------------------------------------------------
(* One lemma per group of steps. *)

\* No request has started and the breaker is closed.
LEMMA InvInit == Init => Inv
<1> SUFFICES ASSUME Init PROVE Counts /\ Flights
  BY DEF Inv
<1>1. IsFiniteSet(counted) /\ Cardinality(counted) = 0
  BY FS_EmptySet DEF Init
<1>2. Counts
  BY <1>1, Parameters DEF Init, Counts, CountsConsistent, HalfOpenOne, Zero
<1>3. Flights
  <2>1. pc \in [Reqs -> Places]
    BY DEF Init, Places
  <2>2. attempt \in [Reqs -> 0 .. RetryMax]
    BY Parameters DEF Init
  <2>3. expired \in [Reqs -> BOOLEAN] /\ cancelled \in BOOLEAN
    BY Zenon DEF Init
  <2>4. counted = {} /\ tokens \in 0 .. Burst /\ RetriesLeft
    BY Parameters DEF Init, RetriesLeft
  <2> QED BY <2>1, <2>2, <2>3, <2>4 DEF Flights
<1> QED BY <1>2, <1>3

\* A request enters the breaker: it is counted, and is the only one of a
\* half-open generation.
LEMMA AdmitStep ==
  ASSUME Inv, NEW r \in Reqs, Admit(r)
  PROVE  Inv'
<1> USE DEF Inv
<1>1. /\ pc[r] = "gate" /\ Admits /\ counts.requests < MaxSample
      /\ counts' = [counts EXCEPT !.requests = @ + 1]
      /\ counted' = counted \cup {r} /\ breaker' = breaker
      /\ pc' = [pc EXCEPT ![r] = "limiter"]
      /\ UNCHANGED <<tokens, attempt, expired, cancelled>>
  BY DEF Admit
<1>2. r \notin counted
  BY <1>1 DEF Flights
<1>3. /\ IsFiniteSet(counted') /\ Cardinality(counted') = Cardinality(counted) + 1
      /\ Cardinality(counted) \in Nat
  BY <1>1, <1>2, FS_AddElement, FS_CardinalityType DEF Counts
<1>4. Counts'
  <2>1. /\ counts.requests \in 0 .. MaxSample /\ counts.failures \in 0 .. MaxSample
        /\ counts.observed \in 0 .. MaxSample
    BY DEF Counts
  <2>2. /\ counts'.requests = counts.requests + 1 /\ counts'.failures = counts.failures
        /\ counts'.observed = counts.observed
    BY <1>1 DEF Counts
  <2>3. CountsConsistent'
    BY <1>1, <1>3, <2>1, <2>2 DEF Counts, CountsConsistent, Admits
  <2>4. HalfOpenOne'
    BY <1>1, <2>2 DEF HalfOpenOne, Admits
  <2>5. counts.requests + 1 \in 0 .. MaxSample
    BY <1>1, <2>1, Parameters
  <2> QED BY <1>1, <1>3, <2>3, <2>4, <2>5 DEF Counts
<1>5. Flights'
  BY <1>1 DEF Flights, RetriesLeft, Places
<1> QED BY <1>4, <1>5

\* An attempt whose outcome the breaker has been told: CheckRetry's decision, or
\* the end of a request whose failure is not retried.
LEMMA OutcomeStep ==
  ASSUME Inv, NEW r \in Reqs, pc[r] \in {"limiter", "wire"},
         NEW success \in BOOLEAN, Observe(r, success),
         NEW good \in BOOLEAN, Retry(r, good) \/ Ends(r, "failed"),
         UNCHANGED <<tokens, cancelled>>
  PROVE  Inv'
<1> USE DEF Inv
<1>1. Counts' /\ counted' \subseteq counted \ {r}
  BY ObserveKeepsCounts
<1>2. PICK place \in {"ok", "failed", "backoff"} :
        /\ pc' = [pc EXCEPT ![r] = place]
        /\ \/ attempt' = [attempt EXCEPT ![r] = 0] /\ expired' = [expired EXCEPT ![r] = FALSE]
              /\ place # "backoff"
           \/ UNCHANGED <<attempt, expired>> /\ ~(attempt[r] >= RetryMax)
  BY DEF Retry, Ends
<1>3. PICK n \in 0 .. RetryMax, e \in BOOLEAN :
        /\ attempt' = [attempt EXCEPT ![r] = n] /\ expired' = [expired EXCEPT ![r] = e]
        /\ place = "backoff" => n < RetryMax
  <2>1. /\ expired = [expired EXCEPT ![r] = expired[r]] /\ expired[r] \in BOOLEAN
        /\ attempt = [attempt EXCEPT ![r] = attempt[r]] /\ attempt[r] \in 0 .. RetryMax
        /\ RetryMax \in Nat
    BY Parameters DEF Flights
  <2>2. CASE UNCHANGED <<attempt, expired>> /\ ~(attempt[r] >= RetryMax)
    BY <2>1, <2>2
  <2>3. CASE /\ attempt' = [attempt EXCEPT ![r] = 0] /\ expired' = [expired EXCEPT ![r] = FALSE]
             /\ place # "backoff"
    <3>1. 0 \in 0 .. RetryMax /\ FALSE \in BOOLEAN
      BY <2>1
    <3> QED BY <2>3, <3>1, Zenon
  <2> QED BY <1>2, <2>2, <2>3
<1>4. place \in Places /\ tokens' \in 0 .. Burst
  BY DEF Places, Flights
<1>5. Flights'
  BY <1>1, <1>2, <1>3, <1>4, MoveKeepsFlights
<1> QED BY <1>1, <1>5

\* The other steps of a request: the breaker is not involved.
LEMMA RequestStep ==
  ASSUME Inv, NEW r \in Reqs,
         \/ Start(r) \/ Reject(r) \/ TakeToken(r) \/ BackoffEnds(r)
         \/ BackoffCut(r) \/ Expire(r)
  PROVE  Inv'
<1> USE Parameters DEF Inv
<1>0. /\ expired = [expired EXCEPT ![r] = expired[r]] /\ expired[r] \in BOOLEAN
      /\ attempt = [attempt EXCEPT ![r] = attempt[r]] /\ attempt[r] \in 0 .. RetryMax
      /\ tokens \in 0 .. Burst
  BY DEF Flights
<1>1. Counts'
  BY DEF Counts, CountsConsistent, HalfOpenOne, Start, Reject, TakeToken, BackoffEnds,
         BackoffCut, Expire
<1>2. CASE Start(r)
  <2>1. pc[r] \in Ended /\ pc' = [pc EXCEPT ![r] = "gate"]
        /\ UNCHANGED <<counted, tokens, attempt, expired, cancelled>>
    BY <1>2 DEF Start
  <2>2. r \notin counted
    BY <2>1 DEF Flights, Ended
  <2> QED BY <1>0, <1>1, <2>1, <2>2, MoveKeepsFlights DEF Places
<1>3. CASE Reject(r) \/ BackoffCut(r)
  <2>1. pc[r] \in {"gate", "backoff"} /\ pc' = [pc EXCEPT ![r] = "failed"]
        /\ attempt' = [attempt EXCEPT ![r] = 0] /\ expired' = [expired EXCEPT ![r] = FALSE]
        /\ UNCHANGED <<counted, tokens, cancelled>>
    BY <1>3 DEF Reject, BackoffCut, Ends
  <2>2. r \notin counted
    BY <2>1 DEF Flights
  <2>3. "failed" \in Places /\ 0 \in 0 .. RetryMax /\ FALSE \in BOOLEAN
    BY DEF Places
  <2>4. "failed" # "backoff" /\ counted' \subseteq counted \ {r}
    BY <2>1, <2>2
  <2>5. Flights'
    BY <1>0, <2>1, <2>3, <2>4, MoveKeepsFlights
  <2> QED BY <1>1, <2>5
<1>4. CASE TakeToken(r)
  <2>1. tokens > 0 /\ tokens' = tokens - 1 /\ pc' = [pc EXCEPT ![r] = "wire"]
        /\ UNCHANGED <<counted, attempt, expired, cancelled>>
    BY <1>4 DEF TakeToken
  <2>2. tokens' \in 0 .. Burst
    BY <2>1 DEF Flights
  <2> QED BY <1>0, <1>1, <2>1, <2>2, MoveKeepsFlights DEF Places
<1>5. CASE BackoffEnds(r)
  <2>1. /\ pc[r] = "backoff" /\ pc' = [pc EXCEPT ![r] = "gate"]
        /\ attempt' = [attempt EXCEPT ![r] = attempt[r] + 1]
        /\ UNCHANGED <<counted, tokens, expired, cancelled>>
    BY <1>5 DEF BackoffEnds, Flights
  <2>2. attempt[r] \in 0 .. RetryMax /\ attempt[r] < RetryMax
    BY <2>1 DEF Flights, RetriesLeft
  <2>3. attempt[r] + 1 \in 0 .. RetryMax /\ r \notin counted
    BY <2>1, <2>2 DEF Flights
  <2> QED BY <1>0, <1>1, <2>1, <2>3, MoveKeepsFlights DEF Places
<1>6. CASE Expire(r)
  <2>1. /\ expired' = [expired EXCEPT ![r] = TRUE]
        /\ UNCHANGED <<counted, tokens, pc, attempt, cancelled>>
    BY <1>6 DEF Expire
  <2>2. expired' \in [Reqs -> BOOLEAN]
    BY <2>1 DEF Flights
  <2> QED BY <1>1, <2>1, <2>2 DEF Flights, RetriesLeft
<1> QED BY <1>2, <1>3, <1>4, <1>5, <1>6

\* The breaker's clocks, the limiter's refill and the shutdown.
LEMMA ClockStep ==
  ASSUME Inv, WindowEnds \/ CooldownEnds \/ Refill \/ Shutdown
  PROVE  Inv'
<1> USE Parameters DEF Inv
<1>1. CASE WindowEnds \/ CooldownEnds
  <2>1. Counts' /\ counted' = {}
    BY <1>1, FreshGeneration DEF WindowEnds, CooldownEnds
  <2> QED BY <1>1, <2>1 DEF WindowEnds, CooldownEnds, Flights, RetriesLeft
<1>2. CASE Refill \/ Shutdown
  <2>1. Counts'
    BY <1>2 DEF Refill, Shutdown, Counts, CountsConsistent, HalfOpenOne
  <2>2. tokens' \in 0 .. Burst
    BY <1>2 DEF Refill, Shutdown, Flights
  <2>3. cancelled' = cancelled \/ cancelled' = TRUE
    BY <1>2 DEF Refill, Shutdown
  <2>4. cancelled' \in BOOLEAN
    BY <2>3, Zenon DEF Flights
  <2>5. UNCHANGED <<counted, pc, attempt, expired>>
    BY <1>2 DEF Refill, Shutdown
  <2> QED BY <2>1, <2>2, <2>4, <2>5 DEF Flights, RetriesLeft
<1> QED BY <1>1, <1>2

\* Every step a request's goroutine takes.
LEMMA ProceedStep ==
  ASSUME Inv, NEW r \in Reqs, Proceed(r)
  PROVE  Inv'
<1>1. CASE Admit(r)
  BY <1>1, AdmitStep
<1>2. CASE Reject(r) \/ TakeToken(r) \/ BackoffEnds(r) \/ BackoffCut(r)
  BY <1>2, RequestStep
<1>3. CASE LimiterFails(r)
  <2>1. /\ pc[r] \in {"limiter", "wire"} /\ Observe(r, Canceled(r)) /\ Retry(r, FALSE)
        /\ UNCHANGED <<tokens, cancelled>>
    BY <1>3 DEF LimiterFails
  <2>2. Canceled(r) \in BOOLEAN
    BY DEF Inv, Flights, Canceled
  <2> QED BY <2>1, <2>2, OutcomeStep
<1>4. ASSUME NEW o \in Outcomes, WireOutcome(r, o) PROVE Inv'
  <2> DEFINE success == o \in {"answer", "throttled", "canceled"}
             good == o = "answer"
  <2>1. /\ pc[r] \in {"limiter", "wire"} /\ Observe(r, success)
        /\ Retry(r, good) \/ Ends(r, "failed")
        /\ UNCHANGED <<tokens, cancelled>>
    BY <1>4 DEF WireOutcome
  <2>2. success \in BOOLEAN /\ good \in BOOLEAN
    OBVIOUS
  <2> HIDE DEF success, good
  <2> QED BY <2>1, <2>2, OutcomeStep
<1> QED BY <1>1, <1>2, <1>3, <1>4 DEF Proceed

LEMMA InvNext == Inv /\ [Next]_vars => Inv'
<1> SUFFICES ASSUME Inv, [Next]_vars PROVE Inv'
  OBVIOUS
<1>1. ASSUME NEW r \in Reqs, Start(r) \/ Proceed(r) \/ Expire(r) PROVE Inv'
  BY <1>1, RequestStep, ProceedStep
<1>2. CASE WindowEnds \/ CooldownEnds \/ Refill \/ Shutdown
  BY <1>2, ClockStep
<1>3. CASE UNCHANGED vars
  BY <1>3 DEF vars, Inv, Counts, Flights, CountsConsistent, HalfOpenOne, RetriesLeft
<1> QED BY <1>1, <1>2, <1>3 DEF Next

LEMMA Invariance == Spec => []Inv
BY InvInit, InvNext, PTL DEF Spec

\* A half-open generation's only request is its only one in flight.
LEMMA OneProbe == Inv => SingleProbe
<1> SUFFICES ASSUME Inv, breaker = "halfopen" PROVE Cardinality(counted) <= 1
  BY DEF SingleProbe
<1>1. Cardinality(counted) \in Nat
  BY FS_CardinalityType DEF Inv, Counts
<1>2. counts.observed \in Nat /\ counts.requests \in Nat
  BY Parameters DEF Inv, Counts
<1> QED BY <1>1, <1>2 DEF Inv, Counts, CountsConsistent, HalfOpenOne

-----------------------------------------------------------------------------
LEMMA InvType == Inv => TypeOK
BY DEF Inv, Counts, Flights, TypeOK

\* Every variable keeps its type; a counted request is in the limiter or on the
\* wire; the retries stay within the budget.
THEOREM TypeCorrect == Spec => []TypeOK
BY Invariance, InvType, PTL

\* Every request the breaker's generation admitted is in flight or observed,
\* none is counted twice, and an open breaker has forgotten its counts.
THEOREM BooksBalance == Spec => []CountsConsistent
<1>1. Inv => CountsConsistent
  BY DEF Inv, Counts
<1> QED BY <1>1, Invariance, PTL

\* While the breaker is half-open one probe at most is in flight for it.
THEOREM ProbeAlone == Spec => []SingleProbe
BY Invariance, OneProbe, PTL
=============================================================================
