---------------------------- MODULE UniswapVenue ----------------------------
(***************************************************************************)
(* The Uniswap adapter on its HTTP client: the rows of one EffectivePrices *)
(* call are concurrent requests that share a breaker and a limiter with    *)
(* one another and with the requests of other blocks' calls, under the     *)
(* context the Dispatcher gives the call.  One failing row can open the    *)
(* breaker for the rest.                                                   *)
(*                                                                         *)
(* The slots of HttpStack are the rows.  One call is followed; before it,  *)
(* and where one of its rows has ended, a slot serves other calls.         *)
(***************************************************************************)
EXTENDS HttpStack

CONSTANTS Sizes, BaseUnit, Heads, Pool, Revert, GasAnswers, Word   \* of UniswapAdapter

VARIABLES
  head, rows, returned, since,   \* of UniswapAdapter
  begun,    \* EffectivePrices has been called
  late      \* the deadline of its context has passed

A == INSTANCE UniswapAdapter WITH expired <- late \/ cancelled

adapterVars == <<head, rows, returned, since>>
callVars == <<adapterVars, begun, late>>
venueVars == <<vars, callVars>>

ASSUME OneSlotPerRow == Reqs = A!Rows
ASSUME WordAssumption == Word \in Nat \ {0} /\ GasAnswers \subseteq Nat
ASSUME HeadsAssumption == Heads \subseteq Nat
ASSUME PoolAssumption ==   \* QuoterV2 returns uint256 amounts
  \A h \in Heads, r \in A!Rows :
    Pool[h][A!Method(r[1])][Sizes[r[2]] * BaseUnit] \in Nat \cup {Revert}

\* The slot serves a row of the call.
InCall(r) == begun /\ rows[r] = A!Unset

\* Some row has not ended.
UnderWay == \E r \in Reqs : InCall(r)

VenueInit == Init /\ begun = FALSE /\ late = FALSE /\ A!Init

-----------------------------------------------------------------------------
\* The two goroutines per size send their requests.
Begin ==
  /\ ~begun
  /\ \A r \in Reqs : pc[r] \in Ended
  /\ begun' = TRUE
  /\ pc' = [r \in Reqs |-> "gate"]
  /\ UNCHANGED <<breaker, counts, counted, tokens, attempt, expired, cancelled,
                 adapterVars, late>>

\* A request of another call.  None begins after the last row: a bound.
Other(r) == ~InCall(r) /\ (begun => UnderWay) /\ Start(r) /\ UNCHANGED callVars

\* A step of a request; one that ends it writes its row.
RowStep(r) ==
  /\ Proceed(r)
  /\ rows' \in IF ~InCall(r) \/ pc'[r] \notin Ended THEN {rows}
               ELSE {[rows EXCEPT ![r] = row] :
                       row \in IF pc'[r] = "ok" THEN A!Answers(r) ELSE {A!Err}}
  /\ UNCHANGED <<head, returned, since, begun, late>>

\* The rows share the deadline of the call.
Deadline ==
  /\ ~late /\ ~cancelled
  /\ UnderWay
  /\ late' = TRUE
  /\ expired' = [r \in Reqs |-> expired[r] \/ InCall(r)]
  /\ UNCHANGED <<breaker, counts, counted, tokens, pc, attempt, cancelled, adapterVars, begun>>

OtherDeadline(r) == ~InCall(r) /\ Expire(r) /\ UNCHANGED callVars

\* wg.Wait returns: none of the goroutines Begin started is left.
Finish ==
  /\ begun /\ ~UnderWay /\ ~returned
  /\ returned' = TRUE
  /\ UNCHANGED <<vars, head, rows, since, begun, late>>

\* The node imports a block while the call is under way.
Import == UnderWay /\ UNCHANGED <<vars, begun, late>> /\ A!NewHead

Clock == (WindowEnds \/ CooldownEnds \/ Refill \/ Shutdown) /\ UNCHANGED callVars

VenueNext ==
  \/ Begin \/ Deadline \/ Finish \/ Import \/ Clock
  \/ \E r \in Reqs : Other(r) \/ RowStep(r) \/ OtherDeadline(r)

VenueSpec == VenueInit /\ [][VenueNext]_venueVars

\* Every request's goroutine runs and its wire attempt ends (RequestTimeout);
\* deadlines pass, the breaker's clocks run, wg.Wait returns.  Refill has no
\* fairness: the bucket may stay empty.  WindowEnds lifts the model's bound on
\* the sample, so it is one of the clocks.
VenueFairSpec ==
  /\ VenueSpec
  /\ \A r \in Reqs : SF_venueVars(RowStep(r)) /\ WF_venueVars(OtherDeadline(r))
  /\ WF_venueVars(Deadline) /\ WF_venueVars(Finish)
  /\ WF_venueVars(CooldownEnds /\ UNCHANGED callVars)
  /\ SF_venueVars(WindowEnds /\ UNCHANGED callVars)

-----------------------------------------------------------------------------
(* Properties. *)

VenueTypeOK == TypeOK /\ A!TypeOK /\ begun \in BOOLEAN /\ late \in BOOLEAN

\* The same of the call over its transport: see UniswapAdapter.
VenueQuotesTrue == A!QuotesTrue

\* Over its real transport the call is still the adapter's: a row is a quote
\* of the state the node then held only if its request was answered before
\* the deadline and the signal, and the call returns complete.
AdapterSpec == A!Spec

\* What the Dispatcher takes for granted of a Snapshot: it returns, whatever
\* the provider, the breaker (which other calls may have opened), the limiter
\* (which may never have a token again) and the backoff do.
SnapshotReturns == begun ~> returned
=============================================================================
