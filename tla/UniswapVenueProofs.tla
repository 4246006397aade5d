------------------------- MODULE UniswapVenueProofs -------------------------
(***************************************************************************)
(* Proofs about UniswapVenue for every pool, every range of blocks and     *)
(* every parameter of the HTTP client.                                     *)
(*                                                                         *)
(* The client's invariant holds whatever the calls that share it do.  That *)
(* a row is never answered too late rests on LateExpired: the deadline of  *)
(* the call is the deadline of each of its requests still under way.       *)
(***************************************************************************)
EXTENDS UniswapVenue, HttpStackProofs

\* The deadline of the call has passed for each of its rows under way.
LateExpired == late => begun /\ \A r \in Reqs : InCall(r) => expired[r]

\* What A!TypeOK leaves open: rows is a function of the rows, and the node
\* does not go back.
Progress == rows = [r \in A!Rows |-> rows[r]] /\ since <= head

CallInv ==
  /\ A!TypeOK /\ A!QuotesTrue /\ begun \in BOOLEAN /\ late \in BOOLEAN
  /\ LateExpired /\ Progress

VenueInv == Inv /\ CallInv

\* The rows a goroutine may write.
RowValue(r) ==
  {A!Unset, A!Err}
    \cup [kind : {"quote"}, size : {Sizes[r[2]]}, amount : Nat, gas : 0 .. Word - 1]

\* What A!QuotesTrue says of a row's value.
TrueRow(r, row) ==
  row.kind = "quote" =>
    /\ row.gas \in GasAnswers
    /\ \E h \in since .. head : row.amount = Pool[h][A!Method(r[1])][row.size * BaseUnit]

-----------------------------------------------------------------------------
\* A row that is answered is a true quote, of the current head, or an error.
LEMMA AnswerType ==
  ASSUME CallInv, NEW r \in Reqs, NEW row \in A!Answers(r)
  PROVE  row \in RowValue(r) /\ row # A!Unset /\ TrueRow(r, row)
<1>1. r \in A!Rows /\ head \in Heads /\ head \in Nat /\ since \in Nat /\ since <= head
  BY OneSlotPerRow, HeadsAssumption DEF CallInv, A!TypeOK, Progress
<1>2. CASE row = A!Err
  BY <1>2 DEF RowValue, TrueRow, A!Err, A!Unset
<1>3. CASE row # A!Err
  <2>1. PICK gas \in GasAnswers \cap 0 .. Word - 1 :
          /\ A!Primary(r) # Revert
          /\ row = A!Quote(Sizes[r[2]], A!Primary(r), gas)
    BY <1>3 DEF A!Answers
  <2>2. A!Primary(r) \in Nat
    BY <1>1, <2>1, PoolAssumption DEF A!Primary
  <2>3. head \in since .. head
    BY <1>1
  <2>4. row = [kind |-> "quote", size |-> Sizes[r[2]], amount |-> A!Primary(r),
               gas |-> gas]
    BY <2>1 DEF A!Quote
  <2>5. row \in RowValue(r)
    BY <2>1, <2>2, <2>4 DEF RowValue
  <2>6. row # A!Unset
    BY <2>4 DEF A!Unset
  <2>7. TrueRow(r, row)
    BY <2>1, <2>3, <2>4 DEF TrueRow, A!Primary
  <2> QED BY <2>5, <2>6, <2>7
<1> QED BY <1>2, <1>3

LEMMA VenueInvInit == VenueInit => VenueInv
<1> SUFFICES ASSUME VenueInit PROVE VenueInv
  OBVIOUS
<1>1. Inv
  BY InvInit DEF VenueInit
<1>2. head \in Heads /\ since = head /\ head \in Nat /\ cancelled \in BOOLEAN
  BY HeadsAssumption DEF VenueInit, A!Init, Init
<1>3. rows = [r \in A!Rows |-> A!Unset]
  BY DEF VenueInit, A!Init
<1>4. A!TypeOK /\ A!QuotesTrue
  <2>1. A!TypeOK
    BY <1>2, <1>3 DEF VenueInit, A!Init, A!TypeOK
  <2>2. \A r \in A!Rows : rows[r].kind = "unset"
    BY <1>3 DEF A!Unset
  <2> QED BY <2>1, <2>2 DEF A!QuotesTrue
<1>5. LateExpired /\ Progress
  BY <1>2, <1>3 DEF VenueInit, LateExpired, Progress
<1> QED BY <1>1, <1>4, <1>5 DEF VenueInv, CallInv, VenueInit

-----------------------------------------------------------------------------
(* The client keeps its invariant. *)

\* The call's requests start together, in slots that are free.
LEMMA BeginKeepsClient ==
  ASSUME Inv, Begin
  PROVE  Inv'
<1>1. \A r \in Reqs : pc[r] \in Ended
  BY DEF Begin
<1>2. counted = {}
  BY <1>1 DEF Inv, Flights, Ended
<1>3. /\ pc' = [r \in Reqs |-> "gate"]
      /\ UNCHANGED <<breaker, counts, counted, tokens, attempt, expired, cancelled>>
  BY DEF Begin
<1>4. Counts'
  BY <1>3 DEF Inv, Counts, CountsConsistent, HalfOpenOne
<1>5. pc' \in [Reqs -> Places] /\ RetriesLeft'
  BY <1>3 DEF Places, RetriesLeft
<1>6. Flights'
  BY <1>2, <1>3, <1>5 DEF Inv, Flights
<1> QED BY <1>4, <1>6 DEF Inv

\* The deadline of the call only touches the requests' contexts.
LEMMA DeadlineKeepsClient ==
  ASSUME Inv, Deadline
  PROVE  Inv'
<1>1. /\ expired' = [r \in Reqs |-> expired[r] \/ InCall(r)]
      /\ UNCHANGED <<breaker, counts, counted, tokens, pc, attempt, cancelled>>
  BY DEF Deadline
<1>2. expired' \in [Reqs -> BOOLEAN]
  BY <1>1, Zenon
<1>3. Counts'
  BY <1>1 DEF Inv, Counts, CountsConsistent, HalfOpenOne
<1>4. Flights'
  BY <1>1, <1>2 DEF Inv, Flights, RetriesLeft
<1> QED BY <1>3, <1>4 DEF Inv

LEMMA ClientKept ==
  ASSUME Inv, VenueNext \/ UNCHANGED venueVars
  PROVE  Inv'
<1>1. CASE UNCHANGED vars
  BY <1>1, InvNext
<1>2. ASSUME NEW r \in Reqs, Start(r) \/ Proceed(r) \/ Expire(r) PROVE Inv'
  BY <1>2, RequestStep, ProceedStep
<1>3. CASE WindowEnds \/ CooldownEnds \/ Refill \/ Shutdown
  BY <1>3, ClockStep
<1> QED BY <1>1, <1>2, <1>3, BeginKeepsClient, DeadlineKeepsClient
        DEF VenueNext, venueVars, Finish, Import, Clock, Other, RowStep, OtherDeadline

-----------------------------------------------------------------------------
(* The call keeps its own. *)

\* A request under way stays under its context until it ends.
LEMMA ExpiredUntilEnd ==
  ASSUME Inv, NEW r \in Reqs, Proceed(r)
  PROVE  /\ \A q \in Reqs : q # r => expired'[q] = expired[q]
         /\ pc'[r] \notin Ended => expired'[r] = expired[r]
         /\ pc'[r] = "ok" => ~expired[r] /\ ~cancelled
         /\ cancelled' = cancelled
<1>1. pc \in [Reqs -> Places] /\ expired \in [Reqs -> BOOLEAN]
  BY DEF Inv, Flights
<1>2. CASE Admit(r) \/ TakeToken(r) \/ BackoffEnds(r)
  BY <1>1, <1>2 DEF Admit, TakeToken, BackoffEnds
<1>3. CASE Reject(r) \/ BackoffCut(r)
  BY <1>1, <1>3 DEF Reject, BackoffCut, Ends, Ended
<1>4. ASSUME NEW good, Retry(r, good) \/ Ends(r, "failed"), UNCHANGED cancelled
      PROVE  /\ \A q \in Reqs : q # r => expired'[q] = expired[q]
             /\ pc'[r] \notin Ended => expired'[r] = expired[r]
             /\ pc'[r] = "ok" => ~expired[r] /\ ~cancelled
             /\ cancelled' = cancelled
  BY <1>1, <1>4 DEF Retry, Ends, Ended, CtxDone
<1>5. CASE LimiterFails(r)
  BY <1>4, <1>5 DEF LimiterFails
<1>6. ASSUME NEW o \in Outcomes, WireOutcome(r, o)
      PROVE  (Retry(r, o = "answer") \/ Ends(r, "failed")) /\ UNCHANGED cancelled
  BY <1>6 DEF WireOutcome
<1> QED BY <1>2, <1>3, <1>4, <1>5, <1>6 DEF Proceed

\* A row is left alone, or one that was open is written for good.
LEMMA RowStepKeepsCall ==
  ASSUME VenueInv, NEW r \in Reqs, RowStep(r)
  PROVE  CallInv'
<1> USE DEF VenueInv
<1>1. UNCHANGED <<head, returned, since, begun, late>>
  BY DEF RowStep
<1>2. /\ \A q \in Reqs : q # r => expired'[q] = expired[q]
      /\ pc'[r] \notin Ended => expired'[r] = expired[r]
  BY ExpiredUntilEnd DEF RowStep
<1>3. Reqs = A!Rows
  BY OneSlotPerRow
<1>4. CASE ~InCall(r) \/ pc'[r] \notin Ended
  <2>1. rows' = rows
    BY <1>4 DEF RowStep
  <2>2. A!TypeOK' /\ A!QuotesTrue'
    BY <1>1, <2>1 DEF CallInv, A!TypeOK, A!QuotesTrue
  <2>3. LateExpired'
    BY <1>1, <1>2, <1>4, <2>1 DEF CallInv, LateExpired, InCall
  <2> QED BY <1>1, <2>1, <2>2, <2>3 DEF CallInv, Progress
<1>5. CASE InCall(r) /\ pc'[r] \in Ended
  <2>1. PICK row : /\ row \in A!Answers(r) \/ row = A!Err
                   /\ rows' = [rows EXCEPT ![r] = row]
    BY <1>5 DEF RowStep
  <2>2. row \in RowValue(r) /\ row # A!Unset /\ TrueRow(r, row)
    <3>1. A!Err \in A!Answers(r)
      BY DEF A!Answers
    <3> QED BY <2>1, <3>1, AnswerType
  <2>3. rows' = [q \in A!Rows |-> IF q = r THEN row ELSE rows[q]]
    BY <1>3, <2>1 DEF CallInv, Progress
  <2>4. A!TypeOK'
    <3>1. \A q \in A!Rows : rows'[q] \in RowValue(q)
      BY <2>2, <2>3 DEF CallInv, A!TypeOK, RowValue
    <3> QED BY <1>1, <3>1 DEF CallInv, A!TypeOK, RowValue
  <2>5. LateExpired'
    BY <1>1, <1>2, <1>3, <2>2, <2>3 DEF CallInv, LateExpired, InCall
  <2>6. Progress'
    BY <1>1, <2>3 DEF CallInv, Progress
  <2>7. A!QuotesTrue'
    <3>1. \A q \in A!Rows : TrueRow(q, rows[q])
      BY DEF CallInv, A!QuotesTrue, TrueRow
    <3>2. \A q \in A!Rows : TrueRow(q, rows'[q])
      BY <2>2, <2>3, <3>1
    <3> QED BY <1>1, <3>2 DEF A!QuotesTrue, TrueRow
  <2> QED BY <1>1, <2>4, <2>5, <2>6, <2>7 DEF CallInv
<1> QED BY <1>4, <1>5

\* The steps of the call, of other calls and of the node.
LEMMA OtherStepsKeepCall ==
  ASSUME VenueInv,
         \/ Begin \/ Deadline \/ Finish \/ Import \/ Clock
         \/ \E r \in Reqs : Other(r) \/ OtherDeadline(r)
         \/ UNCHANGED venueVars
  PROVE  CallInv'
<1> USE DEF VenueInv
<1>0. expired \in [Reqs -> BOOLEAN] /\ Reqs = A!Rows
  BY OneSlotPerRow DEF Inv, Flights
<1>1. CASE Begin
  BY <1>1 DEF Begin, adapterVars, CallInv, A!TypeOK, A!QuotesTrue, LateExpired, Progress
<1>2. CASE Deadline
  <2>1. /\ UnderWay /\ late' = TRUE
        /\ expired' = [r \in Reqs |-> expired[r] \/ InCall(r)]
        /\ UNCHANGED <<adapterVars, begun>>
    BY <1>2 DEF Deadline
  <2>2. begun
    BY <2>1 DEF UnderWay, InCall
  <2>3. \A r \in Reqs : InCall(r)' = InCall(r)
    BY <2>1 DEF InCall, adapterVars
  <2>4. LateExpired'
    BY <2>1, <2>2, <2>3 DEF LateExpired
  <2> QED BY <2>1, <2>4 DEF adapterVars, CallInv, A!TypeOK, A!QuotesTrue, Progress
<1>3. CASE Finish
  BY <1>0, <1>3 DEF Finish, vars, CallInv, A!TypeOK, A!QuotesTrue, LateExpired, InCall, Progress
<1>4. CASE Import
  <2>1. /\ head + 1 \in Heads /\ head' = head + 1
        /\ UNCHANGED <<rows, returned, since, begun, late, expired>>
    BY <1>4 DEF Import, A!NewHead, vars
  <2>2. head \in Nat /\ since \in Nat /\ since <= head'
    BY <2>1, HeadsAssumption DEF CallInv, A!TypeOK, Progress
  <2>3. \A r \in A!Rows : rows[r] \in RowValue(r)
    BY DEF CallInv, A!TypeOK, RowValue
  <2>4. since .. head \subseteq since .. head'
    BY <2>1, <2>2
  <2>5. A!TypeOK'
    BY <2>1, <2>3 DEF CallInv, A!TypeOK, RowValue
  <2>6. A!QuotesTrue'
    BY <2>1, <2>4 DEF CallInv, A!QuotesTrue
  <2> QED BY <2>1, <2>2, <2>5, <2>6 DEF CallInv, LateExpired, InCall, Progress
<1>5. CASE Clock
  <2>1. UNCHANGED callVars /\ UNCHANGED expired
    BY <1>5 DEF Clock, WindowEnds, CooldownEnds, Refill, Shutdown
  <2> QED BY <2>1
          DEF callVars, adapterVars, CallInv, A!TypeOK, A!QuotesTrue, LateExpired, InCall, Progress
<1>6. ASSUME NEW r \in Reqs, Other(r) \/ OtherDeadline(r)
      PROVE  CallInv'
  <2>1. UNCHANGED callVars /\ ~InCall(r)
    BY <1>6 DEF Other, OtherDeadline
  <2>2. expired' = expired \/ expired' = [expired EXCEPT ![r] = TRUE]
    BY <1>6 DEF Other, OtherDeadline, Start, Expire
  <2>3. \A q \in Reqs : InCall(q) => expired'[q] = expired[q]
    BY <1>0, <2>1, <2>2
  <2> QED BY <2>1, <2>3
          DEF callVars, adapterVars, CallInv, A!TypeOK, A!QuotesTrue, LateExpired, InCall, Progress
<1>7. CASE UNCHANGED venueVars
  BY <1>7 DEF venueVars, vars, callVars, adapterVars, CallInv, A!TypeOK, A!QuotesTrue,
              LateExpired, InCall, Progress
<1> QED BY <1>1, <1>2, <1>3, <1>4, <1>5, <1>6, <1>7

LEMMA VenueInvNext == VenueInv /\ [VenueNext]_venueVars => VenueInv'
<1> SUFFICES ASSUME VenueInv, VenueNext \/ UNCHANGED venueVars PROVE VenueInv'
  OBVIOUS
<1>1. Inv'
  BY ClientKept DEF VenueInv
<1>2. CallInv'
  BY RowStepKeepsCall, OtherStepsKeepCall DEF VenueNext
<1> QED BY <1>1, <1>2 DEF VenueInv

LEMMA VenueInvariance == VenueSpec => []VenueInv
BY VenueInvInit, VenueInvNext, PTL DEF VenueSpec

-----------------------------------------------------------------------------
\* The types of the client and of the call: a row holds an error, or a quote of
\* its own size whose gas estimate fits.
THEOREM VenueTypeCorrect == VenueSpec => []VenueTypeOK
<1>1. VenueInv => VenueTypeOK
  BY InvType DEF VenueInv, CallInv, VenueTypeOK
<1> QED BY <1>1, VenueInvariance, PTL

\* A quote is one the quoter gave this call, over any transport: its amount is
\* the pool's in a block the node held since the call began, and its gas an
\* estimate that was answered (quote, quoteBuy, quoteSell).
THEOREM QuotesAreTrue == VenueSpec => []VenueQuotesTrue
<1>1. VenueInv => VenueQuotesTrue
  BY DEF VenueInv, CallInv, VenueQuotesTrue
<1> QED BY <1>1, VenueInvariance, PTL

\* The breaker's books balance for the requests of a call and of the calls that
\* share the client with it.
THEOREM VenueBooksBalance == VenueSpec => []CountsConsistent
<1>1. VenueInv => CountsConsistent
  BY DEF VenueInv, Inv, Counts
<1> QED BY <1>1, VenueInvariance, PTL

\* One probe at most, whichever call sent it.
THEOREM VenueProbeAlone == VenueSpec => []SingleProbe
<1>1. VenueInv => SingleProbe
  BY OneProbe DEF VenueInv
<1> QED BY <1>1, VenueInvariance, PTL

\* Over the real transport the call implements the adapter's specification: a
\* row is a quote of the state then held only if its request was answered
\* before the deadline and the signal, and the call returns complete.
THEOREM AdapterRefined == VenueSpec => AdapterSpec
<1>1. VenueInit => A!Init
  <2> SUFFICES ASSUME VenueInit PROVE A!Init
    OBVIOUS
  <2> QED BY DEF VenueInit, A!Init
<1>2. VenueInv /\ [VenueNext]_venueVars => [A!Next]_(A!vars)
  <2> SUFFICES ASSUME VenueInv, VenueNext \/ UNCHANGED venueVars
               PROVE  A!Next \/ UNCHANGED A!vars
    OBVIOUS
  <2> USE DEF VenueInv
  <2>1. CASE UNCHANGED adapterVars /\ UNCHANGED <<late, cancelled>>
    BY <2>1 DEF adapterVars, A!vars
  <2>2. CASE Begin \/ \E r \in Reqs : Other(r) \/ OtherDeadline(r)
    BY <2>1, <2>2 DEF Begin, Other, OtherDeadline, Start, Expire, callVars
  <2>3. CASE Deadline \/ Clock
    <3>1. UNCHANGED adapterVars /\ (late => late') /\ (cancelled => cancelled')
      BY <2>3 DEF Deadline, Clock, callVars, WindowEnds, CooldownEnds, Refill, Shutdown
    <3>2. CASE late \/ cancelled
      <4>1. (late \/ cancelled) = TRUE /\ (late' \/ cancelled') = TRUE
        BY <3>1, <3>2
      <4> QED BY <3>1, <4>1 DEF A!vars, adapterVars
    <3>3. CASE ~(late \/ cancelled)
      <4>1. CASE (late' \/ cancelled') = TRUE
        BY <3>1, <3>3, <4>1 DEF A!Next, A!Expire, adapterVars
      <4>2. CASE (late' \/ cancelled') = FALSE
        BY <3>1, <3>3, <4>2 DEF A!vars, adapterVars
      <4> QED BY <4>1, <4>2
    <3> QED BY <3>2, <3>3
  <2>4. CASE Finish
    <3>1. \A r \in A!Rows : rows[r] # A!Unset
      BY <2>4, OneSlotPerRow DEF Finish, UnderWay, InCall
    <3>2. A!Return
      BY <2>4, <3>1 DEF Finish, vars, A!Return
    <3> QED BY <3>2 DEF A!Next
  <2>5. CASE Import
    BY <2>5 DEF Import, A!Next
  <2>6. ASSUME NEW r \in Reqs, RowStep(r) PROVE A!Next \/ UNCHANGED A!vars
    <3>1. /\ UNCHANGED <<head, returned, since, begun, late, cancelled>>
          /\ pc'[r] = "ok" => ~expired[r] /\ ~cancelled
      BY <2>6, ExpiredUntilEnd DEF RowStep
    <3>2. CASE ~InCall(r) \/ pc'[r] \notin Ended
      BY <2>1, <2>6, <3>1, <3>2 DEF RowStep, adapterVars
    <3>3. CASE InCall(r) /\ pc'[r] \in Ended /\ pc'[r] # "ok"
      <4>1. A!Fails(r)
        BY <2>6, <3>1, <3>3 DEF RowStep, A!Fails, InCall
      <4> QED BY <4>1, OneSlotPerRow DEF A!Next
    <3>4. CASE InCall(r) /\ pc'[r] = "ok"
      <4>1. ~late /\ ~cancelled
        BY <3>1, <3>4 DEF CallInv, LateExpired
      <4>2. A!Served(r)
        BY <2>6, <3>1, <3>4, <4>1 DEF RowStep, Ended, A!Served, InCall
      <4> QED BY <4>2, OneSlotPerRow DEF A!Next
    <3> QED BY <3>2, <3>3, <3>4
  <2>7. CASE UNCHANGED venueVars
    BY <2>1, <2>7 DEF venueVars, vars, callVars
  <2> QED BY <2>2, <2>3, <2>4, <2>5, <2>6, <2>7 DEF VenueNext
<1> QED BY <1>1, <1>2, VenueInvariance, PTL DEF VenueSpec, AdapterSpec, A!Spec
=============================================================================
