-------------------------- MODULE DispatcherProofs --------------------------
(***************************************************************************)
(* Proofs about Dispatcher for every set of venues, blocks and results.    *)
(*                                                                         *)
(* That no result is duplicated or lost relates the goroutines in flight   *)
(* to the results sent: each (venue, block) of an accepted event is on     *)
(* exactly one side.  It is inductive once nothing is in flight or sent    *)
(* for a block that Run has not taken (Known).                             *)
(***************************************************************************)
EXTENDS Dispatcher, TLAPS

\* A goroutine or a result exists only for an event that Run has taken.
Known ==
  /\ \A c \in calls : c.block \in accepted
  /\ \A k \in DOMAIN delivered : delivered[k].block \in accepted

Inv == TypeOK /\ Known /\ NoSendAfterClose /\ AtMostOnce /\ NothingLost

-----------------------------------------------------------------------------
\* Nothing is accepted, in flight or sent when Run starts.
LEMMA InvInit == Init => Inv
<1> SUFFICES ASSUME Init PROVE Inv
  OBVIOUS
<1>1. delivered \in Seq(Results) /\ DOMAIN delivered = {}
  BY DEF Init
<1> QED BY <1>1 DEF Init, Inv, TypeOK, Known, NoSendAfterClose, AtMostOnce, NothingLost

\* An event is taken: one new goroutine per venue, for a block nothing was in
\* flight or sent for.
LEMMA AnnounceStep ==
  ASSUME Inv, NEW ev \in Blocks, Announce(ev)
  PROVE  Inv'
<1> DEFINE job(v) == [venue |-> v, block |-> ev, expired |-> FALSE,
                      at |-> "snapshot", result |-> {}]
<1> USE DEF Inv
<1>1. /\ pc = "select" /\ ev \notin accepted
      /\ calls' = calls \cup {job(v) : v \in Venues}
      /\ accepted' = accepted \cup {ev}
      /\ UNCHANGED <<pc, delivered, cancelled, eventsClosed>>
  BY DEF Announce, Accept, env
<1>2. \A v \in Venues : job(v) \in Call
  BY DEF Call
<1>3. \A c \in calls' :
        \/ c \in calls /\ c.block # ev
        \/ c.block = ev /\ c.venue \in Venues /\ c = job(c.venue)
  BY <1>1 DEF Known
<1>4. TypeOK'
  BY <1>1, <1>2 DEF TypeOK
<1>5. Known'
  BY <1>1, <1>3 DEF Known
<1>6. NoSendAfterClose'
  BY <1>1 DEF NoSendAfterClose
<1>7. AtMostOnce'
  <2>1. \A c, d \in calls' : Of(c, d) => c = d
    BY <1>3 DEF AtMostOnce, Of
  <2>2. \A c \in calls', k \in DOMAIN delivered : ~Of(c, delivered[k])
    BY <1>1, <1>3 DEF AtMostOnce, Known, Of
  <2> QED BY <1>1, <2>1, <2>2 DEF AtMostOnce
<1>8. NothingLost'
  <2>1. \A v \in Venues : job(v) \in calls' /\ Of(job(v), Job(v, ev))
    BY <1>1 DEF Of, Job
  <2> QED BY <1>1, <2>1 DEF NothingLost
<1> QED BY <1>4, <1>5, <1>6, <1>7, <1>8

\* A goroutine moves on (its deadline passes, its Snapshot returns): it is
\* still the one of its venue and block.
LEMMA GoroutineStep ==
  ASSUME Inv, NEW c \in calls, Expire(c) \/ SnapshotReturns(c), UNCHANGED env
  PROVE  Inv'
<1> USE DEF Inv
<1>1. PICK d \in Call :
        /\ Of(c, d)
        /\ IF d.at = "snapshot" THEN d.result = {}
           ELSE \E r \in Results : d.result = {r} /\ Of(d, r)
        /\ calls' = (calls \ {c}) \cup {d}
        /\ UNCHANGED <<pc, accepted, delivered, cancelled, eventsClosed>>
  <2>1. c \in Call
    BY DEF TypeOK
  <2>2. CASE Expire(c)
    <3> DEFINE d == [c EXCEPT !.expired = TRUE]
    <3>1. d \in Call /\ d.at = "snapshot" /\ d.result = {} /\ Of(c, d)
      BY <2>1, <2>2 DEF Call, Expire, TypeOK, Of
    <3> QED BY <2>2, <3>1 DEF Expire, history, env
  <2>3. CASE SnapshotReturns(c)
    <3>1. PICK r \in Results :
            /\ Of(c, r)
            /\ calls' = (calls \ {c}) \cup {[c EXCEPT !.at = "send", !.result = {r}]}
      BY <2>3 DEF SnapshotReturns
    <3> DEFINE d == [c EXCEPT !.at = "send", !.result = {r}]
    <3>2. d \in Call /\ d.at = "send" /\ d.result = {r} /\ Of(c, d) /\ Of(d, r)
      BY <2>1, <3>1 DEF Call, Of
    <3> QED BY <2>3, <3>1, <3>2 DEF SnapshotReturns, history, env
  <2> QED BY <2>2, <2>3
<1>2. TypeOK'
  BY <1>1 DEF TypeOK
<1>3. Known'
  BY <1>1 DEF Known, Of
<1>4. NoSendAfterClose'
  BY <1>1 DEF NoSendAfterClose
<1>5. AtMostOnce'
  <2>1. \A x \in calls' : \E y \in calls : Of(x, y) /\ (x = y \/ (y = c /\ x = d))
    BY <1>1 DEF Of
  <2>2. \A x, y \in calls' : Of(x, y) => x = y
    BY <1>1 DEF AtMostOnce, Of
  <2>3. \A x \in calls', k \in DOMAIN delivered : ~Of(x, delivered[k])
    BY <2>1 DEF AtMostOnce, Of
  <2> QED BY <1>1, <2>2, <2>3 DEF AtMostOnce
<1>6. NothingLost'
  <2>1. \A x \in calls : \E y \in calls' : Of(y, x)
    BY <1>1 DEF Of
  <2> QED BY <1>1, <2>1 DEF NothingLost, Of
<1> QED BY <1>2, <1>3, <1>4, <1>5, <1>6

\* The Pathfinder takes a result: its goroutine is gone, the result is sent.
LEMMA ReadStep ==
  ASSUME Inv, NEW r \in Results, Read(r)
  PROVE  Inv'
<1> USE DEF Inv
<1>1. PICK c \in calls : c.at = "send" /\ r \in c.result /\ calls' = calls \ {c}
  BY DEF Read, Deliver
<1>2. Of(c, r)
  BY <1>1 DEF TypeOK
<1>3. /\ delivered' = Append(delivered, r)
      /\ UNCHANGED <<pc, accepted, cancelled, eventsClosed>>
  BY DEF Read, Deliver, env
<1>4. /\ delivered' \in Seq(Results)
      /\ Len(delivered) + 1 \in DOMAIN delivered'
      /\ delivered'[Len(delivered) + 1] = r
      /\ \A k \in DOMAIN delivered : k \in DOMAIN delivered' /\ delivered'[k] = delivered[k]
      /\ \A k \in DOMAIN delivered' :
           \/ k = Len(delivered) + 1
           \/ k \in DOMAIN delivered
  BY <1>3 DEF TypeOK
<1>5. TypeOK'
  BY <1>1, <1>3, <1>4 DEF TypeOK
<1>6. Known'
  BY <1>1, <1>2, <1>3, <1>4 DEF Known, Of
<1>7. NoSendAfterClose'
  BY <1>1, <1>3 DEF NoSendAfterClose
<1>8. AtMostOnce'
  <2>1. \A k \in DOMAIN delivered : ~Of(r, delivered[k]) /\ ~Of(delivered[k], r)
    BY <1>2 DEF AtMostOnce, Of
  <2>2. \A j, k \in DOMAIN delivered' : Of(delivered'[j], delivered'[k]) => j = k
    BY <1>4, <2>1 DEF AtMostOnce
  <2>3. \A x \in calls' : ~Of(x, r)
    BY <1>1, <1>2 DEF AtMostOnce, Of
  <2>4. \A x \in calls', k \in DOMAIN delivered' : ~Of(x, delivered'[k])
    BY <1>1, <1>4, <2>3 DEF AtMostOnce
  <2> QED BY <1>1, <2>2, <2>4 DEF AtMostOnce
<1>9. NothingLost'
  <2> SUFFICES ASSUME ~cancelled, NEW ev \in accepted, NEW v \in Venues
               PROVE  \/ \E x \in calls' : Of(x, Job(v, ev))
                      \/ \E k \in DOMAIN delivered' : Of(delivered'[k], Job(v, ev))
    BY <1>3 DEF NothingLost
  <2>1. CASE Of(c, Job(v, ev))
    BY <1>2, <1>4, <2>1 DEF Of
  <2>2. CASE ~Of(c, Job(v, ev))
    BY <1>1, <1>4, <2>2 DEF NothingLost
  <2> QED BY <2>1, <2>2
<1> QED BY <1>5, <1>6, <1>7, <1>8, <1>9

\* The ends: a goroutine gives up (only once the context is done), Run leaves
\* its loop, and the channel is closed (only once no goroutine is left).
LEMMA EndSteps ==
  ASSUME Inv, UNCHANGED env,
         (\E c \in calls : Abandon(c)) \/ Stop \/ Close
  PROVE  Inv'
<1> USE DEF Inv
<1>1. ASSUME NEW c \in calls, Abandon(c) PROVE Inv'
  <2>1. /\ cancelled /\ calls' = calls \ {c}
        /\ UNCHANGED <<pc, accepted, delivered, cancelled, eventsClosed>>
    BY <1>1 DEF Abandon, history, env
  <2> QED BY <2>1 DEF TypeOK, Known, NoSendAfterClose, AtMostOnce, NothingLost
<1>2. CASE Stop
  BY <1>2 DEF Stop, history, env, TypeOK, Known, NoSendAfterClose, AtMostOnce, NothingLost
<1>3. CASE Close
  BY <1>3 DEF Close, history, env, TypeOK, Known, NoSendAfterClose, AtMostOnce, NothingLost
<1> QED BY <1>1, <1>2, <1>3

\* The environment's own steps.
LEMMA EnvironmentSteps ==
  ASSUME Inv, Cancel \/ CloseEvents
  PROVE  Inv'
BY DEF Inv, Cancel, CloseEvents, state, history, TypeOK, Known, NoSendAfterClose,
       AtMostOnce, NothingLost

\* Every step keeps the invariant.
LEMMA InvNext == Inv /\ [Next]_vars => Inv'
<1> SUFFICES ASSUME Inv, [Next]_vars PROVE Inv'
  OBVIOUS
<1>1. CASE Next
  BY <1>1, AnnounceStep, ReadStep, GoroutineStep, EndSteps, EnvironmentSteps
     DEF Next, Step, Internal
<1>2. CASE UNCHANGED vars
  BY <1>2 DEF vars, state, history, env, Inv, TypeOK, Known, NoSendAfterClose,
              AtMostOnce, NothingLost
<1> QED BY <1>1, <1>2

\* What the theorems rest on: Inv holds in every state Run can reach.
LEMMA Invariance == Spec => []Inv
BY InvInit, InvNext, PTL DEF Spec

-----------------------------------------------------------------------------
\* Every variable keeps its type; a goroutine holds a result, its own venue's
\* for its own block, exactly when it is sending.
THEOREM TypeCorrect == Spec => []TypeOK
BY Invariance, PTL DEF Inv

\* close(d.out) runs only when no goroutine is left that could send on the
\* channel.
THEOREM CloseIsSafe == Spec => []NoSendAfterClose
BY Invariance, PTL DEF Inv

\* For each venue and accepted block there is one goroutine or one delivered
\* result, never both and never two.
THEOREM NoDuplicate == Spec => []AtMostOnce
BY Invariance, PTL DEF Inv

\* Until the context is cancelled every venue of every accepted block is being
\* asked or has been delivered, expired deadline or not.
THEOREM NoLoss == Spec => []NothingLost
BY Invariance, PTL DEF Inv
=============================================================================
