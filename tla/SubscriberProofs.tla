-------------------------- MODULE SubscriberProofs --------------------------
(***************************************************************************)
(* Proofs about Subscriber for every number of heads, every buffer and     *)
(* every set of dial errors.                                               *)
(*                                                                         *)
(* That no head is skipped on one connection, and that what is sent is in  *)
(* order, are facts about the end of a pipe: the head announced last, the  *)
(* heads queued, the head emit holds and the head sent last.  Lined says   *)
(* how the four meet.                                                      *)
(***************************************************************************)
EXTENDS Subscriber, TLAPS

\* What has been sent comes before what emit holds, and that before what is
\* queued; the queue has no gap.
Ordered ==
  /\ \A k \in DOMAIN delivered, i \in pending : delivered[k] < i
  /\ \A k \in DOMAIN delivered, j \in DOMAIN queue : delivered[k] < queue[j]
  /\ \A i \in pending, j \in DOMAIN queue : i < queue[j]
  /\ \A j \in DOMAIN queue : queue[j] = queue[1] + (j - 1)

\* While stream runs, the head it takes next follows the one it took last.
Lined ==
  pc \in {"stream", "emit"} =>
    /\ \A i \in pending : lastOnConn # 0 => i = lastOnConn + 1
    /\ \A i \in pending : queue # <<>> => queue[1] = i + 1
    /\ pending = {} /\ queue # <<>> /\ lastOnConn # 0 => queue[1] = lastOnConn + 1

\* A live subscription has received every head announced since it began: the
\* newest one is the last in the pipe.
UpToDate ==
  subscribed /\ drop = "none" =>
    /\ queue # <<>> => queue[Len(queue)] = head
    /\ queue = <<>> => \A i \in pending : i = head
    /\ (queue = <<>> /\ pc = "stream") => lastOnConn \in {0, head}

Inv == TypeOK /\ OneConnection /\ Ordered /\ Lined /\ UpToDate

-----------------------------------------------------------------------------
\* Run starts with nothing received, held or sent.
LEMMA InvInit == Init => Inv
<1> SUFFICES ASSUME Init PROVE Inv
  OBVIOUS
<1>1. TypeOK
  <2>1. /\ queue \in Seq(1 .. head) /\ Len(queue) <= Buffer
        /\ delivered \in Seq(1 .. head)
    BY BufferAssumption DEF Init
  <2>2. head \in 0 .. Heads /\ lastOnConn \in 0 .. head /\ pending \subseteq 1 .. head
    BY HeadsAssumption DEF Init
  <2>3. subscribed = (pc \in {"stream", "emit", "close"})
    <3>1. (pc \in {"stream", "emit", "close"}) = FALSE
      BY DEF Init
    <3>2. subscribed = FALSE
      BY DEF Init
    <3> QED BY <3>1, <3>2, Zenon
  <2>4. (pending # {}) = (pc = "emit")
    BY DEF Init
  <2>5. (result = "none") = (pc # "done")
    BY DEF Init
  <2>6. pc \in Places /\ cancelled \in BOOLEAN /\ live \in Nat
    BY DEF Init, Places
  <2>7. drop \in {"none", "err", "nil"} /\ result \in {"none", "ctx", "deadline"}
    BY DEF Init
  <2> QED BY <2>1, <2>2, <2>3, <2>4, <2>5, <2>6, <2>7 DEF TypeOK
<1>2. OneConnection /\ Ordered /\ Lined /\ UpToDate
  BY DEF Init, OneConnection, Ordered, Lined, UpToDate
<1> QED BY <1>1, <1>2 DEF Inv

\* dialWithRetry, the sleeps, and the ends of stream and emit: whatever they do
\* to pc and the connection, they leave the pipe alone.
LEMMA ControlSteps ==
  ASSUME Inv, UNCHANGED <<head, cancelled>>,
         \/ DialOk \/ BackoffEnds \/ BackoffCancelled
         \/ \E e \in DialErrors \cup {"ctx"} : DialFails(e) \/ SubscribeFails(e)
         \/ StreamEnds
  PROVE  Inv'
<1> USE DEF Inv
<1>1. CASE DialOk
  <2>1. TypeOK' /\ OneConnection'
    BY <1>1 DEF DialOk, TypeOK, OneConnection, Places, history
  <2> QED BY <1>1, <2>1 DEF DialOk, TypeOK, Ordered, Lined, UpToDate, history
<1>2. CASE BackoffEnds
  <2>1. TypeOK' /\ OneConnection'
    BY <1>2 DEF BackoffEnds, TypeOK, OneConnection, Places, history
  <2> QED BY <1>2, <2>1 DEF BackoffEnds, TypeOK, Ordered, Lined, UpToDate, history
<1>3. CASE BackoffCancelled
  <2>1. TypeOK' /\ OneConnection'
    BY <1>3 DEF BackoffCancelled, TypeOK, OneConnection, Places, history
  <2> QED BY <1>3, <2>1 DEF BackoffCancelled, TypeOK, Ordered, Lined, UpToDate, history
<1>4. ASSUME NEW e \in DialErrors \cup {"ctx"}, DialFails(e)
      PROVE  Inv'
  <2>1. TypeOK' /\ OneConnection'
    BY <1>4, DialErrorsAssumption
       DEF DialFails, DialErr, FailWith, TypeOK, OneConnection, Places, history
  <2> QED BY <1>4, <2>1
          DEF DialFails, FailWith, TypeOK, Ordered, Lined, UpToDate, history
<1>5. ASSUME NEW e \in DialErrors \cup {"ctx"}, SubscribeFails(e)
      PROVE  Inv'
  <2>1. TypeOK' /\ OneConnection'
    BY <1>5, DialErrorsAssumption
       DEF SubscribeFails, DialErr, FailWith, TypeOK, OneConnection, Places, history
  <2> QED BY <1>5, <2>1
          DEF SubscribeFails, FailWith, TypeOK, Ordered, Lined, UpToDate, history
<1>6. CASE StreamEnds
  <2>1. TypeOK' /\ OneConnection'
    BY <1>6 DEF StreamEnds, TypeOK, OneConnection, Places, history
  <2> QED BY <1>6, <2>1 DEF StreamEnds, TypeOK, Ordered, Lined, UpToDate, history
<1> QED BY <1>1, <1>2, <1>3, <1>4, <1>5, <1>6

\* A new subscription, and the end of one: the pipe is empty.
LEMMA ConnectionSteps ==
  ASSUME Inv, UNCHANGED <<head, cancelled>>,
         SubscribeOk \/ CloseSub \/ EmitCancelled
  PROVE  Inv'
<1> USE DEF Inv
<1>0. ASSUME queue' = <<>>
      PROVE  queue' \in Seq(1 .. head) /\ Len(queue') <= Buffer
  BY <1>0, BufferAssumption
<1>1. CASE SubscribeOk
  <2>1. subscribed' = (pc' \in {"stream", "emit", "close"})
    <3>1. pc' \in {"stream", "emit", "close"} /\ subscribed' = TRUE
      BY <1>1 DEF SubscribeOk
    <3> QED BY <3>1, Zenon
  <2>2. TypeOK' /\ OneConnection'
    BY <1>0, <1>1, <2>1 DEF SubscribeOk, TypeOK, OneConnection, Places
  <2> QED BY <1>1, <2>2 DEF SubscribeOk, TypeOK, Ordered, Lined, UpToDate
<1>2. CASE CloseSub
  <2>1. subscribed' = (pc' \in {"stream", "emit", "close"})
    <3>1. (pc' \in {"stream", "emit", "close"}) = FALSE
      BY <1>2 DEF CloseSub
    <3>2. subscribed' = FALSE
      BY <1>2 DEF CloseSub
    <3> QED BY <3>1, <3>2, Zenon
  <2>2. TypeOK' /\ OneConnection'
    BY <1>0, <1>2, <2>1 DEF CloseSub, TypeOK, OneConnection, Places, history
  <2> QED BY <1>2, <2>2 DEF CloseSub, TypeOK, Ordered, Lined, UpToDate, history
<1>3. CASE EmitCancelled
  <2>1. TypeOK' /\ OneConnection'
    BY <1>3 DEF EmitCancelled, TypeOK, OneConnection, Places, history
  <2> QED BY <1>3, <2>1 DEF EmitCancelled, TypeOK, Ordered, Lined, UpToDate, history
<1> QED BY <1>1, <1>2, <1>3

\* stream's headers arm: the head of the queue becomes the one emit holds.
LEMMA TakeHeaderStep ==
  ASSUME Inv, TakeHeader, UNCHANGED <<head, cancelled>>
  PROVE  Inv'
<1> USE DEF Inv
<1>1. /\ pc = "stream" /\ pc' = "emit" /\ pending = {}
      /\ pending' = {queue[1]} /\ queue' = Tail(queue) /\ queue # <<>>
      /\ delivered' = delivered /\ lastOnConn' = lastOnConn
      /\ UNCHANGED <<result, live, subscribed, drop>>
  BY DEF TakeHeader, TypeOK, history
<1>2. /\ Len(queue) \in Nat \ {0} /\ Len(queue') = Len(queue) - 1
      /\ queue' \in Seq(1 .. head)
      /\ \A j \in DOMAIN queue' : j + 1 \in DOMAIN queue /\ queue'[j] = queue[j + 1]
      /\ 1 \in DOMAIN queue /\ queue[1] \in 1 .. head
  BY <1>1 DEF TypeOK
<1>3. TypeOK' /\ OneConnection'
  BY <1>1, <1>2, BufferAssumption DEF TypeOK, OneConnection, Places
<1>4. queue' # <<>> => queue'[1] = queue[1] + 1
  BY <1>2 DEF Ordered
<1>5. \A j \in DOMAIN queue' : queue'[j] = queue[1] + j
  BY <1>2 DEF Ordered, TypeOK
<1>6. Ordered'
  <2>1. /\ \A k \in DOMAIN delivered', i \in pending' : delivered'[k] < i
        /\ \A k \in DOMAIN delivered', j \in DOMAIN queue' : delivered'[k] < queue'[j]
    BY <1>1, <1>2 DEF Ordered
  <2>2. \A i \in pending', j \in DOMAIN queue' : i < queue'[j]
    BY <1>1, <1>2, <1>5
  <2>3. \A j \in DOMAIN queue' : queue'[j] = queue'[1] + (j - 1)
    BY <1>2, <1>5
  <2> QED BY <2>1, <2>2, <2>3 DEF Ordered
<1>7. Lined'
  BY <1>1, <1>4 DEF Lined
<1>8. UpToDate'
  <2>1. CASE queue' = <<>>
    <3>1. Len(queue) = 1
      BY <1>2, <2>1
    <3> QED BY <1>1, <1>2, <2>1, <3>1 DEF UpToDate
  <2>2. CASE queue' # <<>>
    BY <1>1, <1>2, <2>2 DEF UpToDate
  <2> QED BY <2>1, <2>2
<1> QED BY <1>3, <1>6, <1>7, <1>8

\* emit's first arm: the head emit holds becomes the last one sent.
LEMMA EmitStep ==
  ASSUME Inv, NEW i \in pending, Emit(i), UNCHANGED <<head, cancelled>>
  PROVE  Inv'
<1> USE DEF Inv
<1>1. /\ pc = "emit" /\ pc' = "stream" /\ pending' = {} /\ i \in 1 .. head
      /\ delivered' = Append(delivered, i) /\ lastOnConn' = i
      /\ UNCHANGED <<result, live, subscribed, queue, drop>>
  BY DEF Emit, TypeOK
<1>2. TypeOK' /\ OneConnection'
  BY <1>1 DEF TypeOK, OneConnection, Places
<1>3. Ordered'
  BY <1>1 DEF Ordered, TypeOK
<1>4. Lined'
  BY <1>1 DEF Lined, TypeOK
<1>5. UpToDate'
  BY <1>1 DEF UpToDate, TypeOK
<1> QED BY <1>2, <1>3, <1>4, <1>5

\* A head is announced: it joins the pipe, overflows it, or passes it by.
LEMMA AnnounceStep ==
  ASSUME Inv, Announce, UNCHANGED cancelled
  PROVE  Inv'
<1> USE DEF Inv
<1>1. /\ head' = head + 1 /\ head \in Nat /\ head' \in 0 .. Heads
      /\ UNCHANGED <<pc, result, live, subscribed, pending, delivered, lastOnConn>>
  BY HeadsAssumption DEF Announce, TypeOK, history
<1>2. CASE ~subscribed \/ drop # "none"
  <2>1. UNCHANGED <<queue, drop>>
    BY <1>2 DEF Announce
  <2>2. TypeOK' /\ OneConnection'
    BY <1>1, <2>1 DEF TypeOK, OneConnection
  <2> QED BY <1>1, <1>2, <2>1, <2>2 DEF Ordered, Lined, UpToDate
<1>3. CASE subscribed /\ drop = "none" /\ Len(queue) < Buffer
  <2>1. queue' = Append(queue, head + 1) /\ drop' = drop
    BY <1>3 DEF Announce
  <2>2. /\ Len(queue') = Len(queue) + 1 /\ queue' # <<>>
        /\ queue' \in Seq(1 .. head')
        /\ queue'[Len(queue')] = head'
        /\ \A j \in DOMAIN queue' :
             \/ j = Len(queue')
             \/ j \in DOMAIN queue /\ queue'[j] = queue[j]
        /\ Len(queue) \in Nat /\ DOMAIN queue' = 1 .. Len(queue')
        /\ queue # <<>> => queue'[1] = queue[1]
    BY <1>1, <2>1 DEF TypeOK
  <2>3. TypeOK' /\ OneConnection'
    BY <1>1, <1>3, <2>1, <2>2, BufferAssumption DEF TypeOK, OneConnection
  <2>4. Ordered'
    <3>1. \A j \in DOMAIN queue' : queue'[j] = queue'[1] + (j - 1)
      <4>1. CASE queue = <<>>
        BY <1>1, <2>2, <4>1
      <4>2. CASE queue # <<>>
        <5>1. queue[Len(queue)] = queue[1] + (Len(queue) - 1)
          BY <4>2 DEF Ordered, TypeOK
        <5>2. queue[Len(queue)] = head
          BY <1>3, <4>2 DEF UpToDate
        <5>3. queue[1] \in Nat
          BY <4>2 DEF TypeOK
        <5>4. Len(queue') = Len(queue) + 1 /\ Len(queue) \in Nat /\ queue'[1] = queue[1]
          BY <2>2, <4>2
        <5>5. head' = queue[1] + Len(queue)
          BY <1>1, <5>1, <5>2, <5>3, <5>4
        <5>6. queue'[Len(queue')] = queue'[1] + (Len(queue') - 1)
          BY <2>2, <5>3, <5>4, <5>5
        <5>7. \A j \in DOMAIN queue : queue[j] = queue'[1] + (j - 1)
          BY <2>2, <4>2 DEF Ordered
        <5> QED BY <2>2, <5>6, <5>7
      <4> QED BY <4>1, <4>2
    <3>2. \A k \in DOMAIN delivered', j \in DOMAIN queue' : delivered'[k] < queue'[j]
      <4>1. \A k \in DOMAIN delivered : delivered[k] \in 1 .. head
        BY DEF TypeOK
      <4>2. \A k \in DOMAIN delivered : delivered[k] < queue'[Len(queue')]
        BY <1>1, <2>2, <4>1
      <4>3. \A k \in DOMAIN delivered, j \in DOMAIN queue : delivered[k] < queue[j]
        BY DEF Ordered
      <4> QED BY <1>1, <2>2, <4>2, <4>3
    <3>3. \A i \in pending', j \in DOMAIN queue' : i < queue'[j]
      <4>1. \A i \in pending : i \in 1 .. head
        BY DEF TypeOK
      <4>2. \A i \in pending : i < queue'[Len(queue')]
        BY <1>1, <2>2, <4>1
      <4>3. \A i \in pending, j \in DOMAIN queue : i < queue[j]
        BY DEF Ordered
      <4> QED BY <1>1, <2>2, <4>2, <4>3
    <3>4. \A k \in DOMAIN delivered', i \in pending' : delivered'[k] < i
      BY <1>1 DEF Ordered
    <3> QED BY <3>1, <3>2, <3>3, <3>4 DEF Ordered
  <2>5. Lined'
    <3>1. CASE queue = <<>>
      <4>1. queue'[1] = head + 1
        BY <1>1, <2>2, <3>1
      <4>2. \A i \in pending : i = head
        BY <1>3, <3>1 DEF UpToDate
      <4>3. pc = "stream" /\ lastOnConn # 0 => lastOnConn = head
        BY <1>3, <3>1 DEF UpToDate
      <4>4. pc \in {"stream", "emit"} /\ pending = {} => pc = "stream"
        BY DEF TypeOK
      <4> QED BY <1>1, <4>1, <4>2, <4>3, <4>4 DEF Lined
    <3>2. CASE queue # <<>>
      BY <1>1, <2>2, <3>2 DEF Lined
    <3> QED BY <3>1, <3>2
  <2>6. UpToDate'
    BY <2>2 DEF UpToDate
  <2> QED BY <2>3, <2>4, <2>5, <2>6
<1>4. CASE subscribed /\ drop = "none" /\ ~(Len(queue) < Buffer)
  <2>1. queue' = queue /\ drop' = "err"
    BY <1>4 DEF Announce
  <2>2. TypeOK' /\ OneConnection'
    BY <1>1, <2>1 DEF TypeOK, OneConnection
  <2> QED BY <1>1, <2>1, <2>2 DEF Ordered, Lined, UpToDate
<1> QED BY <1>2, <1>3, <1>4

\* The subscription breaks: nothing joins the pipe any more.
LEMMA DropStep ==
  ASSUME Inv, Drop, UNCHANGED cancelled
  PROVE  Inv'
BY DEF Inv, Drop, TypeOK, OneConnection, Ordered, Lined, UpToDate, history

\* Every step keeps the invariant.
LEMMA InvNext == Inv /\ [Next]_vars => Inv'
<1> SUFFICES ASSUME Inv, [Next]_vars PROVE Inv'
  OBVIOUS
<1>1. CASE Step
  BY <1>1, ControlSteps, ConnectionSteps, TakeHeaderStep DEF Step, Internal, Quiet
<1>2. CASE Consume
  BY <1>2, EmitStep DEF Consume, Quiet
<1>3. CASE Provider /\ UNCHANGED cancelled
  BY <1>3, AnnounceStep, DropStep DEF Provider
<1>4. CASE Cancel
  BY <1>4 DEF Cancel, state, history, Inv, TypeOK, OneConnection, Ordered, Lined, UpToDate
<1>5. CASE UNCHANGED vars
  BY <1>5 DEF vars, state, history, Inv, TypeOK, OneConnection, Ordered, Lined, UpToDate
<1> QED BY <1>1, <1>2, <1>3, <1>4, <1>5 DEF Next

\* What the theorems rest on: Inv holds in every state Run can reach.
LEMMA Invariance == Spec => []Inv
BY InvInit, InvNext, PTL DEF Spec

-----------------------------------------------------------------------------
\* Every variable keeps its type, whatever the provider and the context do.
THEOREM TypeCorrect == Spec => []TypeOK
BY Invariance, PTL DEF Inv

\* At most one WebSocket connection is open, and none while Run sleeps,
\* redials or has returned: no path out of Dial or stream leaks one.
THEOREM NoConnectionLeak == Spec => []OneConnection
BY Invariance, PTL DEF Inv

\* On one connection stream and emit skip no head: the next one sent is the
\* successor of the last one.
THEOREM NoGap == Spec => NoGapOnConnection
<1> DEFINE Sent == Len(delivered') > Len(delivered) /\ lastOnConn # 0
                    => delivered'[Len(delivered')] = lastOnConn + 1
<1>1. Inv /\ [Next]_vars => [Sent]_vars
  <2> SUFFICES ASSUME Inv, [Next]_vars, Len(delivered') > Len(delivered), lastOnConn # 0
               PROVE  delivered'[Len(delivered')] = lastOnConn + 1
    OBVIOUS
  <2>1. delivered' # delivered
    BY DEF Inv, TypeOK
  <2>2. Consume
    BY <2>1 DEF Next, Step, Internal, Quiet, DialOk, BackoffEnds, BackoffCancelled,
      DialFails, SubscribeFails, SubscribeOk, TakeHeader, StreamEnds, EmitCancelled,
      CloseSub, Provider, Announce, Drop, Cancel, vars, history
  <2>3. PICK i \in pending : Emit(i)
    BY <2>2 DEF Consume
  <2>4. i = lastOnConn + 1
    BY <2>3 DEF Inv, Lined, Emit
  <2> QED BY <2>3, <2>4 DEF Emit, Inv, TypeOK
<1> QED BY <1>1, Invariance, PTL DEF Spec, NoGapOnConnection

\* The Subscriber implements the lossy in-order feed: what is sent was
\* announced, in order, each head at most once, nothing after the close.
THEOREM Refinement == Spec => FeedSpec
<1>1. Init => Feed!Init
  BY DEF Init, Feed!Init
<1>2. Inv /\ [Next]_vars => [Feed!Next]_(Feed!vars)
  <2> SUFFICES ASSUME Inv, [Next]_vars PROVE [Feed!Next]_(Feed!vars)
    OBVIOUS
  <2> USE DEF Feed!vars
  <2>1. CASE Step
    <3>1. UNCHANGED <<head, delivered>> /\ (pc = "done" => pc' = "done")
      BY <2>1 DEF Step, Internal, Quiet, DialOk, BackoffEnds, BackoffCancelled,
        DialFails, SubscribeFails, SubscribeOk, TakeHeader, StreamEnds, EmitCancelled,
        CloseSub, history
    <3> QED BY <3>1 DEF Feed!Next, Feed!CloseFeed
  <2>2. CASE Consume
    <3>1. PICK i \in pending : Emit(i) /\ head' = head
      BY <2>2 DEF Consume, Quiet
    <3>2. /\ i \in 1 .. head /\ i \in 1 .. Heads
          /\ \A k \in DOMAIN delivered : delivered[k] < i
      BY <3>1, HeadsAssumption DEF Inv, TypeOK, Ordered
    <3>3. Feed!Feed(i)
      BY <3>1, <3>2 DEF Feed!Feed, Emit
    <3> QED BY <3>2, <3>3 DEF Feed!Next
  <2>3. CASE Provider /\ UNCHANGED cancelled
    BY <2>3 DEF Provider, Announce, Drop, history, Feed!Next, Feed!Announce
  <2>4. CASE Cancel
    BY <2>4 DEF Cancel, state, history
  <2>5. CASE UNCHANGED vars
    BY <2>5 DEF vars, state, history
  <2> QED BY <2>1, <2>2, <2>3, <2>4, <2>5 DEF Next
<1> QED BY <1>1, <1>2, Invariance, PTL DEF Spec, FeedSpec, Feed!Spec
=============================================================================
